------------------------------ MODULE MCBuffers ------------------------------
(* Small buffers for TLC: FifoAllocator's, which moves while which is          *)
(* "allocator", and that of a ReaderCache, which moves while it is "cache".    *)
EXTENDS FifoAllocator

VARIABLES which, net, pipe, reader, store, intake, request, av, reads, faults

cache == <<net, pipe, reader, store, intake, request, av, reads, faults>>

\* An asset of four bytes, read in by two at a time and by FFmpeg by one or three.
Cache == INSTANCE ReaderCache WITH
             Size <- 4, kDefaultReadSize <- 2, Counts <- {1, 3}, MaxReads <- 3, MaxFaults <- 1

all == <<vars, cache, which>>

OfCache(A) == which = "cache" /\ A /\ UNCHANGED <<vars, which>>

BuffersInit == which \in {"allocator", "cache"} /\ Init /\ Cache!Init

BuffersNext == \/ which = "allocator" /\ Next /\ UNCHANGED <<cache, which>>
               \/ OfCache(Cache!Next)

\* As in ReaderCache: the threads run, and the server answers and sends the body.
BuffersSpec == /\ BuffersInit /\ [][BuffersNext]_all
               /\ WF_all(OfCache(Cache!MojoThread))
               /\ WF_all(OfCache(Cache!FfmpegThread))
               /\ WF_all(OfCache(Cache!Server))

\* The cache, and all that is under it, is a Reader (ReaderCache, MojoReader).  The
\* holes and the regions of its buffer partition the asset, and the iterators that
\* the store keeps are valid (SparseByteBuffer, ReaderCache::Store).
CacheIsReader == Cache!CacheIsReader /\ []Cache!HolesAndRegions

\* A read of the cache ends (ReaderCache::ReadAtRequest).
ReadsEnd == Cache!ReadsEnd
===============================================================================
