---------------------------- MODULE ReaderCache ----------------------------
(***************************************************************************)
(* How the demux reads its asset.  On its own thread FFmpeg makes           *)
(* synchronous reads and seeks (AvIoContextOpaque), which wait for the      *)
(* answer of ReaderCache.  The cache takes in the whole asset through       *)
(* MojoReader, whose callbacks and tasks run on the mojo thread; MojoReader *)
(* in turn asks NetworkReaderImpl for data pipes.  The HTTP server and the  *)
(* pipes are external: an answer may be an error, a body may break off.     *)
(*                                                                         *)
(* A byte is known by its position in the asset, so that a region holds the *)
(* bytes <<p, p+1, ...>> exactly when it was filled with the right ones.    *)
(***************************************************************************)
EXTENDS SparseByteBuffer

CONSTANTS
    Size,               \* of the asset, in bytes
    kDefaultReadSize,
    Counts,             \* the sizes of FFmpeg's reads
    MaxReads, MaxFaults

kUnknownSize == Size + kDefaultReadSize + 1

VARIABLES
    net,        \* NetworkReaderImpl
    pipe,       \* the data pipe that MojoReader holds
    reader,     \* MojoReader
    store,      \* ReaderCache::Store
    intake,     \* ReaderCache::Intake: what the mojo thread does next for it
    request,    \* ReaderCache::ReadAtRequest
    av,         \* AvIoContextOpaque, on FFmpeg's thread
    reads,      \* reads so far
    faults      \* faults so far

vars == <<net, pipe, reader, store, intake, request, av, reads, faults>>

NoPipe == [open |-> FALSE, next |-> 0, available |-> 0, broken |-> FALSE]
NoRequest == [position |-> 0, remaining |-> 0, present |-> FALSE]

Init ==
    /\ net = [ready |-> FALSE, result |-> "ok", size |-> kUnknownSize, canSeek |-> FALSE]
    /\ pipe = NoPipe
    /\ reader = [at |-> "describing", result |-> "ok", size |-> kUnknownSize,
                 canSeek |-> FALSE, position |-> 0, want |-> 0, bytes |-> <<>>,
                 handlePosition |-> kUnknownSize]
    /\ store = [ready |-> FALSE, result |-> "ok", size |-> kUnknownSize, canSeek |-> FALSE,
                buffer |-> Initialize(1), intakeHole |-> End, readHole |-> End,
                readRegion |-> End, request |-> NoRequest]
    /\ intake = [at |-> "none", position |-> 0, size |-> 0]
    /\ request = [inProgress |-> FALSE, position |-> 0, count |-> 0, bytes |-> <<>>,
                  result |-> "none"]
    /\ av = [at |-> "create", size |-> 0, canSeek |-> FALSE, position |-> 0]
    /\ reads = 0 /\ faults = 0

-----------------------------------------------------------------------------
(* ReaderCache::Store; s is the store, r the ReadAtRequest *)

Initialized(s, result, size, canSeek) ==
    [s EXCEPT !.ready = TRUE, !.result = result, !.size = size, !.canSeek = canSeek,
              !.buffer = Initialize(size),
              !.intakeHole = FindHoleContaining(Initialize(size), 0)]

CopyFrom(r, bytes) == [r EXCEPT !.bytes = @ \o bytes]

Complete(r, result) == [r EXCEPT !.inProgress = FALSE, !.result = result]

\* The bytes that the regions hold, one after the other, from the request's position on.
RegionAt(s, p) == FindRegionContaining(s.buffer, p, s.readRegion)

Held(s) ==
    LET p == s.request.position
        n == Max({k \in 0 .. s.request.remaining :
                     \A q \in p .. p + k - 1 : RegionAt(s, q) # End})
    IN [i \in 1 .. n |-> LET r == RegionAt(s, p + i - 1)
                         IN s.buffer.regions[r][p + i - r]]

\* ServeRequest copies what the regions hold.  The request is then complete, or has
\* come to a hole, which the intake is to fill.
Serve(s, r, bytes) ==
    LET p == s.request.position + Len(bytes)
        left == s.request.remaining - Len(bytes)
    IN CASE s.result # "ok" ->
              [store |-> [s EXCEPT !.request = NoRequest], request |-> Complete(r, s.result)]
         [] s.result = "ok" /\ left = 0 ->
              [store |-> [s EXCEPT !.request = NoRequest, !.readRegion = RegionAt(s, p - 1)],
               request |-> Complete(CopyFrom(r, bytes), "ok")]
         [] OTHER ->
              [store |-> [s EXCEPT !.request.position = p, !.request.remaining = left,
                             !.readRegion = End, !.readHole = p,
                             !.buffer = FindOrCreateHole(@, p, s.intakeHole)],
               request |-> CopyFrom(r, bytes)]

Served(s, bytes) == IF s.request.present THEN Serve(s, request, bytes)
                    ELSE [store |-> s, request |-> request]

ServeRequest(t) ==
    \E s \in {t} : \E bytes \in {Held(s)} : \E served \in {Served(s, bytes)} :
        store' = served.store /\ request' = served.request

SetReadAtRequest(s) ==
    LET p == request.position
        n == IF p + request.count > s.size THEN s.size - p ELSE request.count
    IN ServeRequest([s EXCEPT !.request = [position |-> p, remaining |-> n, present |-> TRUE]])

\* GetIntakePositionAndSize.
Diverted(s) == [s EXCEPT !.intakeHole = s.readHole, !.readHole = End]

IntakeSize(s, size) ==
    IF size > s.buffer.holes[s.intakeHole] THEN s.buffer.holes[s.intakeHole] ELSE size

\* The request came while the intake was reading what it asks for.
Delivering(s, position, n) ==
    IF s.readHole # End /\ s.readHole >= position /\ s.readHole < position + n
    THEN [s EXCEPT !.readHole = End] ELSE s

PutIntakeBuffer(position, bytes) ==
    \E s \in {Delivering(store, position, Len(bytes))} :
       ServeRequest([s EXCEPT !.buffer = Fill(@, s.intakeHole, bytes),
                              !.intakeHole = HoleAfter(s.buffer, s.intakeHole, bytes)])

\* Mutant of ReportIntakeError: the request is left waiting.
ReportIntakeErrorLater(result) == store' = [store EXCEPT !.result = result] /\ UNCHANGED request

ReportIntakeError(result) == ServeRequest([store EXCEPT !.result = result])

-----------------------------------------------------------------------------
(* The mojo thread: ReaderCache::Intake and MojoReader *)

\* The answer to MojoReader's Describe: ReaderCache's constructor initialises the
\* store, and the incident lets AvIoContextOpaque go on.
OnDescribed ==
    /\ net.ready /\ reader.at = "describing"
    /\ LET ok == net.result = "ok"
           size == IF ok THEN net.size ELSE reader.size
           canSeek == ok /\ net.canSeek
       IN /\ reader' = [reader EXCEPT !.at = "idle", !.result = net.result, !.size = size,
                                      !.canSeek = canSeek]
          /\ store' = Initialized(store, net.result, size, canSeek)
          /\ intake' = [intake EXCEPT !.at = IF ok THEN "continue" ELSE "none"]
    /\ UNCHANGED <<net, pipe, request, av, reads, faults>>

\* Continue: asks the store what to read, and MojoReader to read it.
Continue ==
    /\ intake.at = "continue"
    /\ LET s == IF store.readHole # End THEN Diverted(store) ELSE store
           size == IF store.readHole # End THEN store.request.remaining ELSE kDefaultReadSize
       IN \/ /\ s.intakeHole = End
             /\ intake' = [intake EXCEPT !.at = "none"]
             /\ UNCHANGED <<store, reader>>
          \/ /\ s.intakeHole # End
             /\ store' = s
             /\ intake' = [at |-> "reading", position |-> s.intakeHole,
                           size |-> IntakeSize(s, size)]
             /\ reader' = [reader EXCEPT !.at = "posted", !.position = s.intakeHole,
                                         !.want = IntakeSize(s, size)]
    /\ UNCHANGED <<net, pipe, request, av, reads, faults>>

\* CompleteReadAt, with the callback of the intake.
Completed(ok, r) ==
    /\ reader' = [r EXCEPT !.at = "idle"]
    /\ \/ /\ ok
          /\ PutIntakeBuffer(intake.position, r.bytes)
          /\ intake' = [intake EXCEPT !.at = "continue"]
       \/ /\ ~ok
          /\ ReportIntakeError("error")
          /\ intake' = [intake EXCEPT !.at = "none"]

Failed(r) == [r EXCEPT !.result = "error", !.handlePosition = kUnknownSize]

\* ReadResponseBody: takes what the pipe has, and waits for more.
ReadResponseBody(r, p) ==
    \E n \in {Min({p.available, r.want - Len(r.bytes)})} :
    LET got == [r EXCEPT !.at = "body", !.handlePosition = @ + n,
                         !.bytes = @ \o [i \in 1 .. n |-> p.next + i - 1]]
    IN \/ /\ n = 0 /\ p.broken
          /\ Completed(FALSE, Failed(r)) /\ pipe' = NoPipe
       \/ /\ n > 0 \/ ~p.broken
          /\ pipe' = [p EXCEPT !.next = @ + n, !.available = @ - n]
          /\ \/ Len(got.bytes) = r.want /\ Completed(TRUE, got)
             \/ Len(got.bytes) # r.want /\ reader' = got /\ UNCHANGED <<store, intake, request>>

\* Mutant of Sought: a read that does not follow the last one uses its pipe all the same.
SoughtOnce(r) == r.handlePosition = kUnknownSize

\* The open pipe does not continue at the position to be read.
Sought(r) == r.position # r.handlePosition

ContinueReadAt ==
    LET n == IF reader.position + reader.want > reader.size
             THEN reader.size - reader.position ELSE reader.want
    IN \E r \in {[reader EXCEPT !.want = n, !.bytes = <<>>]} :
       /\ reader.at = "posted"
       /\ \/ ~Sought(r) /\ ReadResponseBody(r, pipe)
          \/ /\ Sought(r) /\ pipe' = NoPipe
             /\ LET moved == [r EXCEPT !.handlePosition = kUnknownSize]
                IN \/ ~r.canSeek /\ r.position # 0 /\ Completed(FALSE, moved)
                   \/ /\ r.canSeek \/ r.position = 0
                      /\ reader' = [moved EXCEPT !.at = "asked"]
                      /\ UNCHANGED <<store, intake, request>>
       /\ UNCHANGED <<net, av, reads, faults>>

\* The answer to SeekingReader::ReadAt.
OnReadAt(ok) ==
    /\ reader.at = "asked"
    /\ \/ /\ ok
          /\ ReadResponseBody([reader EXCEPT !.handlePosition = reader.position],
                              [NoPipe EXCEPT !.open = TRUE, !.next = reader.position])
       \/ /\ ~ok
          /\ Completed(FALSE, [reader EXCEPT !.result = "error"]) /\ UNCHANGED pipe
    /\ UNCHANGED <<av, reads>>

\* AsyncWait finds the pipe readable, or broken.
OnReadable ==
    /\ reader.at = "body"
    /\ pipe.available > 0 \/ pipe.broken
    /\ ReadResponseBody(reader, pipe)
    /\ UNCHANGED <<net, av, reads, faults>>

-----------------------------------------------------------------------------
(* NetworkReaderImpl, the server and the data pipe *)

MayFail == faults < MaxFaults

\* The HEAD request: an error, or the size, if it is given, and whether the server
\* accepts ranges.
OnHead ==
    /\ ~net.ready
    /\ \/ /\ net' = [net EXCEPT !.ready = TRUE, !.result = "error"]
          /\ MayFail /\ faults' = faults + 1
       \/ /\ \E canSeek \in BOOLEAN, size \in {Size, kUnknownSize} :
                net' = [net EXCEPT !.ready = TRUE, !.canSeek = canSeek, !.size = size]
          /\ UNCHANGED faults
    /\ UNCHANGED <<pipe, reader, store, intake, request, av, reads>>

\* The GET request, whose body begins at the position asked for.
OnGet ==
    \/ OnReadAt(TRUE) /\ UNCHANGED <<net, faults>>
    \/ /\ MayFail /\ faults' = faults + 1
       /\ net' = [net EXCEPT !.result = "error"]
       /\ OnReadAt(FALSE)

\* A body ends where the asset does.
BodyArrives ==
    /\ pipe.open /\ ~pipe.broken
    /\ \E n \in 0 .. Size - (pipe.next + pipe.available) :
          /\ n > 0 \/ pipe.next + pipe.available = Size
          /\ pipe' = [pipe EXCEPT !.available = @ + n,
                                  !.broken = (n = 0)]
    /\ UNCHANGED <<net, reader, store, intake, request, av, reads, faults>>

BodyBreaksOff ==
    /\ pipe.open /\ ~pipe.broken /\ pipe.next + pipe.available < Size
    /\ MayFail /\ faults' = faults + 1
    /\ pipe' = [pipe EXCEPT !.broken = TRUE]
    /\ UNCHANGED <<net, reader, store, intake, request, av, reads>>

-----------------------------------------------------------------------------
(* AvIoContextOpaque, on FFmpeg's thread *)

\* The constructor waits for Describe; an unknown size is -1.
Create ==
    /\ av.at = "create" /\ store.ready
    /\ av' = [av EXCEPT !.at = "idle", !.canSeek = store.canSeek,
                        !.size = IF store.size = kUnknownSize THEN -1 ELSE store.size]
    /\ UNCHANGED <<net, pipe, reader, store, intake, request, reads, faults>>

\* Read: ReadAt fills in the request, ...
Read(count) ==
    /\ av.at = "idle" /\ av.position < av.size /\ reads < MaxReads
    /\ reads' = reads + 1
    /\ av' = [av EXCEPT !.at = "submit"]
    /\ request' = [inProgress |-> TRUE, position |-> av.position, count |-> count,
                   bytes |-> <<>>, result |-> "none"]
    /\ UNCHANGED <<net, pipe, reader, store, intake, faults>>

\* ... hands it to the store, ...
Submit ==
    /\ av.at = "submit"
    /\ SetReadAtRequest(store)
    /\ av' = [av EXCEPT !.at = "wait"]
    /\ UNCHANGED <<net, pipe, reader, intake, reads, faults>>

\* ... and waits for the callback.
CallbackHappened ==
    /\ av.at = "wait" /\ ~request.inProgress
    /\ av' = [av EXCEPT !.at = "idle",
                        !.position = IF request.result = "ok" THEN @ + Len(request.bytes) ELSE @]
    /\ UNCHANGED <<net, pipe, reader, store, intake, request, reads, faults>>

\* FFmpeg reads the beginning before it seeks, and seeks within the asset.
Seek(position) ==
    /\ av.at = "idle" /\ av.canSeek /\ position < av.size /\ reads > 0 /\ reads < MaxReads
    /\ position # av.position
    /\ av' = [av EXCEPT !.position = position]
    /\ UNCHANGED <<net, pipe, reader, store, intake, request, reads, faults>>

-----------------------------------------------------------------------------
MojoThread == OnDescribed \/ Continue \/ ContinueReadAt \/ OnReadable
Server == OnHead \/ OnGet \/ BodyArrives
FfmpegThread == Create \/ Submit \/ CallbackHappened
Ffmpeg == \/ \E count \in Counts : Read(count)
          \/ \E position \in 0 .. Size - 1 : Seek(position)

Next == MojoThread \/ Server \/ BodyBreaksOff \/ FfmpegThread \/ Ffmpeg

\* The threads run, and the server answers and sends the body, whatever it is.
Fairness == WF_vars(MojoThread) /\ WF_vars(FfmpegThread) /\ WF_vars(Server)

Spec == Init /\ [][Next]_vars /\ Fairness

-----------------------------------------------------------------------------
(* Properties *)

Client ==
    INSTANCE Reader WITH
        call <- [position |-> IF request.inProgress THEN request.position ELSE 0,
                 count |-> IF request.inProgress THEN request.count ELSE 0],
        reply <- [result |-> request.result,
                  bytes |-> IF request.inProgress THEN <<>> ELSE request.bytes],
        failed <- store.result # "ok"

\* The cache, and all that is under it, is a Reader: whatever the order in which the
\* intake works, splits holes and is diverted, a read is answered once, with the
\* bytes it asked for or with an error, and after an error with errors only.
CacheIsReader == Client!Spec

\* Holes and regions partition the asset.  The iterators that the store keeps point to
\* holes that are there, the region found for a position contains it, and while the store works the hole it has kept for the
\* request begins where the request goes on.
HolesAndRegions ==
    LET b == store.buffer
        HoleBytes(h) == h .. h + b.holes[h] - 1
        RegionBytes(r) == r .. r + Len(b.regions[r]) - 1
    IN store.ready =>
        /\ UNION {HoleBytes(h) : h \in DOMAIN b.holes}
             \cup UNION {RegionBytes(r) : r \in DOMAIN b.regions} = 0 .. b.size - 1
        /\ \A h \in DOMAIN b.holes, r \in DOMAIN b.regions :
              HoleBytes(h) \cap RegionBytes(r) = {}
        /\ \A h, g \in DOMAIN b.holes : h # g => HoleBytes(h) \cap HoleBytes(g) = {}
        /\ \A r, q \in DOMAIN b.regions : r # q => RegionBytes(r) \cap RegionBytes(q) = {}
        /\ \A p \in 0 .. b.size - 1 : LET r == RegionAt(store, p)
                                      IN r = End \/ Covers(b, r, p)
        /\ {store.intakeHole, store.readHole} \subseteq DOMAIN b.holes \cup {End}
        /\ store.result = "ok" /\ store.readHole # End =>
              store.request.present /\ store.request.position = store.readHole

\* A read ends: the intake serves it, or fails and says so.
ReadsEnd == request.inProgress ~> ~request.inProgress

=============================================================================
