-------------------------- MODULE MCHandleWatcher --------------------------
EXTENDS HandleWatcher, TLC

\* Two watchers of one plain thread that share a handle, two plain threads with a
\* watcher each, and two watchers on a thread with a pump.
ThreadOfWatcher ==
    "w1" :> "t1" @@ "w2" :> "t1" @@ "w3" :> "t2" @@ "w4" :> "t3"
    @@ "w5" :> "pumped" @@ "w6" :> "pumped"
OwnerOfHandle ==
    "h1" :> "t1" @@ "h2" :> "t2" @@ "h3" :> "t3" @@ "h4" :> "pumped" @@ "h5" :> "pumped"
SignalsOfHandle ==
    "h1" :> {"ready", "dead"} @@ "h2" :> {"ready"} @@ "h3" :> {}
    @@ "h4" :> {"ready", "dead"} @@ "h5" :> {}

\* No watch is forgotten by the watcher thread or the pump, and no pump waits on a
\* handle that was closed (WatcherBackend, MessagePumpMojo).
WatchesAreKept == TypeOK /\ NoWatchIsLost /\ NoWaitOnClosedHandle

\* A watch that was not stopped is answered, exactly once, and every Stop ends
\* (HandleWatcher::Start and Stop, WatcherThreadManager::StopWatching).
WatchesAndStopsAreAnswered == CallbacksRunOnce /\ WatchesAndStopsEnd
============================================================================
