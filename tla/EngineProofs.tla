---------------------------- MODULE EngineProofs ----------------------------
(* For every graph and every set of threads: the engine's backlogs are       *)
(* consistent, and it never comes to rest with work left to do.  First the   *)
(* inductive invariant and what the engine's work list does to it, then what *)
(* an update of a stage does, and last the theorems.                         *)
EXTENDS Engine, SequenceTheorems, TLAPS

\* How long the solver may work on a leaf, in seconds.
USE SMTT(30)

(* A backlog and the flags that say which stages are in it. *)
Backlog(q, isIn) ==
  /\ q \in Seq(Stage)
  /\ isIn \in [Stage -> BOOLEAN]
  /\ \A s \in Stage : (isIn[s] = TRUE) <=> (\E k \in 1..Len(q) : q[k] = s)
  /\ \A j, k \in 1..Len(q) : q[j] = q[k] => j = k

(* A thread other than the owner of the lock waits to update stage s. *)
Waiting(s) == \E t \in Thread : pc[t] = s /\ t # owner

Scheduled(s) ==
  Waiting(s) \/ current = s \/ inSupplyBacklog[s] = TRUE \/ inDemandBacklog[s] = TRUE

(* The lock, the stage being updated and the calls that wait. *)
LockOK ==
  /\ owner = None => /\ current = None
                     /\ \A s \in Stage : inSupplyBacklog[s] = FALSE /\ inDemandBacklog[s] = FALSE
  /\ owner # None => current # None /\ pc[owner] # None
  /\ returned # None => /\ current \in Sinks
                        /\ \A i \in Link : Downstream[i] = current => packet[i] = None
  /\ prepared = FALSE => /\ owner = None /\ \A t \in Thread : pc[t] = None
                         /\ \A l \in Link : demand[l] = "negative"
                         /\ \A s \in Stage : asked[s] = FALSE /\ pulling[s] = FALSE
  /\ \A s \in Stage : cached[s] # None => Upstream[cached[s].link] = s

(* A link with a packet and with demand for another: the stage that must     *)
(* take the packet is due before the stage that supplied it, which is in the *)
(* demand backlog.                                                           *)
FullLinksDue ==
  \A l \in Link : packet[l] # None /\ demand[l] # "negative" =>
    /\ inSupplyBacklog[Downstream[l]] = TRUE \/ current = Downstream[l]
    /\ inDemandBacklog[Upstream[l]] = TRUE

(* A stage with work left is on its way to be updated. *)
UnsettledDue == \A s \in Stage : Settled(s) \/ Scheduled(s)

SafeInv ==
  /\ TypeOK
  /\ Backlog(supplyBacklog, inSupplyBacklog) /\ Backlog(demandBacklog, inDemandBacklog)
  /\ LockOK

Inv == SafeInv /\ FullLinksDue /\ UnsettledDue

-----------------------------------------------------------------------------
(* The backlog operations. *)

(* Pushing a stage keeps a backlog consistent, whether it was there or not.  *)
LEMMA PushKeeps ==
  ASSUME NEW q, NEW f, Backlog(q, f), NEW s \in Stage \cup {None}
  PROVE  Backlog(Push(q, f, s), Flagged(f, s))
<1>1. CASE s = None
  BY <1>1, Zenon DEF Push, Flagged
<1>2. CASE s # None /\ f[s] = TRUE
  <2>1. s \in Stage
    BY <1>2, Zenon
  <2>2. Push(q, f, s) = q
    BY <1>2, Zenon DEF Push
  <2>3. Flagged(f, s) = f
    BY <1>2, <2>1 DEF Flagged, Backlog
  <2> QED
    BY <2>2, <2>3, Zenon
<1>3. CASE s # None /\ f[s] # TRUE
  <2>1. s \in Stage
    BY <1>3, Zenon
  <2>2. f \in [Stage -> BOOLEAN] /\ q \in Seq(Stage)
    BY Zenon DEF Backlog
  <2>3. f[s] = FALSE
    BY <1>3, <2>1, <2>2, Zenon
  <2>4. Push(q, f, s) = Append(q, s)
    BY <1>3, <2>3, Zenon DEF Push
  <2>5. Flagged(f, s) = [f EXCEPT ![s] = TRUE]
    BY <1>3, Zenon DEF Flagged
  <2>6. /\ Append(q, s) \in Seq(Stage) /\ Len(Append(q, s)) = Len(q) + 1
        /\ Append(q, s)[Len(q) + 1] = s
        /\ \A k \in 1..Len(q) : Append(q, s)[k] = q[k]
        /\ Len(q) \in Nat
    BY <2>1, <2>2
  <2>7. \A k \in 1..Len(q) : q[k] # s
    BY <2>1, <2>3, Zenon DEF Backlog
  <2>8. \A x \in Stage : ([f EXCEPT ![s] = TRUE][x] = TRUE) <=>
                        (\E k \in 1..Len(Append(q, s)) : Append(q, s)[k] = x)
    <3> SUFFICES ASSUME NEW x \in Stage
                 PROVE ([f EXCEPT ![s] = TRUE][x] = TRUE) <=>
                        (\E k \in 1..Len(Append(q, s)) : Append(q, s)[k] = x)
      BY Zenon
    <3>1. (f[x] = TRUE) <=> (\E k \in 1..Len(q) : q[k] = x)
      BY Zenon DEF Backlog
    <3>2. CASE x = s
      BY <3>2, <2>2, <2>6, <2>1
    <3>3. CASE x # s
      <4>1. [f EXCEPT ![s] = TRUE][x] = f[x]
        BY <3>3, <2>2, Zenon
      <4>2. (\E k \in 1..Len(Append(q, s)) : Append(q, s)[k] = x)
              <=> (\E k \in 1..Len(q) : q[k] = x)
        BY <3>3, <2>6
      <4> QED
        BY <4>1, <4>2, <3>1, Zenon
    <3> QED
      BY <3>2, <3>3, Zenon
  <2>9. \A j, k \in 1..Len(Append(q, s)) : Append(q, s)[j] = Append(q, s)[k] => j = k
    <3>1. \A j, k \in 1..Len(q) : q[j] = q[k] => j = k
      BY Zenon DEF Backlog
    <3> QED
      BY <2>6, <2>7, <3>1
  <2> QED
    BY <2>2, <2>4, <2>5, <2>6, <2>8, <2>9 DEF Backlog
<1> QED
  BY <1>1, <1>2, <1>3, Zenon

(* So does taking the oldest stage off a queue... *)
LEMMA PopFirstKeeps ==
  ASSUME NEW q, NEW f, Backlog(q, f), q # <<>>
  PROVE  Head(q) \in Stage /\ Backlog(Tail(q), [f EXCEPT ![Head(q)] = FALSE])
<1>1. f \in [Stage -> BOOLEAN] /\ q \in Seq(Stage)
  BY Zenon DEF Backlog
<1>2. /\ Head(q) = q[1] /\ Head(q) \in Stage /\ Tail(q) \in Seq(Stage)
      /\ Len(q) \in Nat /\ Len(q) > 0 /\ Len(Tail(q)) = Len(q) - 1
      /\ \A k \in 1..Len(Tail(q)) : Tail(q)[k] = q[k + 1]
  BY <1>1
<1>3. \A j, k \in 1..Len(q) : q[j] = q[k] => j = k
  BY Zenon DEF Backlog
<1>4. \A x \in Stage : ([f EXCEPT ![Head(q)] = FALSE][x] = TRUE) <=>
                      (\E k \in 1..Len(Tail(q)) : Tail(q)[k] = x)
  <2> SUFFICES ASSUME NEW x \in Stage
               PROVE ([f EXCEPT ![Head(q)] = FALSE][x] = TRUE) <=>
                        (\E k \in 1..Len(Tail(q)) : Tail(q)[k] = x)
    BY Zenon
  <2>1. (f[x] = TRUE) <=> (\E k \in 1..Len(q) : q[k] = x)
    BY Zenon DEF Backlog
  <2>2. CASE x = Head(q)
    <3>1. \A k \in 1..Len(Tail(q)) : Tail(q)[k] # x
      BY <2>2, <1>2, <1>3
    <3> QED
      BY <3>1, <2>2, <1>1, Zenon
  <2>3. CASE x # Head(q)
    <3>1. (\E k \in 1..Len(Tail(q)) : Tail(q)[k] = x) => (\E k \in 1..Len(q) : q[k] = x)
      BY <1>2
    <3>2. ASSUME NEW k \in 1..Len(q), q[k] = x
          PROVE  \E j \in 1..Len(Tail(q)) : Tail(q)[j] = x
      <4>1. k - 1 \in 1..Len(Tail(q))
        BY <3>2, <2>3, <1>2
      <4>2. Tail(q)[k - 1] = x
        BY <4>1, <3>2, <1>2
      <4> QED
        BY <4>1, <4>2, Zenon
    <3>3. [f EXCEPT ![Head(q)] = FALSE][x] = f[x]
      BY <2>3, <1>1, Zenon
    <3> QED
      BY <3>1, <3>2, <3>3, <2>1, Zenon
  <2> QED
    BY <2>2, <2>3, Zenon
<1>5. \A j, k \in 1..Len(Tail(q)) : Tail(q)[j] = Tail(q)[k] => j = k
  BY <1>2, <1>3
<1> QED
  BY <1>1, <1>2, <1>4, <1>5, Zenon DEF Backlog

(* ...and the newest off a stack. *)
LEMMA PopLastKeeps ==
  ASSUME NEW q, NEW f, Backlog(q, f), q # <<>>
  PROVE  /\ q[Len(q)] \in Stage
         /\ Backlog(SubSeq(q, 1, Len(q) - 1), [f EXCEPT ![q[Len(q)]] = FALSE])
<1> DEFINE front == SubSeq(q, 1, Len(q) - 1)
           last == q[Len(q)]
<1>1. f \in [Stage -> BOOLEAN] /\ q \in Seq(Stage)
  BY Zenon DEF Backlog
<1>2. /\ last \in Stage /\ front \in Seq(Stage)
      /\ Len(q) \in Nat /\ Len(q) > 0 /\ Len(front) = Len(q) - 1
      /\ \A k \in 1..Len(front) : front[k] = q[k]
  <2>1. Len(q) \in Nat /\ Len(q) > 0 /\ Len(q) \in 1..Len(q)
    BY <1>1
  <2>2. last \in Stage
    BY <1>1, <2>1
  <2>3. \A k \in 1..(Len(q) - 1) : q[k] \in Stage
    BY <1>1, <2>1
  <2>4. /\ front \in Seq(Stage)
        /\ Len(front) = IF 1 <= Len(q) - 1 THEN Len(q) - 1 - 1 + 1 ELSE 0
        /\ \A k \in 1..(Len(q) - 1 - 1 + 1) : front[k] = q[1 + k - 1]
    <3>1. 1 \in Int /\ Len(q) - 1 \in Int
      BY <2>1
    <3> QED
      BY <2>3, <3>1, SubSeqProperties
  <2> HIDE DEF front, last
  <2>5. Len(front) = Len(q) - 1
    <3>1. Len(front) = IF 1 <= Len(q) - 1 THEN Len(q) - 1 - 1 + 1 ELSE 0
      BY <2>4, Zenon
    <3> DEFINE n == Len(q)
               m == Len(front)
    <3>2. n \in Nat /\ n > 0
      BY <2>1, Zenon
    <3>3. m = IF 1 <= n - 1 THEN n - 1 - 1 + 1 ELSE 0
      BY <3>1, Zenon
    <3> HIDE DEF n, m
    <3>4. m = n - 1
      BY <3>2, <3>3
    <3> QED
      BY <3>4, Zenon DEF n, m
  <2>6. ASSUME NEW k \in 1..Len(front) PROVE front[k] = q[k]
    <3>1. k \in 1..(Len(q) - 1 - 1 + 1) /\ 1 + k - 1 = k
      BY <2>1, <2>5
    <3> QED
      BY <2>4, <3>1, Zenon
  <2> QED
    BY <2>1, <2>2, <2>4, <2>5, <2>6, Zenon
<1>3. \A j, k \in 1..Len(q) : q[j] = q[k] => j = k
  BY Zenon DEF Backlog
<1>4. \A x \in Stage : ([f EXCEPT ![last] = FALSE][x] = TRUE) <=>
                      (\E k \in 1..Len(front) : front[k] = x)
  <2> SUFFICES ASSUME NEW x \in Stage
               PROVE ([f EXCEPT ![last] = FALSE][x] = TRUE) <=>
                        (\E k \in 1..Len(front) : front[k] = x)
    BY Zenon
  <2>1. (f[x] = TRUE) <=> (\E k \in 1..Len(q) : q[k] = x)
    BY Zenon DEF Backlog
  <2> HIDE DEF front
  <2>2. CASE x = last
    <3>1. \A k \in 1..Len(front) : front[k] # x
      BY <2>2, <1>2, <1>3
    <3> QED
      BY <3>1, <2>2, <1>1, Zenon
  <2>3. CASE x # last
    <3>1. (\E k \in 1..Len(front) : front[k] = x) <=> (\E k \in 1..Len(q) : q[k] = x)
      BY <1>2, <2>3
    <3>2. [f EXCEPT ![last] = FALSE][x] = f[x]
      BY <2>3, <1>1, Zenon
    <3> QED
      BY <3>1, <3>2, <2>1, Zenon
  <2> QED
    BY <2>2, <2>3, Zenon
<1> HIDE DEF front
<1>5. \A j, k \in 1..Len(front) : front[j] = front[k] => j = k
  BY <1>2, <1>3
<1>6. Backlog(front, [f EXCEPT ![last] = FALSE])
  BY <1>1, <1>2, <1>4, <1>5, Zenon DEF Backlog
<1> QED
  BY <1>2, <1>6, Zenon DEF front

(* The stages a backlog's flags name stay due through the rest of an update. *)
LEMMA FlaggedMembers ==
  ASSUME NEW f \in [Stage -> BOOLEAN], NEW s \in Stage \cup {None}, NEW x \in Stage
  PROVE  (Flagged(f, s)[x] = TRUE) <=> (f[x] = TRUE \/ x = s)
BY GraphAssumption, Zenon DEF Flagged

(* A backlog is empty exactly when no stage's flag is set. *)
LEMMA EmptyBacklog ==
  ASSUME NEW q, NEW f, Backlog(q, f)
  PROVE  q = <<>> <=> \A s \in Stage : f[s] = FALSE
<1>1. f \in [Stage -> BOOLEAN] /\ q \in Seq(Stage)
  BY Zenon DEF Backlog
<1>2. ASSUME q = <<>> PROVE \A s \in Stage : f[s] = FALSE
  <2>1. Len(q) = 0
    BY <1>2, Zenon
  <2>2. \A k : k \notin 1..Len(q)
    BY <2>1
  <2>3. \A s \in Stage : f[s] # TRUE
    BY <2>2, Zenon DEF Backlog
  <2> QED
    BY <2>3, <1>1, Zenon
<1>3. ASSUME q # <<>> PROVE \E s \in Stage : f[s] # FALSE
  <2>1. 1 \in 1..Len(q) /\ q[1] \in Stage
    BY <1>1, <1>3
  <2>2. f[q[1]] = TRUE
    BY <2>1, Zenon DEF Backlog
  <2> QED
    BY <2>1, <2>2, Zenon
<1> QED
  BY <1>2, <1>3, Zenon

(* What the end of an update does to the schedule: "supplied" and "wanted"   *)
(* are the flags with the update's own pushes made.                          *)
Proceeded(supplied, wanted) ==
  /\ Backlog(supplyBacklog, inSupplyBacklog)' /\ Backlog(demandBacklog, inDemandBacklog)'
  /\ \A x \in Stage : supplied[x] = TRUE => inSupplyBacklog'[x] = TRUE \/ current' = x
  /\ \A x \in Stage : wanted[x] = TRUE => inDemandBacklog'[x] = TRUE \/ current' = x
  /\ (\E x \in Stage : supplied[x] = TRUE) =>
        \A x \in Stage : wanted[x] = TRUE => inDemandBacklog'[x] = TRUE
  /\ \/ current' \in Stage /\ owner' = owner /\ pc' = pc
     \/ /\ current' = None /\ owner' = None /\ pc' = [pc EXCEPT ![owner] = None]
        /\ \A x \in Stage : /\ inSupplyBacklog'[x] = FALSE /\ inDemandBacklog'[x] = FALSE
                            /\ supplied[x] = FALSE /\ wanted[x] = FALSE

(* Taking the next stage off the backlogs, or letting go of the lock,
   leaves backlogs and flags in step. *)
LEMMA ProceedKeeps ==
  ASSUME NEW q, NEW supplied, Backlog(q, supplied), NEW d, NEW wanted, Backlog(d, wanted),
         Proceed(q, supplied, d, wanted)
  PROVE  Proceeded(supplied, wanted)
<1>1. supplied \in [Stage -> BOOLEAN] /\ wanted \in [Stage -> BOOLEAN]
  BY Zenon DEF Backlog
<1>2. CASE q # <<>>
  <2>1. /\ current' = Head(q) /\ supplyBacklog' = Tail(q)
        /\ inSupplyBacklog' = [supplied EXCEPT ![Head(q)] = FALSE]
        /\ demandBacklog' = d /\ inDemandBacklog' = wanted
        /\ owner' = owner /\ pc' = pc
    BY <1>2, Zenon DEF Proceed
  <2>2. Head(q) \in Stage /\ Backlog(Tail(q), [supplied EXCEPT ![Head(q)] = FALSE])
    BY <1>2, PopFirstKeeps, Zenon
  <2>3. Backlog(supplyBacklog, inSupplyBacklog)'
    BY <2>1, <2>2, Zenon DEF Backlog
  <2>4. Backlog(demandBacklog, inDemandBacklog)'
    BY <2>1, Zenon DEF Backlog
  <2>5. \A x \in Stage : supplied[x] = TRUE => inSupplyBacklog'[x] = TRUE \/ current' = x
    BY <2>1, <1>1, Zenon
  <2> QED
    BY <2>1, <2>2, <2>3, <2>4, <2>5, Zenon DEF Proceeded
<1>3. CASE q = <<>> /\ d # <<>>
  <2>1. /\ current' = d[Len(d)] /\ demandBacklog' = SubSeq(d, 1, Len(d) - 1)
        /\ inDemandBacklog' = [wanted EXCEPT ![d[Len(d)]] = FALSE]
        /\ supplyBacklog' = q /\ inSupplyBacklog' = supplied
        /\ owner' = owner /\ pc' = pc
    BY <1>3, Zenon DEF Proceed
  <2>2. /\ d[Len(d)] \in Stage
        /\ Backlog(SubSeq(d, 1, Len(d) - 1), [wanted EXCEPT ![d[Len(d)]] = FALSE])
    BY <1>3, PopLastKeeps, Zenon
  <2>3. Backlog(supplyBacklog, inSupplyBacklog)'
    BY <2>1, Zenon DEF Backlog
  <2>4. Backlog(demandBacklog, inDemandBacklog)'
    BY <2>1, <2>2, Zenon DEF Backlog
  <2>5. \A x \in Stage : wanted[x] = TRUE => inDemandBacklog'[x] = TRUE \/ current' = x
    BY <2>1, <1>1, Zenon
  <2>6. \A x \in Stage : supplied[x] = FALSE
    BY <1>3, EmptyBacklog, Zenon
  <2> QED
    BY <2>1, <2>2, <2>3, <2>4, <2>5, <2>6, Zenon DEF Proceeded
<1>4. CASE q = <<>> /\ d = <<>>
  <2>1. /\ current' = None /\ owner' = None /\ pc' = [pc EXCEPT ![owner] = None]
        /\ supplyBacklog' = q /\ inSupplyBacklog' = supplied
        /\ demandBacklog' = d /\ inDemandBacklog' = wanted
    BY <1>4, Zenon DEF Proceed
  <2>2. Backlog(supplyBacklog, inSupplyBacklog)' /\ Backlog(demandBacklog, inDemandBacklog)'
    BY <2>1, Zenon DEF Backlog
  <2>3. \A x \in Stage : supplied[x] = FALSE /\ wanted[x] = FALSE
    BY <1>4, EmptyBacklog, Zenon
  <2> QED
    BY <2>1, <2>2, <2>3, Zenon DEF Proceeded
<1> QED
  BY <1>2, <1>3, <1>4, Zenon

(* EndUpdate, with its own pushes spelled out. *)
Scheduling(s, given, signalled) ==
  /\ Backlog(supplyBacklog, inSupplyBacklog)' /\ Backlog(demandBacklog, inDemandBacklog)'
  /\ \A x \in Stage : inSupplyBacklog[x] = TRUE \/ x = given =>
        inSupplyBacklog'[x] = TRUE \/ current' = x
  /\ \A x \in Stage : inDemandBacklog[x] = TRUE \/ x = signalled \/ (given # None /\ x = s) =>
        inDemandBacklog'[x] = TRUE \/ current' = x
  /\ (given # None \/ \E x \in Stage : inSupplyBacklog[x] = TRUE) =>
        \A x \in Stage : inDemandBacklog[x] = TRUE \/ (given # None /\ x = s) =>
           inDemandBacklog'[x] = TRUE
  /\ \/ current' \in Stage /\ owner' = owner /\ pc' = pc
     \/ /\ current' = None /\ owner' = None /\ pc' = [pc EXCEPT ![owner] = None]
        /\ \A x \in Stage : inSupplyBacklog'[x] = FALSE /\ inDemandBacklog'[x] = FALSE

(* Ending a stage's update does what Scheduling says to the backlogs. *)
LEMMA EndUpdateKeeps ==
  ASSUME Backlog(supplyBacklog, inSupplyBacklog), Backlog(demandBacklog, inDemandBacklog),
         NEW s \in Stage, NEW given \in Stage \cup {None}, NEW signalled \in Stage \cup {None},
         EndUpdate(s, given, signalled)
  PROVE  Scheduling(s, given, signalled)
<1> DEFINE again == Reconsidered(s, given)
           q == Push(supplyBacklog, inSupplyBacklog, given)
           supplied == Flagged(inSupplyBacklog, given)
           d1 == Push(demandBacklog, inDemandBacklog, signalled)
           w1 == Flagged(inDemandBacklog, signalled)
           d == Push(d1, w1, again)
           wanted == Flagged(w1, again)
<1>1. again \in Stage \cup {None} /\ (again = IF given = None THEN None ELSE s)
  BY Zenon DEF Reconsidered
<1>2. Backlog(q, supplied)
  BY PushKeeps, Zenon
<1>3. Backlog(d1, w1)
  BY PushKeeps, Zenon
<1> HIDE DEF again, d1, w1
<1>4. Backlog(d, wanted)
  BY <1>1, <1>3, PushKeeps, Zenon
<1>5. Proceed(q, supplied, d, wanted)
  BY Zenon DEF EndUpdate, again, d1, w1
<1> HIDE DEF q, d, supplied, wanted
<1>6. Proceeded(supplied, wanted)
  BY <1>2, <1>4, <1>5, ProceedKeeps, Zenon
<1>7. inSupplyBacklog \in [Stage -> BOOLEAN] /\ inDemandBacklog \in [Stage -> BOOLEAN]
  BY Zenon DEF Backlog
<1>8. w1 \in [Stage -> BOOLEAN]
  BY <1>3, Zenon DEF Backlog
<1>9. \A x \in Stage : (supplied[x] = TRUE) <=> (inSupplyBacklog[x] = TRUE \/ x = given)
  BY <1>7, FlaggedMembers, Zenon DEF supplied
<1>10. \A x \in Stage : (wanted[x] = TRUE) <=>
         (inDemandBacklog[x] = TRUE \/ x = signalled \/ x = again)
  <2>1. \A x \in Stage : (w1[x] = TRUE) <=> (inDemandBacklog[x] = TRUE \/ x = signalled)
    BY <1>7, FlaggedMembers, Zenon DEF w1
  <2>2. \A x \in Stage : (wanted[x] = TRUE) <=> (w1[x] = TRUE \/ x = again)
    BY <1>1, <1>8, FlaggedMembers, Zenon DEF wanted
  <2> QED
    BY <2>1, <2>2, Zenon
<1> QED
  BY <1>1, <1>6, <1>9, <1>10, Zenon DEF Proceeded, Scheduling

-----------------------------------------------------------------------------
(* What the update of stage s leaves alone, and how it leaves its own links: *)
(* an output's demand is not touched and its packet slot at most filled; an  *)
(* input ends up without a packet or without demand.                         *)
LocalUpdate(s, given, signalled) ==
  /\ \A l \in Link : Downstream[l] # s =>
       /\ demand'[l] = demand[l]
       /\ packet'[l] = packet[l] \/ (Upstream[l] = s /\ packet[l] = None /\ given = Downstream[l])
  /\ \A i \in Link : Downstream[i] = s =>
       /\ packet'[i] = None \/ demand'[i] = "negative"
       /\ packet'[i] = None \/ packet'[i] = packet[i]
       /\ demand'[i] # demand[i] => signalled = Upstream[i]
  /\ \A x \in Stage : x # s =>
       packets'[x] = packets[x] /\ cached'[x] = cached[x] /\ sinkDemand'[x] = sinkDemand[x]

(* The update of a stage that ends settled keeps every link and every stage  *)
(* with work left due.                                                       *)
LEMMA UpdateKeepsDue ==
  ASSUME Inv, NEW s \in Stage, current = s, NEW given, NEW signalled,
         Scheduling(s, given, signalled), LocalUpdate(s, given, signalled), Settled(s)',
         given = None \/ given \in Stage
  PROVE  FullLinksDue' /\ UnsettledDue'
<1> USE GraphAssumption
<1>1. /\ FullLinksDue /\ UnsettledDue /\ LockOK /\ TypeOK
  BY Zenon DEF Inv, SafeInv
<1>2. ASSUME NEW l \in Link, packet'[l] # None, demand'[l] # "negative"
      PROVE  /\ inSupplyBacklog'[Downstream[l]] = TRUE \/ current' = Downstream[l]
             /\ inDemandBacklog'[Upstream[l]] = TRUE
  <2>1. Downstream[l] # s /\ Downstream[l] \in Stage /\ Upstream[l] \in Stage
    BY <1>2, Zenon DEF LocalUpdate
  <2>2. demand'[l] = demand[l]
    BY <2>1, Zenon DEF LocalUpdate
  <2>3. CASE packet'[l] = packet[l]
    <3>1. inSupplyBacklog[Downstream[l]] = TRUE /\ inDemandBacklog[Upstream[l]] = TRUE
      BY <1>1, <1>2, <2>1, <2>2, <2>3, Zenon DEF FullLinksDue
    <3> QED
      BY <2>1, <3>1, Zenon DEF Scheduling
  <2>4. CASE Upstream[l] = s /\ given = Downstream[l]
    BY <2>1, <2>4, Zenon DEF Scheduling
  <2> QED
    BY <2>1, <2>3, <2>4, Zenon DEF LocalUpdate
<1>3. FullLinksDue'
  BY <1>2, Zenon DEF FullLinksDue
<1>4. ASSUME NEW l \in Link, Upstream[l] # s
      PROVE  OutputDemand(l)' = OutputDemand(l) \/ Scheduled(Upstream[l])'
  <2>1. Downstream[l] \in Stage /\ Upstream[l] \in Stage
    BY Zenon
  <2>2. CASE Downstream[l] # s
    <3>1. packet'[l] = packet[l] /\ demand'[l] = demand[l]
      BY <1>4, <2>2, Zenon DEF LocalUpdate
    <3> QED
      BY <3>1, Zenon DEF OutputDemand
  <2>3. CASE Downstream[l] = s /\ demand'[l] # demand[l]
    <3>1. signalled = Upstream[l]
      BY <2>3, Zenon DEF LocalUpdate
    <3> QED
      BY <2>1, <3>1, Zenon DEF Scheduling, Scheduled
  <2>4. CASE Downstream[l] = s /\ demand'[l] = demand[l]
    <3>1. packet'[l] = packet[l] \/ (packet'[l] = None /\ packet[l] # None)
      BY <2>4, Zenon DEF LocalUpdate
    <3>2. CASE packet'[l] = packet[l]
      BY <2>4, <3>2, Zenon DEF OutputDemand
    <3>3. CASE packet'[l] = None /\ packet[l] # None
      <4>1. CASE demand[l] = "negative"
        BY <2>4, <3>3, <4>1, Zenon DEF OutputDemand
      <4>2. CASE demand[l] # "negative"
        <5>1. inDemandBacklog[Upstream[l]] = TRUE
          BY <1>1, <3>3, <4>2, Zenon DEF FullLinksDue
        <5> QED
          BY <2>1, <5>1, Zenon DEF Scheduling, Scheduled
      <4> QED
        BY <4>1, <4>2, Zenon
    <3> QED
      BY <3>1, <3>2, <3>3, Zenon
  <2> QED
    BY <2>2, <2>3, <2>4, Zenon
<1>5. ASSUME NEW i \in Link, Downstream[i] # s
      PROVE  \/ packet'[i] = packet[i] /\ demand'[i] = demand[i]
             \/ Scheduled(Downstream[i])'
  <2>1. demand'[i] = demand[i]
    BY <1>5, Zenon DEF LocalUpdate
  <2>2. CASE packet'[i] # packet[i]
    <3>1. given = Downstream[i] /\ Downstream[i] \in Stage
      BY <1>5, <2>2, Zenon DEF LocalUpdate
    <3> QED
      BY <3>1, Zenon DEF Scheduling, Scheduled
  <2> QED
    BY <2>1, <2>2, Zenon
<1>6. ASSUME NEW x \in Stage, x # s, Scheduled(x)
      PROVE  Scheduled(x)'
  <2>1. CASE inSupplyBacklog[x] = TRUE \/ inDemandBacklog[x] = TRUE
    BY <2>1, Zenon DEF Scheduling, Scheduled
  <2>2. CASE Waiting(x)
    <3>1. PICK t \in Thread : pc[t] = x /\ t # owner
      BY <2>2, Zenon DEF Waiting
    <3>2. pc \in [Thread -> Stage \cup {None}]
      BY <1>1, Zenon DEF TypeOK
    <3>3. pc'[t] = x /\ t # owner'
      BY <3>1, <3>2 DEF Scheduling
    <3> QED
      BY <3>3, Zenon DEF Scheduled, Waiting
  <2> QED
    BY <1>6, <2>1, <2>2, Zenon DEF Scheduled
<1>7. ASSUME NEW x \in Stage, x # s, Settled(x)
      PROVE  Settled(x)' \/ Scheduled(x)'
  <2> SUFFICES ASSUME ~Scheduled(x)'
               PROVE  Settled(x)'
    BY Zenon
  <2>1. \A l \in Outputs(x) : OutputDemand(l)' = OutputDemand(l)
    BY <1>4, <1>7, Zenon DEF Outputs
  <2>2. \A i \in Link : Downstream[i] = x =>
           packet'[i] = packet[i] /\ demand'[i] = demand[i]
    BY <1>5, <1>7, Zenon
  <2>3. packets'[x] = packets[x] /\ cached'[x] = cached[x] /\ sinkDemand'[x] = sinkDemand[x]
    BY <1>7, Zenon DEF LocalUpdate
  <2>4. cached[x] # None => cached[x].link \in Outputs(x)
    BY <1>1 DEF LockOK, TypeOK, Outputs
  <2>5. Outputs(x)' = Outputs(x)
    BY Zenon DEF Outputs
  <2>6. \A o \in Link : Upstream[o] = x => o \in Outputs(x)
    BY Zenon DEF Outputs
  <2>7. CASE Kind[x] = "ActiveSource"
    BY <1>7, <2>1, <2>3, <2>5, <2>7, Zenon DEF Settled
  <2>8. CASE Kind[x] = "ActiveMultistreamSource"
    BY <1>7, <2>1, <2>3, <2>4, <2>8, Zenon DEF Settled
  <2>9. CASE Kind[x] = "Transform"
    BY <1>7, <2>1, <2>2, <2>6, <2>9 DEF Settled
  <2>10. CASE Kind[x] = "ActiveSink"
    BY <1>7, <2>2, <2>3, <2>10, Zenon DEF Settled
  <2> QED
    BY <2>7, <2>8, <2>9, <2>10, Zenon DEF StageKind
<1>8. UnsettledDue'
  BY <1>1, <1>6, <1>7, Zenon DEF UnsettledDue
<1> QED
  BY <1>3, <1>8, Zenon

-----------------------------------------------------------------------------
(* What a transform may answer, and whether outputs may drop: with these two *)
(* an update always leaves its stage settled.                                *)
Productive == <<FALSE, FALSE>> \notin Results
NothingDropped == CopyLinks = {}

-----------------------------------------------------------------------------
(* The variables of the work list keep their types and the lock its meaning  *)
(* through the end of an update.                                             *)
ScheduleTypes ==
  /\ supplyBacklog \in Seq(Stage) /\ demandBacklog \in Seq(Stage)
  /\ inSupplyBacklog \in [Stage -> BOOLEAN] /\ inDemandBacklog \in [Stage -> BOOLEAN]
  /\ owner \in Thread \cup {None} /\ current \in Stage \cup {None}
  /\ pc \in [Thread -> Stage \cup {None}]

(* Ending an update keeps the types of the scheduling variables. *)
LEMMA SchedulingTypes ==
  ASSUME TypeOK, NEW s, NEW given, NEW signalled, Scheduling(s, given, signalled)
  PROVE  ScheduleTypes'
<1>1. supplyBacklog' \in Seq(Stage) /\ inSupplyBacklog' \in [Stage -> BOOLEAN]
  BY Zenon DEF Scheduling, Backlog
<1>2. demandBacklog' \in Seq(Stage) /\ inDemandBacklog' \in [Stage -> BOOLEAN]
  BY Zenon DEF Scheduling, Backlog
<1>3. pc \in [Thread -> Stage \cup {None}] /\ owner \in Thread \cup {None}
  BY Zenon DEF TypeOK
<1>4. /\ owner' \in Thread \cup {None} /\ current' \in Stage \cup {None}
      /\ pc' \in [Thread -> Stage \cup {None}]
  BY <1>3, Zenon DEF Scheduling
<1> QED
  BY <1>1, <1>2, <1>4, Zenon DEF ScheduleTypes

(* Ending an update keeps what holds of the thread that has the lock. *)
LEMMA SchedulingLock ==
  ASSUME SafeInv, NEW s \in Stage, current = s, NEW given, NEW signalled,
         Scheduling(s, given, signalled),
         returned' = None \/ (returned' = returned /\ s \notin Sinks),
         prepared' = prepared,
         \A x \in Stage : cached'[x] = cached[x] \/ cached'[x] = None
  PROVE  LockOK'
<1> USE GraphAssumption
<1>1. LockOK /\ TypeOK
  BY Zenon DEF SafeInv
<1>2. owner # None /\ prepared' # FALSE /\ pc[owner] # None
  BY <1>1, Zenon DEF LockOK
<1>3. returned' = None
  BY <1>1, Zenon DEF LockOK
<1>4. /\ owner' = None => /\ current' = None
                          /\ \A x \in Stage : inSupplyBacklog'[x] = FALSE /\ inDemandBacklog'[x] = FALSE
      /\ owner' # None => current' # None /\ pc'[owner'] # None
  BY <1>2, Zenon DEF Scheduling
<1>5. \A x \in Stage : cached'[x] # None => Upstream[cached'[x].link] = x
  BY <1>1, Zenon DEF LockOK
<1> QED
  BY <1>2, <1>3, <1>4, <1>5, Zenon DEF LockOK

(* What the update of stage s shows of itself. *)
Updated(s) ==
  \E given, signalled \in Stage \cup {None} :
    Scheduling(s, given, signalled) /\ LocalUpdate(s, given, signalled)

(* The end of an update keeps the safe part of the invariant. *)
LEMMA UpdateSafe ==
  ASSUME SafeInv, NEW s \in Stage, current = s,
         NEW given \in Stage \cup {None}, NEW signalled \in Stage \cup {None},
         EndUpdate(s, given, signalled),
         returned' = None \/ (returned' = returned /\ s \notin Sinks),
         prepared' = prepared,
         \A x \in Stage : cached'[x] = cached[x] \/ cached'[x] = None,
         ScheduleTypes' => TypeOK'
  PROVE  SafeInv' /\ Scheduling(s, given, signalled)
<1>1. Scheduling(s, given, signalled)
  BY EndUpdateKeeps, Zenon DEF SafeInv
<1>2. TypeOK'
  BY <1>1, SchedulingTypes, Zenon DEF SafeInv
<1>3. LockOK'
  BY <1>1, SchedulingLock, Zenon
<1>4. Backlog(supplyBacklog, inSupplyBacklog)' /\ Backlog(demandBacklog, inDemandBacklog)'
  BY <1>1, Zenon DEF Scheduling
<1> QED
  BY <1>1, <1>2, <1>3, <1>4, Zenon DEF SafeInv

(* An update that touches only the stage and its links is an Updated step. *)
LEMMA UpdateKeeps ==
  ASSUME SafeInv, NEW s \in Stage, current = s,
         NEW given \in Stage \cup {None}, NEW signalled \in Stage \cup {None},
         EndUpdate(s, given, signalled), LocalUpdate(s, given, signalled),
         returned' = None \/ (returned' = returned /\ s \notin Sinks),
         prepared' = prepared,
         \A x \in Stage : cached'[x] = cached[x] \/ cached'[x] = None,
         ScheduleTypes' => TypeOK'
  PROVE  SafeInv' /\ Updated(s)
<1>1. SafeInv' /\ Scheduling(s, given, signalled)
  BY UpdateSafe, Zenon
<1> QED
  BY <1>1, Zenon DEF Updated

-----------------------------------------------------------------------------
(* The update of each kind of stage. *)

(* ActiveSourceStage::Update leaves the stage settled. *)
LEMMA ActiveSourceUpdate ==
  ASSUME SafeInv, NEW s \in Stage, UpdateActiveSource(s)
  PROVE  SafeInv' /\ Updated(s) /\ (NothingDropped => Settled(s)')
<1> USE GraphAssumption
<1>1. /\ current = s /\ Kind[s] = "ActiveSource" /\ s \notin Sinks
      /\ TypeOK
      /\ UNCHANGED <<demand, cached, returned, prepared, sinkDemand>>
  BY Zenon DEF UpdateActiveSource, SafeInv, Sinks, sinkVars, flushVars
<1>2. PICK l \in Outputs(s) :
       IF OutputDemand(l) # "negative" /\ packets[s] # <<>>
       THEN /\ packets' = [packets EXCEPT ![s] = Tail(@)]
            /\ \E starved \in Starves(l) :
                 /\ packet' = IF starved THEN packet
                              ELSE [packet EXCEPT ![l] = Head(packets[s])]
                 /\ EndUpdate(s, IF starved THEN None ELSE Downstream[l], None)
       ELSE /\ UNCHANGED <<packets, packet>>
            /\ EndUpdate(s, None, None)
  BY Zenon DEF UpdateActiveSource
<1>3. l \in Link /\ Upstream[l] = s /\ \A k \in Outputs(s) : k = l
  BY <1>1, ForestAssumption, Zenon DEF Outputs
<1>4. \A k \in Link : Downstream[k] # s
  BY <1>1, ForestAssumption, Zenon DEF Sources
<1>5. packets' \in [Stage -> Seq(PacketNumber)] /\ packet' \in [Link -> PacketNumber \cup {None}]
        => (ScheduleTypes' => TypeOK')
  BY <1>1, Zenon DEF UpdateActiveSource, TypeOK, ScheduleTypes, transformVars, sinkVars, flushVars
<1>6. /\ packet \in [Link -> PacketNumber \cup {None}]
      /\ packets \in [Stage -> Seq(PacketNumber)]
  BY <1>1, Zenon DEF TypeOK
<1>7. packets[s] # <<>> => /\ Head(packets[s]) \in PacketNumber
                           /\ Tail(packets[s]) \in Seq(PacketNumber)
  BY <1>6
<1>8. Head(packets[s]) \in PacketNumber => Head(packets[s]) # None
  BY Zenon DEF PacketNumber
<1>9. Downstream[l] \in Stage /\ Outputs(s)' = Outputs(s)
  BY <1>3, Zenon DEF Outputs
<1>10. CASE ~(OutputDemand(l) # "negative" /\ packets[s] # <<>>)
  <2>1. UNCHANGED <<packets, packet>> /\ EndUpdate(s, None, None)
    BY <1>2, <1>10, Zenon
  <2>2. LocalUpdate(s, None, None)
    BY <1>1, <1>4, <2>1, Zenon DEF LocalUpdate
  <2>3. ScheduleTypes' => TypeOK'
    BY <1>5, <1>6, <2>1, Zenon
  <2>4. SafeInv' /\ Updated(s)
    BY <1>1, <2>1, <2>2, <2>3, UpdateKeeps, Zenon
  <2>5. Settled(s)'
    BY <1>1, <1>3, <1>9, <1>10, <2>1, Zenon DEF Settled, OutputDemand
  <2> QED
    BY <2>4, <2>5, Zenon
<1>11. CASE OutputDemand(l) # "negative" /\ packets[s] # <<>>
  <2>1. packets' = [packets EXCEPT ![s] = Tail(packets[s])]
    BY <1>2, <1>11, Zenon
  <2>2. PICK starved \in Starves(l) :
                 /\ packet' = IF starved THEN packet
                              ELSE [packet EXCEPT ![l] = Head(packets[s])]
                 /\ EndUpdate(s, IF starved THEN None ELSE Downstream[l], None)
    BY <1>2, <1>11, Zenon
  <2>3. packet[l] = None
    BY <1>11, Zenon DEF OutputDemand
  <2>4. packets' \in [Stage -> Seq(PacketNumber)]
    BY <1>6, <1>7, <1>11, <2>1, Zenon
  <2>5. \A x \in Stage : x # s => packets'[x] = packets[x]
    BY <1>6, <2>1, Zenon
  <2>6. CASE starved = TRUE
    <3>1. packet' = packet /\ EndUpdate(s, None, None)
      BY <2>2, <2>6, Zenon
    <3>2. LocalUpdate(s, None, None)
      BY <1>1, <1>4, <2>5, <3>1, Zenon DEF LocalUpdate
    <3>3. ScheduleTypes' => TypeOK'
      BY <1>5, <1>6, <2>4, <3>1, Zenon
    <3>4. SafeInv' /\ Updated(s)
      BY <1>1, <3>1, <3>2, <3>3, UpdateKeeps, Zenon
    <3>5. ~NothingDropped
      BY <1>3, <2>2, <2>6, Zenon DEF Starves, NothingDropped
    <3> QED
      BY <3>4, <3>5, Zenon
  <2>7. CASE starved = FALSE
    <3>1. packet' = [packet EXCEPT ![l] = Head(packets[s])] /\ EndUpdate(s, Downstream[l], None)
      BY <2>2, <2>7, Zenon
    <3>2. \A k \in Link : packet'[k] = packet[k] \/ k = l
      BY <1>3, <1>6, <3>1, Zenon
    <3>3. LocalUpdate(s, Downstream[l], None)
      BY <1>1, <1>3, <1>4, <2>3, <2>5, <3>2, Zenon DEF LocalUpdate
    <3>4. packet' \in [Link -> PacketNumber \cup {None}]
      BY <1>6, <1>7, <1>11, <3>1, Zenon
    <3>5. ScheduleTypes' => TypeOK'
      BY <1>5, <2>4, <3>4, Zenon
    <3>6. SafeInv' /\ Updated(s)
      BY <1>1, <1>9, <3>1, <3>3, <3>5, UpdateKeeps, Zenon
    <3>7. packet'[l] # None
      BY <1>3, <1>6, <1>7, <1>8, <1>11, <3>1, Zenon
    <3>8. Settled(s)'
      BY <1>1, <1>3, <1>9, <3>7, Zenon DEF Settled, OutputDemand
    <3> QED
      BY <3>6, <3>8, Zenon
  <2>8. starved \in BOOLEAN
    BY Zenon DEF Starves
  <2> QED
    BY <2>6, <2>7, <2>8, Zenon
<1> QED
  BY <1>10, <1>11, Zenon

(* ActiveMultistreamSourceStage::Update leaves the stage settled. *)
LEMMA MultistreamUpdate ==
  ASSUME SafeInv, NEW s \in Stage, UpdateActiveMultistreamSource(s)
  PROVE  SafeInv' /\ Updated(s) /\ (NothingDropped => Settled(s)')
<1> USE GraphAssumption
<1> DEFINE c == cached[s]
           pass == c # None /\ OutputDemand(c.link) # "negative"
<1>1. /\ current = s /\ Kind[s] = "ActiveMultistreamSource" /\ s \notin Sinks
      /\ TypeOK /\ LockOK
      /\ UNCHANGED <<demand, packets, returned, prepared, sinkDemand>>
  BY Zenon DEF UpdateActiveMultistreamSource, SafeInv, Sinks, sinkVars, flushVars
<1>2. PICK starved \in (IF pass THEN Starves(c.link) ELSE {FALSE}) :
          LET supplied == pass /\ ~starved
              cachedAfter == IF pass THEN None ELSE c
              packetAfter == IF supplied THEN [packet EXCEPT ![c.link] = c.number]
                             ELSE packet
              asks == Asks(s, cachedAfter, packetAfter)
          IN /\ cached' = [cached EXCEPT ![s] = cachedAfter]
             /\ packet' = packetAfter
             /\ outstanding' = [outstanding EXCEPT ![s] = @ \/ asks]
             /\ asked' = [asked EXCEPT ![s] = @ \/ asks]
             /\ EndUpdate(s, IF supplied THEN Downstream[c.link] ELSE None, None)
  BY Zenon DEF UpdateActiveMultistreamSource
<1>3. starved \in BOOLEAN
  BY Zenon DEF Starves
<1>4. /\ cached \in [Stage -> [link : Link, number : PacketNumber] \cup {None}]
      /\ outstanding \in [Stage -> BOOLEAN] /\ asked \in [Stage -> BOOLEAN]
      /\ packet \in [Link -> PacketNumber \cup {None}]
  BY <1>1, Zenon DEF TypeOK
<1>5. outstanding' \in [Stage -> BOOLEAN] /\ asked' \in [Stage -> BOOLEAN]
  BY <1>2, <1>4, Zenon
<1>6. c # None => c.link \in Link /\ c.number \in PacketNumber /\ Upstream[c.link] = s
  BY <1>1, <1>4, Zenon DEF LockOK
<1>7. \A k \in Link : Downstream[k] # s
  BY <1>1, ForestAssumption, Zenon DEF Sources
<1>8. (/\ cached' \in [Stage -> [link : Link, number : PacketNumber] \cup {None}]
       /\ packet' \in [Link -> PacketNumber \cup {None}])
        => (ScheduleTypes' => TypeOK')
  BY <1>1, <1>5, Zenon
  DEF UpdateActiveMultistreamSource, TypeOK, ScheduleTypes, transformVars, sinkVars, flushVars
<1>9. CASE ~pass
  <2>1. /\ cached' = [cached EXCEPT ![s] = c] /\ packet' = packet /\ EndUpdate(s, None, None)
    BY <1>2, <1>9, Zenon
  <2>2. cached' = cached
    BY <1>4, <2>1, Zenon
  <2>3. LocalUpdate(s, None, None)
    BY <1>1, <1>7, <2>1, <2>2, Zenon DEF LocalUpdate
  <2>4. ScheduleTypes' => TypeOK'
    BY <1>4, <1>8, <2>1, <2>2, Zenon
  <2>5. SafeInv' /\ Updated(s)
    BY <1>1, <2>1, <2>2, <2>3, <2>4, UpdateKeeps, Zenon
  <2>6. Settled(s)'
    BY <1>1, <1>9, <2>1, <2>2, Zenon DEF Settled, OutputDemand
  <2> QED
    BY <2>5, <2>6, Zenon
<1>10. CASE pass
  <2>1. /\ cached' = [cached EXCEPT ![s] = None]
        /\ packet' = IF ~starved THEN [packet EXCEPT ![c.link] = c.number] ELSE packet
        /\ EndUpdate(s, IF ~starved THEN Downstream[c.link] ELSE None, None)
        /\ starved \in Starves(c.link)
    BY <1>2, <1>10, Zenon
  <2>2. packet[c.link] = None /\ c # None
    BY <1>10, Zenon DEF OutputDemand
  <2>3. /\ cached' \in [Stage -> [link : Link, number : PacketNumber] \cup {None}]
        /\ cached'[s] = None /\ \A x \in Stage : x # s => cached'[x] = cached[x]
    BY <1>4, <2>1, Zenon
  <2>4. \A x \in Stage : cached'[x] = cached[x] \/ cached'[x] = None
    BY <2>3, Zenon
  <2>5. Settled(s)'
    BY <1>1, <2>3, Zenon DEF Settled
  <2>6. CASE starved = TRUE
    <3>1. packet' = packet /\ EndUpdate(s, None, None)
      BY <2>1, <2>6, Zenon
    <3>2. LocalUpdate(s, None, None)
      BY <1>1, <1>7, <2>3, <3>1, Zenon DEF LocalUpdate
    <3>3. ScheduleTypes' => TypeOK'
      BY <1>4, <1>8, <2>3, <3>1, Zenon
    <3>4. SafeInv' /\ Updated(s)
      BY <1>1, <2>4, <3>1, <3>2, <3>3, UpdateKeeps, Zenon
    <3> QED
      BY <2>5, <3>4, Zenon
  <2>7. CASE starved = FALSE
    <3>1. packet' = [packet EXCEPT ![c.link] = c.number] /\ EndUpdate(s, Downstream[c.link], None)
      BY <2>1, <2>7, Zenon
    <3>2. \A k \in Link : packet'[k] = packet[k] \/ k = c.link
      BY <1>4, <1>6, <2>2, <3>1, Zenon
    <3>3. LocalUpdate(s, Downstream[c.link], None)
      BY <1>1, <1>6, <1>7, <2>2, <2>3, <3>2, Zenon DEF LocalUpdate
    <3>4. packet' \in [Link -> PacketNumber \cup {None}]
      BY <1>4, <1>6, <2>2, <3>1, Zenon
    <3>5. ScheduleTypes' => TypeOK'
      BY <1>8, <2>3, <3>4, Zenon
    <3>6. Downstream[c.link] \in Stage
      BY <1>6, <2>2, Zenon
    <3>7. SafeInv' /\ Updated(s)
      BY <1>1, <2>4, <3>1, <3>3, <3>5, <3>6, UpdateKeeps, Zenon
    <3> QED
      BY <2>5, <3>7, Zenon
  <2> QED
    BY <1>3, <2>6, <2>7, Zenon
<1> QED
  BY <1>9, <1>10, Zenon

(* TransformStage::Update leaves the stage settled when the transform is
   productive. *)
LEMMA TransformUpdate ==
  ASSUME SafeInv, NEW s \in Stage, UpdateTransform(s)
  PROVE  SafeInv' /\ (Productive => Updated(s) /\ Settled(s)')
<1> USE GraphAssumption
<1>1. /\ current = s /\ Kind[s] = "Transform" /\ s \notin Sinks
      /\ TypeOK
      /\ UNCHANGED <<packets, cached, returned, prepared, sinkDemand>>
  BY Zenon DEF UpdateTransform, SafeInv, Sinks, sinkVars, flushVars, sourceVars
<1>2. PICK i, o \in Link :
       /\ Downstream[i] = s /\ Upstream[o] = s
       /\ IF packet[i] # None /\ OutputDemand(o) # "negative"
          THEN TransformPacket(s, i, o)
          ELSE /\ demand' = [demand EXCEPT ![i] = OutputDemand(o)]
               /\ EndUpdate(s, None, Signalled(i, OutputDemand(o)))
               /\ UNCHANGED <<packet, isNew, pieces>>
  BY Zenon DEF UpdateTransform
<1>3. /\ \A k \in Link : Downstream[k] = s => k = i
      /\ \A k \in Link : Upstream[k] = s => k = o
      /\ i # o
  <2>1. \A k \in Link : Downstream[k] = s => k = i
    BY <1>2, ForestAssumption, Zenon
  <2>2. \A k \in Link : Upstream[k] = s => k = o
    BY <1>1, <1>2, ForestAssumption, Zenon
  <2>3. Upstream[i] # s
    BY <1>2, ForestAssumption
  <2> QED
    BY <1>2, <2>1, <2>2, <2>3, Zenon
<1>4. /\ demand \in [Link -> Demand] /\ packet \in [Link -> PacketNumber \cup {None}]
      /\ isNew \in [Stage -> BOOLEAN] /\ pieces \in [Stage -> Nat]
  BY <1>1, Zenon DEF TypeOK
<1>5. OutputDemand(o) \in Demand /\ (packet[o] = None => OutputDemand(o) = demand[o])
  BY <1>2, <1>4, Zenon DEF OutputDemand, Demand
<1>6. (/\ demand' \in [Link -> Demand] /\ packet' \in [Link -> PacketNumber \cup {None}]
       /\ isNew' \in [Stage -> BOOLEAN] /\ pieces' \in [Stage -> Nat])
        => (ScheduleTypes' => TypeOK')
  <2>1. UNCHANGED <<sourceVars, sinkVars, flushVars>>
    BY Zenon DEF UpdateTransform
  <2>2. /\ UNCHANGED <<packets, cached, outstanding, asked, pulling, made>>
        /\ UNCHANGED <<sinkDemand, returned, want, accepted>>
        /\ UNCHANGED <<prepared, flushedTo, flushes>>
    BY <2>1, Zenon DEF sourceVars, sinkVars, flushVars
  <2> QED
    BY <1>1, <2>2, Zenon DEF TypeOK, ScheduleTypes
<1>7. \A d \in Demand : /\ Signalled(i, d) \in Stage \cup {None}
                        /\ d # demand[i] => Signalled(i, d) = Upstream[i]
  BY <1>2, Zenon DEF Signalled
<1>8. "negative" \in Demand
  BY Zenon DEF Demand
<1>9. CASE ~(packet[i] # None /\ OutputDemand(o) # "negative")
  <2> DEFINE d == OutputDemand(o)
             signalled == Signalled(i, d)
  <2>1. /\ demand' = [demand EXCEPT ![i] = d] /\ EndUpdate(s, None, signalled)
        /\ UNCHANGED <<packet, isNew, pieces>>
    BY <1>2, <1>9, Zenon
  <2>2. /\ demand' \in [Link -> Demand] /\ demand'[i] = d
        /\ \A k \in Link : k # i => demand'[k] = demand[k]
    BY <1>2, <1>4, <1>5, <2>1, Zenon
  <2>3. signalled \in Stage \cup {None} /\ (demand'[i] # demand[i] => signalled = Upstream[i])
    BY <1>5, <1>7, <2>2, Zenon
  <2>4. packet'[i] = None \/ demand'[i] = "negative"
    BY <1>9, <2>1, <2>2, Zenon
  <2>5. OutputDemand(o)' = d
    BY <1>2, <1>3, <2>1, <2>2, Zenon DEF OutputDemand
  <2> HIDE DEF d, signalled
  <2>6. LocalUpdate(s, None, signalled)
    BY <1>1, <1>2, <1>3, <2>1, <2>2, <2>3, <2>4, Zenon DEF LocalUpdate
  <2>7. ScheduleTypes' => TypeOK'
    BY <1>4, <1>6, <2>1, <2>2, Zenon
  <2>8. SafeInv' /\ Updated(s)
    BY <1>1, <2>1, <2>3, <2>6, <2>7, UpdateKeeps, Zenon
  <2>9. Settled(s)'
    BY <1>1, <1>3, <2>2, <2>4, <2>5, Zenon DEF Settled
  <2> QED
    BY <2>8, <2>9, Zenon
<1>10. CASE packet[i] # None /\ OutputDemand(o) # "negative"
  <2>1. PICK r \in Results :
    LET done == r[1]
        produced == r[2]
        taken == IF done THEN [packet EXCEPT ![i] = None] ELSE packet
        demandAfter == IF produced THEN "negative" ELSE OutputDemand(o)
    IN /\ done \/ pieces[s] < MaxPieces
       /\ packet' = IF produced THEN [taken EXCEPT ![o] = packet[i]] ELSE taken
       /\ demand' = [demand EXCEPT ![i] = demandAfter]
       /\ isNew' = [isNew EXCEPT ![s] = done]
       /\ pieces' = [pieces EXCEPT ![s] = IF done THEN 0 ELSE @ + 1]
       /\ EndUpdate(s, IF produced THEN Downstream[o] ELSE None, Signalled(i, demandAfter))
    BY <1>2, <1>10, Zenon DEF TransformPacket
  <2>2. r[1] \in BOOLEAN /\ r[2] \in BOOLEAN /\ r = <<r[1], r[2]>>
    OBVIOUS
  <2> DEFINE d == IF r[2] THEN "negative" ELSE OutputDemand(o)
             given == IF r[2] THEN Downstream[o] ELSE None
             signalled == Signalled(i, d)
  <2>3. demand' = [demand EXCEPT ![i] = d] /\ EndUpdate(s, given, signalled)
    BY <2>1, Zenon
  <2>4. d \in Demand /\ given \in Stage \cup {None}
    BY <1>2, <1>5, <1>8, Zenon
  <2>5. /\ r[2] = TRUE => d = "negative" /\ given = Downstream[o]
        /\ r[2] = FALSE => d = OutputDemand(o) /\ given = None
    BY Zenon
  <2>6. signalled \in Stage \cup {None} /\ (d # demand[i] => signalled = Upstream[i])
    BY <1>7, <2>4, Zenon
  <2> HIDE DEF d, given, signalled
  <2>7. /\ demand' \in [Link -> Demand] /\ demand'[i] = d
        /\ \A k \in Link : k # i => demand'[k] = demand[k]
    BY <1>2, <1>4, <2>3, <2>4, Zenon
  <2>8. isNew' \in [Stage -> BOOLEAN]
    BY <1>4, <2>1, <2>2, Zenon
  <2>9. pieces' \in [Stage -> Nat]
    BY <1>4, <2>1, <2>2
  <2>10. /\ packet' \in [Link -> PacketNumber \cup {None}]
         /\ \A k \in Link : k # i /\ k # o => packet'[k] = packet[k]
         /\ r[1] = TRUE => packet'[i] = None
         /\ r[1] = FALSE => packet'[i] = packet[i]
         /\ r[2] = TRUE => packet'[o] = packet[i]
         /\ r[2] = FALSE => packet'[o] = packet[o]
    <3> DEFINE taken == IF r[1] THEN [packet EXCEPT ![i] = None] ELSE packet
    <3>1. packet' = IF r[2] THEN [taken EXCEPT ![o] = packet[i]] ELSE taken
      BY <2>1, Zenon
    <3>2. /\ taken \in [Link -> PacketNumber \cup {None}]
          /\ \A k \in Link : k # i => taken[k] = packet[k]
          /\ r[1] = TRUE => taken[i] = None
          /\ r[1] = FALSE => taken[i] = packet[i]
      BY <1>2, <1>4, <2>2, Zenon
    <3> HIDE DEF taken
    <3> QED
      BY <1>2, <1>3, <1>4, <2>2, <3>1, <3>2, Zenon
  <2>11. ScheduleTypes' => TypeOK'
    BY <1>6, <2>7, <2>8, <2>9, <2>10, Zenon
  <2>12. SafeInv' /\ Scheduling(s, given, signalled)
    BY <1>1, <2>3, <2>4, <2>6, <2>11, UpdateSafe, Zenon
  <2>13. packet[o] = None
    BY <1>10, Zenon DEF OutputDemand
  <2>14. ASSUME Productive
         PROVE  r[1] = TRUE \/ r[2] = TRUE
    BY <2>2, <2>14, Zenon DEF Productive
  <2>15. ASSUME Productive
         PROVE  packet'[i] = None \/ demand'[i] = "negative"
    BY <2>5, <2>7, <2>10, <2>14, <2>15, Zenon
  <2>16. ASSUME Productive
         PROVE  LocalUpdate(s, given, signalled)
    <3>1. \A l \in Link : Downstream[l] # s =>
            /\ demand'[l] = demand[l]
            /\ packet'[l] = packet[l] \/ (Upstream[l] = s /\ packet[l] = None /\ given = Downstream[l])
      BY <1>2, <1>3, <2>2, <2>5, <2>7, <2>10, <2>13, Zenon
    <3>2. /\ packet'[i] = None \/ packet'[i] = packet[i]
          /\ demand'[i] # demand[i] => signalled = Upstream[i]
      BY <2>2, <2>6, <2>7, <2>10, Zenon
    <3> QED
      BY <1>1, <1>3, <2>15, <2>16, <3>1, <3>2, Zenon DEF LocalUpdate
  <2>17. demand'[i] = OutputDemand(o)'
    <3>1. CASE r[2] = TRUE
      BY <1>10, <2>5, <2>7, <2>10, <3>1, Zenon DEF OutputDemand
    <3>2. CASE r[2] = FALSE
      BY <1>3, <1>5, <2>5, <2>7, <2>10, <2>13, <3>2, Zenon DEF OutputDemand
    <3> QED
      BY <2>2, <3>1, <3>2, Zenon
  <2>18. ASSUME Productive
         PROVE  Settled(s)'
    BY <1>1, <1>3, <2>15, <2>17, <2>18, Zenon DEF Settled
  <2>19. ASSUME Productive
         PROVE  Updated(s)
    BY <2>4, <2>6, <2>12, <2>16, <2>19, Zenon DEF Updated
  <2> QED
    BY <2>12, <2>18, <2>19, Zenon
<1> QED
  BY <1>9, <1>10, Zenon

(* Between taking the packet and signalling its demand the sink's stage is   *)
(* still the current one; the stage above it is in the demand backlog.       *)
LEMMA SinkTakesKeeps ==
  ASSUME SafeInv, NEW s \in Stage, SinkTakes(s)
  PROVE  SafeInv' /\ (Inv => Inv')
<1> USE GraphAssumption
<1>1. /\ current = s /\ Kind[s] = "ActiveSink" /\ s \in Sinks
      /\ UNCHANGED <<demand, backlogVars, owner, current, pc, sourceVars, transformVars,
                     sinkDemand, flushVars>>
  BY Zenon DEF SinkTakes, Sinks
<1>2. PICK i \in Link, d \in Demand :
       /\ Downstream[i] = s /\ packet[i] # None
       /\ packet' = [packet EXCEPT ![i] = None]
       /\ accepted' = [accepted EXCEPT ![s] = packet[i]]
       /\ returned' = d /\ want' = [want EXCEPT ![s] = d]
  BY Zenon DEF SinkTakes
<1>3. /\ TypeOK /\ LockOK
      /\ UNCHANGED <<demand, supplyBacklog, demandBacklog, inSupplyBacklog, inDemandBacklog>>
      /\ UNCHANGED <<owner, current, pc, packets, cached, outstanding, asked, pulling, made>>
      /\ UNCHANGED <<isNew, pieces, sinkDemand, prepared, flushedTo, flushes>>
  BY <1>1, Zenon DEF SafeInv, backlogVars, sourceVars, transformVars, flushVars
<1>4. \A k \in Link : Downstream[k] = s => k = i
  BY <1>2, ForestAssumption, Zenon
<1>5. /\ packet \in [Link -> PacketNumber \cup {None}]
      /\ accepted \in [Stage -> PacketNumber] /\ want \in [Stage -> Demand]
  BY <1>3, Zenon DEF TypeOK
<1>6. /\ packet' \in [Link -> PacketNumber \cup {None}]
      /\ accepted' \in [Stage -> PacketNumber] /\ want' \in [Stage -> Demand]
      /\ returned' \in Demand
  BY <1>2, <1>5, Zenon
<1>7. /\ packet'[i] = None
      /\ \A k \in Link : k # i => packet'[k] = packet[k]
  BY <1>2, <1>5, Zenon
<1>8. TypeOK'
  BY <1>3, <1>6, Zenon DEF TypeOK
<1>9. LockOK'
  BY <1>1, <1>3, <1>4, <1>7, Zenon DEF LockOK
<1>10. SafeInv'
  BY <1>3, <1>8, <1>9, Zenon DEF SafeInv, Backlog
<1>11. ASSUME Inv
       PROVE  FullLinksDue' /\ UnsettledDue'
  <2>1. FullLinksDue /\ UnsettledDue
    BY <1>11, Zenon DEF Inv
  <2>2. FullLinksDue'
    BY <1>3, <1>7, <2>1, Zenon DEF FullLinksDue
  <2>3. \A x \in Stage : Scheduled(x) => Scheduled(x)'
    BY <1>3, Zenon DEF Scheduled, Waiting
  <2>4. \A k \in Link : OutputDemand(k)' = OutputDemand(k) \/ Scheduled(Upstream[k])'
    <3> SUFFICES ASSUME NEW k \in Link, OutputDemand(k)' # OutputDemand(k)
                 PROVE  Scheduled(Upstream[k])'
      BY Zenon
    <3>1. k = i /\ demand[k] # "negative" /\ packet[k] # None
      BY <1>2, <1>3, <1>7, Zenon DEF OutputDemand
    <3>2. inDemandBacklog[Upstream[k]] = TRUE
      BY <2>1, <3>1, Zenon DEF FullLinksDue
    <3> QED
      BY <1>3, <3>2, Zenon DEF Scheduled
  <2>5. ASSUME NEW x \in Stage, x # s, Settled(x), ~Scheduled(x)'
        PROVE  Settled(x)'
    <3>1. \A k \in Outputs(x) : OutputDemand(k)' = OutputDemand(k)
      BY <2>4, <2>5, Zenon DEF Outputs
    <3>2. \A k \in Link : Downstream[k] = x =>
             packet'[k] = packet[k] /\ demand'[k] = demand[k]
      BY <1>2, <1>3, <1>7, <2>5, Zenon
    <3>3. packets'[x] = packets[x] /\ cached'[x] = cached[x] /\ sinkDemand'[x] = sinkDemand[x]
      BY <1>3, Zenon
    <3>4. cached[x] # None => cached[x].link \in Outputs(x)
      BY <1>3 DEF LockOK, TypeOK, Outputs
    <3>5. Outputs(x)' = Outputs(x)
      BY Zenon DEF Outputs
    <3>6. \A o \in Link : Upstream[o] = x => o \in Outputs(x)
      BY Zenon DEF Outputs
    <3>7. CASE Kind[x] = "ActiveSource"
      BY <2>5, <3>1, <3>3, <3>5, <3>7, Zenon DEF Settled
    <3>8. CASE Kind[x] = "ActiveMultistreamSource"
      BY <2>5, <3>1, <3>3, <3>4, <3>8, Zenon DEF Settled
    <3>9. CASE Kind[x] = "Transform"
      BY <2>5, <3>1, <3>2, <3>6, <3>9 DEF Settled
    <3>10. CASE Kind[x] = "ActiveSink"
      BY <2>5, <3>2, <3>3, <3>10, Zenon DEF Settled
    <3> QED
      BY <3>7, <3>8, <3>9, <3>10, Zenon DEF StageKind
  <2>6. Scheduled(s)'
    BY <1>1, <1>3, Zenon DEF Scheduled
  <2> QED
    BY <2>1, <2>2, <2>3, <2>5, <2>6, Zenon DEF UnsettledDue
<1> QED
  BY <1>10, <1>11, Zenon DEF Inv

(* The second half of ActiveSinkStage::Update leaves the stage settled. *)
LEMMA SinkSignalsKeeps ==
  ASSUME SafeInv, NEW s \in Stage, SinkSignals(s)
  PROVE  SafeInv' /\ Updated(s) /\ Settled(s)'
<1> USE GraphAssumption
<1>1. /\ current = s /\ Kind[s] = "ActiveSink" /\ returned' = None
      /\ UNCHANGED <<packet, sourceVars, transformVars, want, accepted, flushVars>>
  BY Zenon DEF SinkSignals
<1> DEFINE d == IF returned = None THEN sinkDemand[s] ELSE returned
<1>2. PICK i \in Link :
       /\ Downstream[i] = s /\ packet[i] = None
       /\ sinkDemand' = [sinkDemand EXCEPT ![s] = d]
       /\ demand' = [demand EXCEPT ![i] = d]
       /\ EndUpdate(s, None, Signalled(i, d))
  BY Zenon DEF SinkSignals
<1> DEFINE signalled == Signalled(i, d)
<1>3. /\ TypeOK
      /\ UNCHANGED <<packet, packets, cached, outstanding, asked, pulling, made>>
      /\ UNCHANGED <<isNew, pieces, want, accepted, prepared, flushedTo, flushes>>
  BY <1>1, Zenon DEF SafeInv, sourceVars, transformVars, flushVars
<1>4. \A k \in Link : Downstream[k] = s => k = i
  BY <1>2, ForestAssumption, Zenon
<1>5. demand \in [Link -> Demand] /\ sinkDemand \in [Stage -> Demand] /\ returned \in Demand \cup {None}
  BY <1>3, Zenon DEF TypeOK
<1>6. d \in Demand
  BY <1>5, Zenon
<1>7. signalled \in Stage \cup {None} /\ (d # demand[i] => signalled = Upstream[i])
  BY <1>2, Zenon DEF Signalled
<1> HIDE DEF d
<1>8. /\ demand' \in [Link -> Demand] /\ sinkDemand' \in [Stage -> Demand]
      /\ demand'[i] = d /\ sinkDemand'[s] = d
      /\ \A k \in Link : k # i => demand'[k] = demand[k]
      /\ \A x \in Stage : x # s => sinkDemand'[x] = sinkDemand[x]
  BY <1>2, <1>5, <1>6, Zenon
<1> HIDE DEF signalled
<1>9. LocalUpdate(s, None, signalled)
  BY <1>2, <1>3, <1>4, <1>7, <1>8, Zenon DEF LocalUpdate
<1>10. ScheduleTypes' => TypeOK'
  BY <1>1, <1>3, <1>8, Zenon DEF TypeOK, ScheduleTypes
<1>11. EndUpdate(s, None, signalled)
  BY <1>2, Zenon DEF signalled
<1>12. SafeInv' /\ Updated(s)
  BY <1>1, <1>3, <1>7, <1>9, <1>10, <1>11, UpdateKeeps, Zenon
<1>13. Settled(s)'
  BY <1>1, <1>2, <1>3, <1>4, <1>8, Zenon DEF Settled
<1> QED
  BY <1>12, <1>13, Zenon

-----------------------------------------------------------------------------
(* The steps that are not updates. *)

(* With the lock free, no link both holds a packet and has demand. *)
LEMMA NoFullLinkAtRest ==
  ASSUME Inv, owner = None
  PROVE  \A l \in Link : packet[l] = None \/ demand[l] = "negative"
<1>1. /\ current = None /\ FullLinksDue
      /\ \A s \in Stage : inSupplyBacklog[s] = FALSE /\ inDemandBacklog[s] = FALSE
  BY Zenon DEF Inv, SafeInv, LockOK
<1> QED
  BY <1>1, GraphAssumption DEF FullLinksDue

(* A thread that takes the lock keeps the invariant. *)
LEMMA EnterKeeps ==
  ASSUME SafeInv, NEW t \in Thread, Enter(t)
  PROVE  SafeInv' /\ (Inv => Inv')
<1> USE GraphAssumption
<1>1. /\ owner = None /\ pc[t] # None /\ owner' = t /\ current' = pc[t]
      /\ UNCHANGED <<demand, packet, supplyBacklog, demandBacklog, inSupplyBacklog, inDemandBacklog>>
      /\ UNCHANGED <<pc, packets, cached, outstanding, asked, pulling, made>>
      /\ UNCHANGED <<isNew, pieces, sinkDemand, returned, want, accepted, prepared, flushedTo, flushes>>
  BY Zenon DEF Enter, linkVars, backlogVars, sourceVars, transformVars, sinkVars, flushVars
<1>2. TypeOK /\ LockOK
  BY Zenon DEF SafeInv
<1>3. TypeOK'
  BY <1>1, <1>2, Zenon DEF TypeOK
<1>4. returned = None
  BY <1>1, <1>2, Zenon DEF LockOK, Sinks
<1>5. LockOK'
  BY <1>1, <1>2, <1>4, Zenon DEF LockOK
<1>6. SafeInv'
  BY <1>1, <1>3, <1>5, Zenon DEF SafeInv, Backlog
<1>7. ASSUME Inv
      PROVE  FullLinksDue' /\ UnsettledDue'
  <2>1. FullLinksDue'
    BY <1>1, <1>7, NoFullLinkAtRest, Zenon DEF FullLinksDue
  <2>2. \A x \in Stage : Settled(x)' <=> Settled(x)
    BY <1>1 DEF Settled, OutputDemand, Outputs
  <2>3. ASSUME NEW x \in Stage, Scheduled(x)
        PROVE  Scheduled(x)'
    <3>1. Waiting(x)
      BY <1>1, <1>2, <2>3, Zenon DEF Scheduled, LockOK
    <3>2. PICK u \in Thread : pc[u] = x
      BY <3>1, Zenon DEF Waiting
    <3> QED
      BY <1>1, <3>2, Zenon DEF Scheduled, Waiting
  <2> QED
    BY <1>7, <2>1, <2>2, <2>3, Zenon DEF Inv, UnsettledDue
<1> QED
  BY <1>6, <1>7, Zenon DEF Inv

(* A callback of a hosted part either leaves the calls that wait alone or    *)
(* adds one, from a thread that is not in the engine.                        *)
Calls(t, s) == pc' = pc \/ (pc[t] = None /\ pc' = [pc EXCEPT ![t] = s])

(* A part's callback into the engine schedules its stage and unschedules
   none. *)
LEMMA CallbackKeeps ==
  ASSUME SafeInv, NEW s \in Stage, NEW t \in Thread, Calls(t, s),
         UNCHANGED <<owner, current, supplyBacklog, demandBacklog, inSupplyBacklog, inDemandBacklog>>
  PROVE  /\ pc' \in [Thread -> Stage \cup {None}]
         /\ owner' # None => pc'[owner'] # None
         /\ \A x \in Stage : Scheduled(x) => Scheduled(x)'
         /\ pc' # pc => Scheduled(s)'
<1> USE GraphAssumption
<1>1. pc \in [Thread -> Stage \cup {None}] /\ owner \in Thread \cup {None}
  BY Zenon DEF SafeInv, TypeOK
<1>2. owner # None => pc[owner] # None
  BY Zenon DEF SafeInv, LockOK
<1>3. CASE pc' = pc
  BY <1>1, <1>2, <1>3, Zenon DEF Scheduled, Waiting
<1>4. CASE pc[t] = None /\ pc' = [pc EXCEPT ![t] = s]
  <2>1. pc' \in [Thread -> Stage \cup {None}] /\ pc'[t] = s /\ t # owner
    BY <1>1, <1>2, <1>4, Zenon
  <2>2. \A u \in Thread : u # t => pc'[u] = pc[u]
    BY <1>1, <1>4, Zenon
  <2>3. \A x \in Stage : Waiting(x) => Waiting(x)'
    BY <1>4, <2>2, Zenon DEF Waiting
  <2>4. Waiting(s)'
    BY <2>1, Zenon DEF Waiting
  <2> QED
    BY <1>1, <1>2, <2>1, <2>2, <2>3, <2>4, Zenon DEF Scheduled
<1> QED
  BY <1>3, <1>4, Zenon DEF Calls

(* A packet from an active source keeps the invariant. *)
LEMMA ActiveSourceSupplyKeeps ==
  ASSUME SafeInv, NEW s \in Stage, SupplyFromActiveSource(s)
  PROVE  SafeInv' /\ (Inv => Inv')
<1> USE GraphAssumption
<1> DEFINE t == ThreadOf[s]
<1>1. /\ Kind[s] = "ActiveSource" /\ pc[t] = None /\ t \in Thread
      /\ made' = [made EXCEPT ![s] = @ + 1]
      /\ packets' = [packets EXCEPT ![s] = Append(@, made[s] + 1)]
      /\ IF WakesOnSupply(s) THEN pc' = [pc EXCEPT ![t] = s] ELSE pc' = pc
  BY Zenon DEF SupplyFromActiveSource, Requested
<1>2. /\ UNCHANGED <<demand, packet, supplyBacklog, demandBacklog, inSupplyBacklog, inDemandBacklog>>
      /\ UNCHANGED <<owner, current, cached, outstanding, asked, pulling>>
      /\ UNCHANGED <<isNew, pieces, sinkDemand, returned, want, accepted, prepared, flushedTo, flushes>>
  BY Zenon DEF SupplyFromActiveSource, linkVars, backlogVars, sourceVars, transformVars, sinkVars, flushVars
<1> HIDE DEF t
<1>3. Calls(t, s)
  BY <1>1, Zenon DEF Calls
<1>4. /\ pc' \in [Thread -> Stage \cup {None}]
      /\ owner' # None => pc'[owner'] # None
      /\ \A x \in Stage : Scheduled(x) => Scheduled(x)'
      /\ pc' # pc => Scheduled(s)'
  BY <1>1, <1>2, <1>3, CallbackKeeps, Zenon
<1>5. TypeOK /\ LockOK
  BY Zenon DEF SafeInv
<1>6. made \in [Stage -> PacketNumber] /\ packets \in [Stage -> Seq(PacketNumber)]
  BY <1>5, Zenon DEF TypeOK
<1>7. /\ made' \in [Stage -> PacketNumber] /\ packets' \in [Stage -> Seq(PacketNumber)]
      /\ \A x \in Stage : x # s => packets'[x] = packets[x]
  <2>1. made[s] + 1 \in PacketNumber
    BY <1>6 DEF PacketNumber
  <2>2. Append(packets[s], made[s] + 1) \in Seq(PacketNumber)
    BY <1>6, <2>1
  <2> QED
    BY <1>1, <1>6, <2>1, <2>2, Zenon
<1>8. TypeOK'
  BY <1>2, <1>4, <1>5, <1>7, Zenon DEF TypeOK
<1>9. prepared = FALSE => pc' = pc
  BY <1>1, Zenon DEF WakesOnSupply
<1>10. LockOK'
  BY <1>2, <1>4, <1>5, <1>9, Zenon DEF LockOK
<1>11. SafeInv'
  BY <1>2, <1>8, <1>10, Zenon DEF SafeInv, Backlog
<1>12. ASSUME Inv
       PROVE  FullLinksDue' /\ UnsettledDue'
  <2>1. FullLinksDue /\ UnsettledDue
    BY <1>12, Zenon DEF Inv
  <2>2. FullLinksDue'
    BY <1>2, <2>1, Zenon DEF FullLinksDue
  <2>3. \A x \in Stage : x # s => (Settled(x)' <=> Settled(x))
    BY <1>2, <1>7 DEF Settled, OutputDemand, Outputs
  <2>4. pc' = pc => packets[s] # <<>> \/ prepared # TRUE \/ Scheduled(s)
    <3>1. CASE ~WakesOnSupply(s)
      BY <3>1, Zenon DEF WakesOnSupply
    <3>2. CASE WakesOnSupply(s) /\ pc' = pc
      <4>1. pc[t] = s
        BY <1>1, <1>4, <1>5, <3>2 DEF TypeOK
      <4> QED
        BY <1>1, <4>1, Zenon
    <3> QED
      BY <3>1, <3>2, Zenon
  <2>5. CASE pc' # pc
    BY <1>4, <2>1, <2>2, <2>3, <2>5, Zenon DEF UnsettledDue
  <2>6. CASE pc' = pc /\ packets[s] # <<>>
    <3>1. Settled(s) => Settled(s)'
      BY <1>1, <1>2, <2>6, Zenon DEF Settled, OutputDemand, Outputs
    <3> QED
      BY <1>4, <2>1, <2>2, <2>3, <3>1, Zenon DEF UnsettledDue
  <2>7. CASE prepared # TRUE
    <3>1. prepared = FALSE
      BY <1>5, <2>7, Zenon DEF TypeOK
    <3>2. \A l \in Link : demand'[l] = "negative"
      BY <1>2, <1>5, <3>1, Zenon DEF LockOK
    <3>3. Settled(s)'
      BY <1>1, <3>2, Zenon DEF Settled, OutputDemand, Outputs
    <3> QED
      BY <1>4, <2>1, <2>2, <2>3, <3>3, Zenon DEF UnsettledDue
  <2>8. CASE Scheduled(s)
    BY <1>4, <2>1, <2>2, <2>3, <2>8, Zenon DEF UnsettledDue
  <2> QED
    BY <2>4, <2>5, <2>6, <2>7, <2>8, Zenon
<1> QED
  BY <1>11, <1>12, Zenon DEF Inv

(* A packet from the demux keeps the invariant. *)
LEMMA MultistreamSupplyKeeps ==
  ASSUME SafeInv, NEW s \in Stage, SupplyFromMultistream(s)
  PROVE  SafeInv' /\ (Inv => Inv')
<1> USE GraphAssumption
<1> DEFINE t == ThreadOf[s]
<1>1. /\ Kind[s] = "ActiveMultistreamSource" /\ pc[t] = None /\ t \in Thread /\ pulling[s]
      /\ pulling' = [pulling EXCEPT ![s] = FALSE]
      /\ outstanding' = [outstanding EXCEPT ![s] = FALSE]
  BY Zenon DEF SupplyFromMultistream
<1>2. PICK l \in Outputs(s) :
          /\ cached' = [cached EXCEPT ![s] = [link |-> l, number |-> made[s]]]
          /\ IF OutputDemand(l) # "negative" THEN pc' = [pc EXCEPT ![t] = s] ELSE pc' = pc
  BY Zenon DEF SupplyFromMultistream, Requested
<1>3. /\ UNCHANGED <<demand, packet, supplyBacklog, demandBacklog, inSupplyBacklog, inDemandBacklog>>
      /\ UNCHANGED <<owner, current, packets, asked, made>>
      /\ UNCHANGED <<isNew, pieces, sinkDemand, returned, want, accepted, prepared, flushedTo, flushes>>
  BY Zenon DEF SupplyFromMultistream, linkVars, backlogVars, sourceVars, transformVars, sinkVars, flushVars
<1> HIDE DEF t
<1>4. Calls(t, s)
  BY <1>1, <1>2, Zenon DEF Calls
<1>5. /\ pc' \in [Thread -> Stage \cup {None}]
      /\ owner' # None => pc'[owner'] # None
      /\ \A x \in Stage : Scheduled(x) => Scheduled(x)'
      /\ pc' # pc => Scheduled(s)'
  BY <1>1, <1>3, <1>4, CallbackKeeps, Zenon
<1>6. TypeOK /\ LockOK
  BY Zenon DEF SafeInv
<1>7. /\ cached \in [Stage -> [link : Link, number : PacketNumber] \cup {None}]
      /\ outstanding \in [Stage -> BOOLEAN] /\ pulling \in [Stage -> BOOLEAN]
      /\ made \in [Stage -> PacketNumber]
      /\ l \in Link /\ Upstream[l] = s
  BY <1>6, Zenon DEF TypeOK, Outputs
<1>8. outstanding' \in [Stage -> BOOLEAN] /\ pulling' \in [Stage -> BOOLEAN]
  BY <1>1, <1>7, Zenon
<1> DEFINE c == [link |-> l, number |-> made[s]]
<1>9. c \in [link : Link, number : PacketNumber] /\ c.link = l
  BY <1>7, Zenon
<1> HIDE DEF c
<1>10. /\ cached' \in [Stage -> [link : Link, number : PacketNumber] \cup {None}]
       /\ cached'[s] = c
       /\ \A x \in Stage : x # s => cached'[x] = cached[x]
  <2>1. cached' = [cached EXCEPT ![s] = c]
    BY <1>2, Zenon DEF c
  <2> QED
    BY <1>7, <1>9, <2>1, Zenon
<1>11. TypeOK'
  BY <1>3, <1>5, <1>6, <1>8, <1>10, Zenon DEF TypeOK
<1>12. prepared # FALSE
  BY <1>1, <1>6, Zenon DEF LockOK
<1>13. \A x \in Stage : cached'[x] # None => Upstream[cached'[x].link] = x
  BY <1>6, <1>7, <1>9, <1>10, Zenon DEF LockOK
<1>14. LockOK'
  BY <1>3, <1>5, <1>6, <1>12, <1>13, Zenon DEF LockOK
<1>15. SafeInv'
  BY <1>3, <1>11, <1>14, Zenon DEF SafeInv, Backlog
<1>16. ASSUME Inv
       PROVE  FullLinksDue' /\ UnsettledDue'
  <2>1. FullLinksDue /\ UnsettledDue
    BY <1>16, Zenon DEF Inv
  <2>2. FullLinksDue'
    BY <1>3, <2>1, Zenon DEF FullLinksDue
  <2>3. \A x \in Stage : x # s => (Settled(x)' <=> Settled(x))
    BY <1>3, <1>10 DEF Settled, OutputDemand, Outputs
  <2>4. CASE OutputDemand(l) = "negative"
    <3>1. Settled(s)'
      BY <1>1, <1>3, <1>9, <1>10, <2>4, Zenon DEF Settled, OutputDemand
    <3> QED
      BY <1>5, <2>1, <2>2, <2>3, <3>1, Zenon DEF UnsettledDue
  <2>5. CASE OutputDemand(l) # "negative"
    <3>1. pc' = [pc EXCEPT ![t] = s] /\ pc \in [Thread -> Stage \cup {None}]
      BY <1>2, <1>6, <2>5, Zenon DEF TypeOK
    <3>2. pc'[t] # pc[t]
      BY <1>1, <3>1, Zenon
    <3> QED
      BY <1>5, <2>1, <2>2, <2>3, <3>2, Zenon DEF UnsettledDue
  <2> QED
    BY <2>4, <2>5, Zenon
<1> QED
  BY <1>15, <1>16, Zenon DEF Inv

(* A demand from a sink keeps the invariant. *)
LEMMA SinkDemandKeeps ==
  ASSUME SafeInv, NEW s \in Stage, NEW d \in Demand, DemandFromSink(s, d)
  PROVE  SafeInv' /\ (Inv => Inv')
<1> USE GraphAssumption
<1> DEFINE t == ThreadOf[s]
<1>1. /\ Kind[s] = "ActiveSink" /\ pc[t] = None /\ t \in Thread /\ prepared
      /\ want' = [want EXCEPT ![s] = d]
      /\ \/ sinkDemand' = [sinkDemand EXCEPT ![s] = d] /\ pc' = [pc EXCEPT ![t] = s]
         \/ sinkDemand' = sinkDemand /\ pc' = pc
  BY Zenon DEF DemandFromSink, Requested
<1>2. /\ UNCHANGED <<demand, packet, supplyBacklog, demandBacklog, inSupplyBacklog, inDemandBacklog>>
      /\ UNCHANGED <<owner, current, packets, cached, outstanding, asked, pulling, made>>
      /\ UNCHANGED <<isNew, pieces, returned, accepted, prepared, flushedTo, flushes>>
  BY Zenon DEF DemandFromSink, linkVars, backlogVars, sourceVars, transformVars, sinkVars, flushVars
<1> HIDE DEF t
<1>3. Calls(t, s)
  BY <1>1, Zenon DEF Calls
<1>4. /\ pc' \in [Thread -> Stage \cup {None}]
      /\ owner' # None => pc'[owner'] # None
      /\ \A x \in Stage : Scheduled(x) => Scheduled(x)'
      /\ pc' # pc => Scheduled(s)'
  BY <1>1, <1>2, <1>3, CallbackKeeps, Zenon
<1>5. TypeOK /\ LockOK
  BY Zenon DEF SafeInv
<1>6. /\ want \in [Stage -> Demand] /\ sinkDemand \in [Stage -> Demand]
      /\ pc \in [Thread -> Stage \cup {None}]
  BY <1>5, Zenon DEF TypeOK
<1>7. /\ want' \in [Stage -> Demand] /\ sinkDemand' \in [Stage -> Demand]
      /\ \A x \in Stage : x # s => sinkDemand'[x] = sinkDemand[x]
  BY <1>1, <1>6
<1>8. TypeOK'
  BY <1>2, <1>4, <1>5, <1>7, Zenon DEF TypeOK
<1>9. LockOK'
  BY <1>1, <1>2, <1>4, <1>5, Zenon DEF LockOK
<1>10. SafeInv'
  BY <1>2, <1>8, <1>9, Zenon DEF SafeInv, Backlog
<1>11. ASSUME Inv
       PROVE  FullLinksDue' /\ UnsettledDue'
  <2>1. FullLinksDue /\ UnsettledDue
    BY <1>11, Zenon DEF Inv
  <2>2. FullLinksDue'
    BY <1>2, <2>1, Zenon DEF FullLinksDue
  <2>3. \A x \in Stage : x # s => (Settled(x)' <=> Settled(x))
    BY <1>2, <1>7 DEF Settled, OutputDemand, Outputs
  <2>4. CASE sinkDemand' = sinkDemand
    <3>1. Settled(s)' <=> Settled(s)
      BY <1>2, <2>4 DEF Settled, OutputDemand, Outputs
    <3> QED
      BY <1>4, <2>1, <2>2, <2>3, <3>1, Zenon DEF UnsettledDue
  <2>5. CASE pc' = [pc EXCEPT ![t] = s]
    <3>1. pc'[t] # pc[t]
      BY <1>1, <1>6, <2>5, Zenon
    <3> QED
      BY <1>4, <2>1, <2>2, <2>3, <3>1, Zenon DEF UnsettledDue
  <2> QED
    BY <1>1, <2>4, <2>5, Zenon
<1> QED
  BY <1>10, <1>11, Zenon DEF Inv

(* The demux's start on a request keeps the invariant. *)
LEMMA PullKeeps ==
  ASSUME SafeInv, NEW s \in Stage, Pull(s)
  PROVE  SafeInv' /\ (Inv => Inv')
<1> USE GraphAssumption
<1>1. /\ asked[s]
      /\ asked' = [asked EXCEPT ![s] = FALSE]
      /\ pulling' = [pulling EXCEPT ![s] = TRUE]
      /\ made' = [made EXCEPT ![s] = @ + 1]
      /\ UNCHANGED <<demand, packet, supplyBacklog, demandBacklog, inSupplyBacklog, inDemandBacklog>>
      /\ UNCHANGED <<owner, current, pc, packets, cached, outstanding>>
      /\ UNCHANGED <<isNew, pieces, sinkDemand, returned, want, accepted, prepared, flushedTo, flushes>>
  BY Zenon DEF Pull, linkVars, backlogVars, transformVars, sinkVars, flushVars
<1>2. TypeOK /\ LockOK
  BY Zenon DEF SafeInv
<1>3. asked \in [Stage -> BOOLEAN] /\ pulling \in [Stage -> BOOLEAN] /\ made \in [Stage -> Nat]
  BY <1>2, Zenon DEF TypeOK, PacketNumber
<1>4. asked' \in [Stage -> BOOLEAN] /\ pulling' \in [Stage -> BOOLEAN] /\ made' \in [Stage -> Nat]
  BY <1>1, <1>3
<1>5. TypeOK'
  BY <1>1, <1>2, <1>4, Zenon DEF TypeOK, PacketNumber
<1>6. prepared # FALSE
  BY <1>1, <1>2, Zenon DEF LockOK
<1>7. LockOK'
  BY <1>1, <1>2, <1>6, Zenon DEF LockOK
<1>8. SafeInv'
  BY <1>1, <1>5, <1>7, Zenon DEF SafeInv, Backlog
<1>9. FullLinksDue' <=> FullLinksDue
  BY <1>1, Zenon DEF FullLinksDue
<1>10. UnsettledDue' <=> UnsettledDue
  BY <1>1 DEF UnsettledDue, Settled, Scheduled, Waiting, OutputDemand, Outputs
<1> QED
  BY <1>8, <1>9, <1>10, Zenon DEF Inv

(* Preparing the graph keeps the invariant. *)
LEMMA PrepareKeeps ==
  ASSUME SafeInv, Prepare
  PROVE  SafeInv' /\ (Inv => Inv')
<1>1. /\ prepared' = TRUE
      /\ UNCHANGED <<demand, packet, supplyBacklog, demandBacklog, inSupplyBacklog, inDemandBacklog>>
      /\ UNCHANGED <<owner, current, pc, packets, cached, outstanding, asked, pulling, made>>
      /\ UNCHANGED <<isNew, pieces, sinkDemand, returned, want, accepted, flushedTo, flushes>>
  BY Zenon DEF Prepare, linkVars, backlogVars, sourceVars, transformVars, sinkVars
<1>2. TypeOK /\ LockOK
  BY Zenon DEF SafeInv
<1>3. TypeOK'
  BY <1>1, <1>2, Zenon DEF TypeOK
<1>4. LockOK'
  BY <1>1, <1>2, Zenon DEF LockOK
<1>5. SafeInv'
  BY <1>1, <1>3, <1>4, Zenon DEF SafeInv, Backlog
<1>6. FullLinksDue' <=> FullLinksDue
  BY <1>1, Zenon DEF FullLinksDue
<1>7. UnsettledDue' <=> UnsettledDue
  BY <1>1 DEF UnsettledDue, Settled, Scheduled, Waiting, OutputDemand, Outputs
<1> QED
  BY <1>5, <1>6, <1>7, Zenon DEF Inv

(* A flush clears a transform's input together with its output, and a sink's *)
(* demand together with its input.                                           *)
LEMMA FlushKeeps ==
  ASSUME SafeInv, NEW l \in Link, FlushOutput(l)
  PROVE  SafeInv' /\ (Inv => Inv')
<1> USE GraphAssumption
<1> DEFINE src == Upstream[l]
<1>1. /\ prepared /\ owner = None /\ src \in Sources /\ src \in Stage
      /\ demand' = [k \in Link |-> IF k \in Subgraph(l) THEN "negative" ELSE demand[k]]
      /\ packet' = [k \in Link |-> IF k \in Subgraph(l) THEN None ELSE packet[k]]
      /\ packets' = [packets EXCEPT ![src] = <<>>]
      /\ cached' = [cached EXCEPT ![src] = None]
      /\ outstanding' = [outstanding EXCEPT ![src] = FALSE]
  BY Zenon DEF FlushOutput, FlushLinks, FlushActiveSource, FlushActiveMultistreamSource
<1>2. /\ isNew' = [s \in Stage |-> IF s \in FlushedStages(l) THEN TRUE ELSE isNew[s]]
      /\ pieces' = [s \in Stage |-> IF s \in FlushedStages(l) THEN 0 ELSE pieces[s]]
      /\ sinkDemand' = [s \in Stage |-> IF s \in FlushedStages(l) THEN "negative" ELSE sinkDemand[s]]
      /\ want' = [s \in Stage |-> IF s \in FlushedStages(l) THEN "negative" ELSE want[s]]
      /\ flushedTo' = [flushedTo EXCEPT ![src] = made[src]]
      /\ flushes' = flushes + 1
  BY Zenon DEF FlushOutput, FlushTransforms, FlushSinks, Cleared
<1>3. /\ UNCHANGED <<supplyBacklog, demandBacklog, inSupplyBacklog, inDemandBacklog, owner, current>>
      /\ UNCHANGED <<pc, asked, pulling, made, returned, accepted, prepared>>
  BY Zenon DEF FlushOutput, backlogVars
<1> HIDE DEF src
<1>4. TypeOK /\ LockOK
  BY Zenon DEF SafeInv
<1>5. demand' \in [Link -> Demand] /\ packet' \in [Link -> PacketNumber \cup {None}]
  BY <1>1, <1>4, Zenon DEF TypeOK, Demand
<1>6. /\ packets \in [Stage -> Seq(PacketNumber)]
      /\ cached \in [Stage -> [link : Link, number : PacketNumber] \cup {None}]
      /\ outstanding \in [Stage -> BOOLEAN]
      /\ flushedTo \in [Stage -> PacketNumber] /\ made \in [Stage -> PacketNumber] /\ flushes \in Nat
      /\ isNew \in [Stage -> BOOLEAN] /\ pieces \in [Stage -> Nat]
      /\ sinkDemand \in [Stage -> Demand] /\ want \in [Stage -> Demand]
  BY <1>4, Zenon DEF TypeOK
<1>7. <<>> \in Seq(PacketNumber)
  OBVIOUS
<1>8. /\ packets' \in [Stage -> Seq(PacketNumber)] /\ packets'[src] = <<>>
      /\ cached' \in [Stage -> [link : Link, number : PacketNumber] \cup {None}] /\ cached'[src] = None
      /\ \A x \in Stage : x # src => packets'[x] = packets[x] /\ cached'[x] = cached[x]
  BY <1>1, <1>6, <1>7, Zenon
<1>9. outstanding' \in [Stage -> BOOLEAN] /\ flushedTo' \in [Stage -> PacketNumber] /\ flushes' \in Nat
  BY <1>1, <1>2, <1>6
<1>10. /\ isNew' \in [Stage -> BOOLEAN] /\ pieces' \in [Stage -> Nat]
       /\ sinkDemand' \in [Stage -> Demand] /\ want' \in [Stage -> Demand]
  BY <1>2, <1>6, Zenon DEF Demand
<1>11. TypeOK'
  BY <1>3, <1>4, <1>5, <1>8, <1>9, <1>10, Zenon DEF TypeOK
<1>12. returned = None
  BY <1>1, <1>4, Zenon DEF LockOK, Sinks
<1>13. \A x \in Stage : cached'[x] = cached[x] \/ cached'[x] = None
  BY <1>8, Zenon
<1>14. LockOK'
  BY <1>1, <1>3, <1>4, <1>12, <1>13, Zenon DEF LockOK
<1>15. SafeInv'
  BY <1>3, <1>11, <1>14, Zenon DEF SafeInv, Backlog
<1>16. ASSUME Inv
       PROVE  FullLinksDue' /\ UnsettledDue'
  <2>1. FullLinksDue /\ UnsettledDue
    BY <1>16, Zenon DEF Inv
  <2>2. FullLinksDue'
    BY <1>1, <1>16, NoFullLinkAtRest, Zenon DEF FullLinksDue
  <2>3. \A x \in Stage : Scheduled(x)' <=> Scheduled(x)
    BY <1>3, Zenon DEF Scheduled, Waiting
  <2>4. /\ \A k \in Subgraph(l) : demand'[k] = "negative" /\ packet'[k] = None /\ OutputDemand(k)' = "negative"
        /\ \A k \in Link \ Subgraph(l) : /\ demand'[k] = demand[k] /\ packet'[k] = packet[k]
                                         /\ OutputDemand(k)' = OutputDemand(k)
    BY <1>1, Zenon DEF OutputDemand, Subgraph
  <2>5. ASSUME NEW x \in Stage, Settled(x)
        PROVE  Settled(x)'
    <3>1. CASE x = src
      BY <1>1, <1>8, <3>1, Zenon DEF Settled, Sources
    <3>2. CASE x \in Sources /\ x # src
      <4>1. \A k \in Outputs(x) : k \in Link \ Subgraph(l)
        BY <3>2, ForestAssumption DEF Outputs, Subgraph, src
      <4>2. \A k \in Outputs(x) : OutputDemand(k)' = OutputDemand(k)
        BY <2>4, <4>1, Zenon
      <4>3. packets'[x] = packets[x] /\ cached'[x] = cached[x] /\ Outputs(x)' = Outputs(x)
        BY <1>8, <3>2, Zenon DEF Outputs
      <4>4. cached[x] # None => cached[x].link \in Outputs(x)
        BY <1>4, <1>6 DEF LockOK, Outputs
      <4> QED
        BY <2>5, <3>2, <4>2, <4>3, <4>4, Zenon DEF Settled, Sources
    <3>3. CASE Kind[x] = "Transform"
      <4>1. ASSUME NEW i \in Link, NEW o \in Link, Downstream[i] = x, Upstream[o] = x
            PROVE  /\ demand'[i] = OutputDemand(o)'
                   /\ packet'[i] # None => OutputDemand(o)' = "negative"
        <5>1. o # l
          BY <1>1, <3>3, <4>1, Zenon DEF Sources, src
        <5>2. x = Downstream[l] <=> i = l
          BY <4>1, ForestAssumption, Zenon
        <5>3. Above[x] = Above[Upstream[i]] \cup {Upstream[i]}
          BY <4>1, ForestAssumption, Zenon
        <5>4. Downstream[l] \in Above[x] <=>
                (Downstream[l] = Upstream[i] \/ Downstream[l] \in Above[Upstream[i]])
          BY <5>3, Zenon
        <5>5. i \in Subgraph(l) <=> o \in Subgraph(l)
          BY <4>1, <5>1, <5>2, <5>4, Zenon DEF Subgraph
        <5>6. CASE i \in Subgraph(l)
          BY <2>4, <5>5, <5>6, Zenon
        <5>7. CASE i \notin Subgraph(l)
          BY <2>4, <2>5, <3>3, <4>1, <5>5, <5>7 DEF Settled
        <5> QED
          BY <5>6, <5>7, Zenon
      <4> QED
        BY <3>3, <4>1, Zenon DEF Settled
    <3>4. CASE Kind[x] = "ActiveSink"
      <4>1. ASSUME NEW i \in Link, Downstream[i] = x
            PROVE  packet'[i] = None /\ demand'[i] = sinkDemand'[x]
        <5>1. x \in FlushedStages(l) <=> i \in Subgraph(l)
          BY <4>1, ForestAssumption DEF FlushedStages, Subgraph
        <5>2. CASE i \in Subgraph(l)
          BY <1>2, <2>4, <5>1, <5>2, Zenon
        <5>3. CASE i \notin Subgraph(l)
          BY <1>2, <2>4, <2>5, <3>4, <4>1, <5>1, <5>3, Zenon DEF Settled
        <5> QED
          BY <5>2, <5>3, Zenon
      <4> QED
        BY <3>4, <4>1, Zenon DEF Settled
    <3> QED
      BY <3>1, <3>2, <3>3, <3>4, Zenon DEF StageKind, Sources
  <2> QED
    BY <2>1, <2>2, <2>3, <2>5, Zenon DEF UnsettledDue
<1> QED
  BY <1>15, <1>16, Zenon DEF Inv

-----------------------------------------------------------------------------
(* The theorems. *)

(* The initial state satisfies the invariant. *)
LEMMA InitInv == Init => Inv
<1> SUFFICES ASSUME Init PROVE Inv
  BY Zenon
<1> USE GraphAssumption DEF Init
<1>1. TypeOK
  <2>1. /\ demand \in [Link -> Demand] /\ packet \in [Link -> PacketNumber \cup {None}]
        /\ sinkDemand \in [Stage -> Demand] /\ want \in [Stage -> Demand]
        /\ cached \in [Stage -> [link : Link, number : PacketNumber] \cup {None}]
    BY Zenon DEF Demand
  <2>2. <<>> \in Seq(PacketNumber) /\ <<>> \in Seq(Stage)
    OBVIOUS
  <2>3. packets \in [Stage -> Seq(PacketNumber)]
    BY <2>2, Zenon
  <2>4. /\ made \in [Stage -> PacketNumber] /\ accepted \in [Stage -> PacketNumber]
        /\ flushedTo \in [Stage -> PacketNumber] /\ flushes \in Nat
        /\ pieces \in [Stage -> Nat]
    BY Zenon DEF PacketNumber
  <2> QED
    BY <2>1, <2>2, <2>3, <2>4, Zenon DEF TypeOK
<1>2. Backlog(supplyBacklog, inSupplyBacklog) /\ Backlog(demandBacklog, inDemandBacklog)
  <2>1. supplyBacklog \in Seq(Stage) /\ demandBacklog \in Seq(Stage)
    OBVIOUS
  <2>2. \A k : k \notin 1..Len(<<>>)
    OBVIOUS
  <2> QED
    BY <2>1, <2>2, Zenon DEF Backlog
<1>3. LockOK /\ FullLinksDue
  BY Zenon DEF LockOK, FullLinksDue
<1>4. UnsettledDue
  BY Zenon DEF UnsettledDue, Settled, OutputDemand, Outputs, StageKind
<1> QED
  BY <1>1, <1>2, <1>3, <1>4, Zenon DEF Inv, SafeInv

(* A step that changes nothing keeps the invariant. *)
LEMMA StutterKeeps ==
  ASSUME SafeInv, UNCHANGED vars
  PROVE  SafeInv' /\ (Inv => Inv')
<1>1. /\ UNCHANGED <<demand, packet, supplyBacklog, demandBacklog, inSupplyBacklog, inDemandBacklog>>
      /\ UNCHANGED <<owner, current, pc, packets, cached, outstanding, asked, pulling, made>>
      /\ UNCHANGED <<isNew, pieces, sinkDemand, returned, want, accepted, prepared, flushedTo, flushes>>
  BY Zenon DEF vars, linkVars, backlogVars, sourceVars, transformVars, sinkVars, flushVars
<1>2. SafeInv'
  BY <1>1 DEF SafeInv, TypeOK, Backlog, LockOK
<1>3. FullLinksDue' <=> FullLinksDue
  BY <1>1, Zenon DEF FullLinksDue
<1>4. UnsettledDue' <=> UnsettledDue
  <2>1. ASSUME NEW s \in Stage PROVE Settled(s)' <=> Settled(s)
    <3>1. \A l : OutputDemand(l)' = OutputDemand(l)
      BY <1>1, Zenon DEF OutputDemand
    <3> QED
      BY Zenon, <1>1, <3>1, ZenonT(60) DEF Settled, Outputs
  <2>2. ASSUME NEW s \in Stage PROVE Scheduled(s)' <=> Scheduled(s)
    BY Zenon, <1>1, ZenonT(30) DEF Scheduled, Waiting
  <2> QED
    BY <2>1, <2>2, Zenon DEF UnsettledDue
<1> QED
  BY <1>2, <1>3, <1>4, Zenon DEF Inv

(* An update whose stage ends settled keeps the whole invariant. *)
LEMMA UpdatedKeeps ==
  ASSUME Inv, NEW s \in Stage, current = s, SafeInv', Updated(s), Settled(s)'
  PROVE  Inv'
<1>1. PICK given, signalled \in Stage \cup {None} :
        Scheduling(s, given, signalled) /\ LocalUpdate(s, given, signalled)
  BY Zenon DEF Updated
<1>2. given = None \/ given \in Stage
  BY Zenon
<1>3. FullLinksDue' /\ UnsettledDue'
  BY <1>1, <1>2, UpdateKeepsDue, Zenon
<1> QED
  BY <1>3, Zenon DEF Inv

(* Every step keeps the invariant. *)
LEMMA StepKeeps ==
  ASSUME SafeInv, [Next]_vars
  PROVE  SafeInv' /\ (Productive /\ NothingDropped /\ Inv => Inv')
<1>1. ASSUME NEW t \in Thread, Enter(t)
      PROVE  SafeInv' /\ (Inv => Inv')
  BY <1>1, EnterKeeps, Zenon
<1>2. ASSUME NEW s \in Stage, UpdateActiveSource(s)
      PROVE  SafeInv' /\ (Productive /\ NothingDropped /\ Inv => Inv')
  <2>1. current = s
    BY <1>2, Zenon DEF UpdateActiveSource
  <2> QED
    BY <1>2, <2>1, ActiveSourceUpdate, UpdatedKeeps, Zenon
<1>3. ASSUME NEW s \in Stage, UpdateActiveMultistreamSource(s)
      PROVE  SafeInv' /\ (Productive /\ NothingDropped /\ Inv => Inv')
  <2>1. current = s
    BY <1>3, Zenon DEF UpdateActiveMultistreamSource
  <2> QED
    BY <1>3, <2>1, MultistreamUpdate, UpdatedKeeps, Zenon
<1>4. ASSUME NEW s \in Stage, UpdateTransform(s)
      PROVE  SafeInv' /\ (Productive /\ NothingDropped /\ Inv => Inv')
  <2>1. current = s
    BY <1>4, Zenon DEF UpdateTransform
  <2> QED
    BY <1>4, <2>1, TransformUpdate, UpdatedKeeps, Zenon
<1>5. ASSUME NEW s \in Stage, SinkTakes(s)
      PROVE  SafeInv' /\ (Inv => Inv')
  BY <1>5, SinkTakesKeeps, Zenon
<1>6. ASSUME NEW s \in Stage, SinkSignals(s)
      PROVE  SafeInv' /\ (Inv => Inv')
  <2>1. current = s
    BY <1>6, Zenon DEF SinkSignals
  <2> QED
    BY <1>6, <2>1, SinkSignalsKeeps, UpdatedKeeps, Zenon
<1>7. ASSUME NEW s \in Stage, PartStep(s)
      PROVE  SafeInv' /\ (Inv => Inv')
  BY <1>7, ActiveSourceSupplyKeeps, PullKeeps, MultistreamSupplyKeeps, SinkDemandKeeps, Zenon DEF PartStep
<1>8. ASSUME NEW l \in Link, FlushOutput(l)
      PROVE  SafeInv' /\ (Inv => Inv')
  BY <1>8, FlushKeeps, Zenon
<1> QED
  BY <1>1, <1>2, <1>3, <1>4, <1>5, <1>6, <1>7, <1>8, PrepareKeeps, StutterKeeps, Zenon
  DEF Next, EngineStep, Update

(* A backlog's flags tell exactly which stages are in it, each once. *)
LEMMA BacklogMembers ==
  ASSUME NEW q, NEW isIn, Backlog(q, isIn)
  PROVE  /\ \A s \in Stage : isIn[s] <=> s \in Members(q)
         /\ \A j, k \in 1..Len(q) : q[j] = q[k] => j = k
<1>1. ASSUME NEW s \in Stage PROVE isIn[s] <=> s \in Members(q)
  <2>1. isIn[s] \in BOOLEAN /\ ((isIn[s] = TRUE) <=> (\E k \in 1..Len(q) : q[k] = s))
    BY Zenon DEF Backlog
  <2>2. s \in Members(q) <=> \E k \in 1..Len(q) : q[k] = s
    BY Zenon DEF Members
  <2> QED
    BY <2>1, <2>2, Zenon
<1> QED
  BY <1>1, Zenon DEF Backlog

(* Whatever the graph, the threads and the parts do: Engine::PushTo...Backlog *)
(* and PopFrom...Backlog keep the two backlogs free of duplicates and in step *)
(* with the flags in Stage, and Engine::Update() lets go of the lock only     *)
(* when both are empty.                                                       *)
THEOREM BacklogsConsistentHolds == Spec => [](TypeOK /\ BacklogsConsistent)
<1>1. Init => SafeInv
  BY InitInv, Zenon DEF Inv
<1>2. SafeInv /\ [Next]_vars => SafeInv'
  BY StepKeeps, Zenon
<1>3. SafeInv => TypeOK /\ BacklogsConsistent
  <2> SUFFICES ASSUME SafeInv PROVE TypeOK /\ BacklogsConsistent
    BY Zenon
  <2>1. TypeOK /\ Backlog(supplyBacklog, inSupplyBacklog) /\ Backlog(demandBacklog, inDemandBacklog)
    BY Zenon DEF SafeInv
  <2>2. /\ \A s \in Stage : inSupplyBacklog[s] <=> s \in Members(supplyBacklog)
        /\ \A j, k \in 1..Len(supplyBacklog) : supplyBacklog[j] = supplyBacklog[k] => j = k
    BY <2>1, BacklogMembers, Zenon
  <2>3. /\ \A s \in Stage : inDemandBacklog[s] <=> s \in Members(demandBacklog)
        /\ \A j, k \in 1..Len(demandBacklog) : demandBacklog[j] = demandBacklog[k] => j = k
    BY <2>1, BacklogMembers, Zenon
  <2>4. owner = None => supplyBacklog = <<>> /\ demandBacklog = <<>> /\ current = None
    BY <2>1, EmptyBacklog, Zenon DEF SafeInv, LockOK
  <2> QED
    BY <2>1, <2>2, <2>3, <2>4, Zenon DEF BacklogsConsistent
<1> QED
  BY <1>1, <1>2, <1>3, PTL DEF Spec

(* engine.h's promise that all the work an external event causes is done by  *)
(* the time RequestUpdate returns, for every forest of stages, every set of  *)
(* threads and any number of packets and flushes: provided every             *)
(* TransformPacket that keeps its input makes an output, and no output       *)
(* drops a packet because its copy allocator is starved.                     *)
THEOREM AllWorkDoneHolds ==
  ASSUME Productive, NothingDropped
  PROVE  Spec => []AllWorkDone
<1>1. Init => Inv
  BY InitInv, Zenon
<1>2. Inv /\ [Next]_vars => Inv'
  <2>1. Inv => SafeInv
    BY Zenon DEF Inv
  <2> QED
    BY <2>1, StepKeeps, Zenon
<1>3. Inv => AllWorkDone
  <2> SUFFICES ASSUME Inv, AtRest, NEW s \in Stage
               PROVE  Settled(s)
    BY Zenon DEF AllWorkDone
  <2>1. /\ UnsettledDue /\ owner = None /\ current = None
        /\ inSupplyBacklog[s] = FALSE /\ inDemandBacklog[s] = FALSE
    BY Zenon DEF Inv, SafeInv, LockOK, AtRest
  <2>2. ~Waiting(s)
    <3>1. None \notin Stage
      BY GraphAssumption, Zenon
    <3>2. \A t \in Thread : pc[t] = None
      BY Zenon DEF AtRest, Pending
    <3> QED
      BY <3>1, <3>2, Zenon DEF Waiting
  <2> QED
    BY <2>1, <2>2, GraphAssumption, Zenon DEF UnsettledDue, Scheduled
<1> QED
  BY <1>1, <1>2, <1>3, PTL DEF Spec
=============================================================================
