---------------------------- MODULE SharedProofs ----------------------------
(***************************************************************************)
(* What the mutex of a session buys the goroutines that share a document,  *)
(* for any number of goroutines, sessions, names and values.               *)
(***************************************************************************)
EXTENDS SharedDocument, FiniteSetTheorems, TLAPS

-----------------------------------------------------------------------------
(* Calls as records *)

Fields == {"op", "at", "name", "value", "slot", "p", "n", "i", "e", "result", "seen", "late"}

IsFrame(c) == c = [f \in Fields |-> c[f]]

FrameInv == call = [t \in Threads |-> call[t]] /\ \A t \in Threads : IsFrame(call[t])

\* d is the same call as c, somewhere else or with more loaded.
sameCall(c, d) ==
    /\ IsFrame(d) /\ d.op = c.op /\ d.name = c.name /\ d.value = c.value
    /\ d.slot = c.slot /\ d.late = c.late

\* ... or only the values seen differ.
samePlace(c, d) ==
    /\ sameCall(c, d) /\ d.at = c.at /\ d.p = c.p /\ d.n = c.n /\ d.i = c.i
    /\ d.e = c.e /\ d.result = c.result

\* The calls of the other goroutines are where they were.
othersStay(t) == \A u \in Threads \ {t} : samePlace(call[u], call'[u])

\* A new frame is one.
LEMMA frameFields ==
    ASSUME NEW op, NEW a, NEW name, NEW value, NEW slot
    PROVE  IsFrame(Frame(op, a, name, value, slot))
BY DEF Frame, IsFrame, Fields

\* The fields of the frame of a goroutine outside of every call.
LEMMA idleFields ==
    /\ IsFrame(Idle) /\ Idle.op = "None" /\ Idle.at = "idle" /\ Idle.late = FALSE
    /\ Idle.p = None /\ Idle.n = None /\ Idle.i = 1 /\ Idle.e = ZeroEntry
<1>1. IsFrame(Idle)
  BY frameFields DEF Idle
<1> QED
  BY <1>1 DEF Idle, Frame

\* A step of one call.
LEMMA stepTaken ==
    ASSUME FrameInv, NEW t \in Threads, NEW f, IsFrame(f), Step(t, f)
    PROVE  /\ FrameInv' /\ call'[t] = f
           /\ \A u \in Threads \ {t} : call'[u] = call[u]
           /\ othersStay(t)
<1>1. /\ call'[t] = f /\ \A u \in Threads \ {t} : call'[u] = call[u]
      /\ call' = [u \in Threads |-> call'[u]]
  BY DEF Step, FrameInv
<1> QED
  BY <1>1 DEF FrameInv, othersStay, samePlace, sameCall

\* A call that returns.
LEMMA returnTaken ==
    ASSUME FrameInv, NEW t \in Threads, NEW r, Return(t, r), mutex \in [Sessions -> Threads \union {None}]
    PROVE  LET c == call[t]
               d == call'[t]
           IN /\ FrameInv' /\ \A u \in Threads \ {t} : call'[u] = call[u]
              /\ othersStay(t)
              /\ mutex' = [mutex EXCEPT ![My(t)] = None]
              /\ d.p = None /\ d.n = None /\ d.i = 1 /\ d.e = ZeroEntry
              /\ c.op # "Open" => d = Idle /\ d.at = "idle" /\ d.op = "None" /\ ~d.late
              /\ c.op = "Open" => /\ d.op = "Open" /\ d.at = "returned" /\ d.name = c.name
                                  /\ d.result = r /\ d.seen = c.seen /\ d.late = c.late
<1> DEFINE c == call[t]
           g == Frame("Open", "returned", c.name, None, None)
           o == [g EXCEPT !.result = r, !.seen = c.seen, !.late = c.late]
<1>1. /\ IsFrame(g) /\ g.op = "Open" /\ g.at = "returned" /\ g.name = c.name
      /\ g.p = None /\ g.n = None /\ g.i = 1 /\ g.e = ZeroEntry
  <2>1. IsFrame(g)
    BY frameFields
  <2> QED
    BY <2>1 DEF Frame
<1>2. /\ IsFrame(Idle) /\ Idle.op = "None" /\ Idle.at = "idle" /\ Idle.late = FALSE
      /\ Idle.p = None /\ Idle.n = None /\ Idle.i = 1 /\ Idle.e = ZeroEntry
  BY idleFields
<1>3. /\ IsFrame(o) /\ o.op = "Open" /\ o.at = "returned" /\ o.name = c.name
      /\ o.p = None /\ o.n = None /\ o.i = 1 /\ o.e = ZeroEntry
      /\ o.result = r /\ o.seen = c.seen /\ o.late = c.late
  <2> HIDE DEF g, c
  <2> QED
    BY <1>1 DEF IsFrame, Fields
<1>4. Step(t, IF c.op = "Open" THEN o ELSE Idle) /\ mutex' = [mutex EXCEPT ![My(t)] = None]
  BY DEF Return
<1> HIDE DEF o
<1>5. CASE c.op = "Open"
  BY <1>3, <1>4, <1>5, stepTaken
<1>6. CASE c.op # "Open"
  BY <1>2, <1>4, <1>6, stepTaken
<1> QED
  BY <1>5, <1>6

\* A call that has changed a name's value.
LEMMA commitTaken ==
    ASSUME FrameInv, NEW t \in Threads, NEW name, NEW x, Commit(t, name, x)
    PROVE  /\ FrameInv' /\ call'[t] = Idle /\ othersStay(t)
           /\ \A u \in Threads \ {t} :
                 call'[u].seen = IF call[u].op = "Open" /\ call[u].at # "returned"
                                                         /\ call[u].name = name
                                 THEN call[u].seen \union {x} ELSE call[u].seen
           /\ mutex' = [mutex EXCEPT ![My(t)] = None]
           /\ content' = [content EXCEPT ![name] = x]
<1>1. IsFrame(Idle)
  BY frameFields DEF Idle
<1>2. ASSUME NEW c, IsFrame(c), NEW s
      PROVE  samePlace(c, [c EXCEPT !.seen = s]) /\ [c EXCEPT !.seen = s].seen = s
  BY <1>2 DEF IsFrame, Fields, samePlace, sameCall
<1>3. \A u \in Threads : samePlace(call[u], call[u])
  BY DEF FrameInv, samePlace, sameCall
<1>4. ASSUME NEW u \in Threads \ {t}
      PROVE  /\ samePlace(call[u], call'[u]) /\ IsFrame(call'[u])
             /\ call'[u].seen = IF call[u].op = "Open" /\ call[u].at # "returned"
                                                        /\ call[u].name = name
                                THEN call[u].seen \union {x} ELSE call[u].seen
  <2>1. call'[u] = IF call[u].op = "Open" /\ call[u].at # "returned" /\ call[u].name = name
                   THEN [call[u] EXCEPT !.seen = @ \union {x}] ELSE call[u]
    BY DEF Commit
  <2>2. IsFrame(call[u])
    BY DEF FrameInv
  <2>3. samePlace(call[u], call'[u])
    BY <1>2, <1>3, <2>1, <2>2
  <2> QED
    BY <1>2, <2>1, <2>2, <2>3 DEF samePlace, sameCall
<1>5. call'[t] = Idle /\ call' = [u \in Threads |-> call'[u]]
  BY DEF Commit
<1> QED
  BY <1>1, <1>4, <1>5 DEF Commit, FrameInv, othersStay

\* d is the call c at a, with p, n, i and e loaded.
moved(c, d, a, p, n, i, e) ==
    /\ sameCall(c, d) /\ d.seen = c.seen
    /\ d.at = a /\ d.p = p /\ d.n = n /\ d.i = i /\ d.e = e

\* Each update of a frame that a step makes, field by field.
LEMMA updates ==
    ASSUME NEW c, IsFrame(c), NEW a, NEW x, NEW y
    PROVE  /\ moved(c, [c EXCEPT !.at = a], a, c.p, c.n, c.i, c.e)
           /\ moved(c, [c EXCEPT !.at = a, !.n = x], a, c.p, x, c.i, c.e)
           /\ moved(c, [c EXCEPT !.n = x, !.at = a], a, c.p, x, c.i, c.e)
           /\ moved(c, [c EXCEPT !.p = x, !.at = a], a, x, c.n, c.i, c.e)
           /\ moved(c, [c EXCEPT !.e.name = x, !.at = a], a, c.p, c.n, c.i,
                    [c.e EXCEPT !.name = x])
           /\ moved(c, [c EXCEPT !.e = x, !.i = @ + 1, !.at = a], a, c.p, c.n, c.i + 1, x)
           /\ moved(c, [c EXCEPT !.i = @ + 1], c.at, c.p, c.n, c.i + 1, c.e)
           /\ moved(c, [c EXCEPT !.at = a, !.p = x, !.n = y], a, x, y, c.i, c.e)
<1> USE DEF moved, sameCall, IsFrame, Fields
<1>1. moved(c, [c EXCEPT !.at = a], a, c.p, c.n, c.i, c.e)
  OBVIOUS
<1>2. moved(c, [c EXCEPT !.at = a, !.n = x], a, c.p, x, c.i, c.e)
  OBVIOUS
<1>3. moved(c, [c EXCEPT !.n = x, !.at = a], a, c.p, x, c.i, c.e)
  OBVIOUS
<1>4. moved(c, [c EXCEPT !.p = x, !.at = a], a, x, c.n, c.i, c.e)
  OBVIOUS
<1>5. moved(c, [c EXCEPT !.e.name = x, !.at = a], a, c.p, c.n, c.i,
            [c.e EXCEPT !.name = x])
  OBVIOUS
<1>6. moved(c, [c EXCEPT !.e = x, !.i = @ + 1, !.at = a], a, c.p, c.n, c.i + 1, x)
  OBVIOUS
<1>7. moved(c, [c EXCEPT !.i = @ + 1], c.at, c.p, c.n, c.i + 1, c.e)
  OBVIOUS
<1>8. moved(c, [c EXCEPT !.at = a, !.p = x, !.n = y], a, x, y, c.i, c.e)
  OBVIOUS
<1> QED
  BY <1>1, <1>2, <1>3, <1>4, <1>5, <1>6, <1>7, <1>8

\* A call that begins.
LEMMA beginTaken ==
    ASSUME FrameInv, NEW t \in Threads, NEW op, NEW name, NEW value, NEW slot,
           Begin(t, op, name, value, slot)
    PROVE  LET d == call'[t]
           IN /\ FrameInv' /\ othersStay(t) /\ \A u \in Threads \ {t} : call'[u] = call[u]
              /\ call[t].at = "idle" /\ op \in Does[t]
              /\ d.op = op /\ d.at = "enter" /\ d.name = name /\ d.value = value
              /\ d.slot = slot /\ d.p = None /\ d.n = None /\ d.i = 1 /\ d.e = ZeroEntry
              /\ op = "Open" => content[name] \in d.seen
              /\ d.late => op = "Open" /\ locked[My(t)]
<1> DEFINE g == Frame(op, "enter", name, value, slot)
           seen == IF op = "Open" THEN {content[name]} ELSE {}
           late == op = "Open" /\ locked[My(t)]
           d == [g EXCEPT !.seen = seen, !.late = late]
<1>1. /\ IsFrame(g) /\ g.op = op /\ g.at = "enter" /\ g.name = name /\ g.value = value
      /\ g.slot = slot /\ g.p = None /\ g.n = None /\ g.i = 1 /\ g.e = ZeroEntry
  <2>1. IsFrame(g)
    BY frameFields
  <2> QED
    BY <2>1 DEF Frame
<1>2. /\ IsFrame(d) /\ d.op = op /\ d.at = "enter" /\ d.name = name /\ d.value = value
      /\ d.slot = slot /\ d.p = None /\ d.n = None /\ d.i = 1 /\ d.e = ZeroEntry
      /\ d.seen = seen /\ d.late = late
  <2> HIDE DEF g, seen, late
  <2> QED
    BY <1>1 DEF IsFrame, Fields
<1>3. Step(t, d) /\ call[t].at = "idle" /\ op \in Does[t]
  BY DEF Begin, At
<1> HIDE DEF d
<1>4. FrameInv' /\ call'[t] = d /\ othersStay(t) /\ \A u \in Threads \ {t} : call'[u] = call[u]
  BY <1>2, <1>3, stepTaken
<1> QED
  BY <1>2, <1>3, <1>4

\* A call that goes on.
stays(t, a, p, n, i, e) ==
    /\ FrameInv' /\ othersStay(t) /\ \A u \in Threads \ {t} : call'[u] = call[u]
    /\ moved(call[t], call'[t], a, p, n, i, e)

\* A step to a frame so updated changes that goroutine's frame and no other.
LEMMA movedTaken ==
    ASSUME FrameInv, NEW t \in Threads, NEW f, Step(t, f), NEW a, NEW p, NEW n, NEW i, NEW e,
           moved(call[t], f, a, p, n, i, e)
    PROVE  stays(t, a, p, n, i, e)
<1>1. IsFrame(f)
  BY DEF moved, sameCall
<1> QED
  BY <1>1, stepTaken DEF stays

\* What each step inside of a call does to the frame.
LEMMA proceedTaken ==
    ASSUME FrameInv, NEW t \in Threads
    PROVE  LET c == call[t]
           IN /\ LoadPtr(t) => stays(t, IF c.n = None THEN "header" ELSE "name", ptr, c.n, c.i, c.e)
              /\ LoadLen(t) => stays(t, IF c.p = None THEN "header" ELSE "name", c.p, len, c.i, c.e)
              /\ ReaderEnds(t) => stays(t, "scan", c.p, len, c.i, c.e)
              /\ ScanPast(t) => stays(t, c.at, c.p, c.n, c.i + 1, c.e)
              /\ Shift(t) => stays(t, "shift", c.p, c.n, c.i, c.e)
              /\ Append_(t) => stays(t, "store", IF len < Len(arrays[ptr]) THEN ptr ELSE Len(arrays) + 1,
                                     len + 1, c.i, c.e)
              /\ TakeResult(t) => FrameInv' /\ othersStay(t) /\ call'[t] = Idle
                                    /\ \A u \in Threads \ {t} : call'[u] = call[u]
<1> DEFINE c == call[t]
<1>0. IsFrame(c)
  BY DEF FrameInv
<1> HIDE DEF c
<1>1. LoadPtr(t) => stays(t, IF c.n = None THEN "header" ELSE "name", ptr, c.n, c.i, c.e)
  BY <1>0, updates, movedTaken DEF LoadPtr, c
<1>2. LoadLen(t) => stays(t, IF c.p = None THEN "header" ELSE "name", c.p, len, c.i, c.e)
  <2> DEFINE a == IF c.p = None THEN "header" ELSE "name"
  <2>1. LoadLen(t) => Step(t, [c EXCEPT !.n = len, !.at = a])
    BY DEF LoadLen, c
  <2> HIDE DEF a
  <2>2. moved(c, [c EXCEPT !.n = len, !.at = a], a, c.p, len, c.i, c.e)
    BY <1>0, updates
  <2> QED
    BY <2>1, <2>2, movedTaken DEF a, c
<1>3. ReaderEnds(t) => stays(t, "scan", c.p, len, c.i, c.e)
  BY <1>0, updates, movedTaken DEF ReaderEnds, c
<1>4. ScanPast(t) => stays(t, c.at, c.p, c.n, c.i + 1, c.e)
  BY <1>0, updates, movedTaken DEF ScanPast, c
<1>5. Shift(t) => stays(t, "shift", c.p, c.n, c.i, c.e)
  BY <1>0, updates, movedTaken DEF Shift, c
<1>6. Append_(t) => stays(t, "store", IF len < Len(arrays[ptr]) THEN ptr ELSE Len(arrays) + 1,
                          len + 1, c.i, c.e)
  BY <1>0, updates, movedTaken DEF Append_, c
<1>7. TakeResult(t) => FrameInv' /\ othersStay(t) /\ call'[t] = Idle
                         /\ \A u \in Threads \ {t} : call'[u] = call[u]
  BY idleFields, stepTaken DEF TakeResult
<1> QED
  BY <1>1, <1>2, <1>3, <1>4, <1>5, <1>6, <1>7 DEF c

\* The copy of an element: its name, then the rest.
LEMMA copyTaken ==
    ASSUME FrameInv, NEW t \in Threads
    PROVE  LET c == call[t]
           IN /\ CopyName(t) =>
                    \/ c.i > c.n /\ Return(t, "ErrNoSuchSecret") /\ corrupted' = corrupted
                    \/ ~(c.i > c.n) /\ c.i > Len(arrays[c.p]) /\ Return(t, None) /\ corrupted'
                    \/ /\ ~(c.i > c.n) /\ ~(c.i > Len(arrays[c.p]))
                       /\ UNCHANGED <<mutex, corrupted>>
                       /\ stays(t, "box", c.p, c.n, c.i,
                                [c.e EXCEPT !.name = arrays[c.p][c.i].name])
              /\ CopyBox(t) =>
                    LET e == [c.e EXCEPT !.box = arrays[c.p][c.i].box]
                    IN \/ e.name = c.name /\ Return(t, openSecret(e))
                       \/ /\ e.name # c.name /\ mutex' = mutex
                          /\ stays(t, "name", c.p, c.n, c.i + 1, ZeroEntry)
<1> DEFINE c == call[t]
           e == [c.e EXCEPT !.box = arrays[c.p][c.i].box]
<1>0. IsFrame(c)
  BY DEF FrameInv
<1>1. ASSUME CopyName(t), ~(c.i > c.n), ~(c.i > Len(arrays[c.p]))
      PROVE  stays(t, "box", c.p, c.n, c.i, [c.e EXCEPT !.name = arrays[c.p][c.i].name])
  <2> DEFINE name == arrays[c.p][c.i].name
  <2>1. Step(t, [c EXCEPT !.e.name = name, !.at = "box"])
    BY <1>1 DEF CopyName
  <2> HIDE DEF c, name
  <2>2. moved(c, [c EXCEPT !.e.name = name, !.at = "box"], "box", c.p, c.n, c.i,
              [c.e EXCEPT !.name = name])
    BY <1>0, updates
  <2> QED
    BY <2>1, <2>2, movedTaken DEF name, c
<1>2. ASSUME CopyBox(t), e.name # c.name
      PROVE  stays(t, "name", c.p, c.n, c.i + 1, ZeroEntry)
  <2>1. Step(t, [c EXCEPT !.e = ZeroEntry, !.i = @ + 1, !.at = "name"])
    BY <1>2 DEF CopyBox
  <2> HIDE DEF c
  <2>2. moved(c, [c EXCEPT !.e = ZeroEntry, !.i = @ + 1, !.at = "name"], "name", c.p, c.n,
              c.i + 1, ZeroEntry)
    BY <1>0, updates
  <2> QED
    BY <2>1, <2>2, movedTaken DEF c
<1>3. CopyName(t) =>
        \/ c.i > c.n /\ Return(t, "ErrNoSuchSecret") /\ corrupted' = corrupted
        \/ ~(c.i > c.n) /\ c.i > Len(arrays[c.p]) /\ Return(t, None) /\ corrupted'
        \/ ~(c.i > c.n) /\ ~(c.i > Len(arrays[c.p])) /\ UNCHANGED <<mutex, corrupted>>
  BY Zenon DEF CopyName
<1>4. CopyBox(t) => \/ e.name = c.name /\ Return(t, openSecret(e))
                    \/ e.name # c.name /\ mutex' = mutex
  BY Zenon DEF CopyBox
<1> HIDE DEF c, e
<1>5. CopyName(t) =>
        \/ c.i > c.n /\ Return(t, "ErrNoSuchSecret") /\ corrupted' = corrupted
        \/ ~(c.i > c.n) /\ c.i > Len(arrays[c.p]) /\ Return(t, None) /\ corrupted'
        \/ /\ ~(c.i > c.n) /\ ~(c.i > Len(arrays[c.p]))
           /\ UNCHANGED <<mutex, corrupted>>
           /\ stays(t, "box", c.p, c.n, c.i, [c.e EXCEPT !.name = arrays[c.p][c.i].name])
  BY <1>1, <1>3, Zenon
<1>6. CopyBox(t) => \/ e.name = c.name /\ Return(t, openSecret(e))
                    \/ /\ e.name # c.name /\ mutex' = mutex
                       /\ stays(t, "name", c.p, c.n, c.i + 1, ZeroEntry)
  BY <1>2, <1>4, Zenon
<1> QED
  BY <1>5, <1>6 DEF c, e

\* A call that comes to hold the mutex, or is turned away.
entryPlace(op) ==
    CASE op = "Open" -> "header" [] op = "Put" -> "reading" [] op = "Delete" -> "scan"
      [] op = "EnrollKey" -> "gesture" [] op = "RemoveKey" -> "remove"

\* A call that enters either is refused or holds the mutex and begins its work.
LEMMA enterTaken ==
    ASSUME FrameInv, NEW t \in Threads, Enter(t),
           call[t].op \in Mutators \union {"Open", "Lock"}
    PROVE  LET c == call[t]
           IN /\ c.at = "enter" /\ c.op # "Lock" /\ mutex[My(t)] = None
              /\ \/ refusal(t) # "nil" /\ Return(t, refusal(t))
                 \/ /\ refusal(t) = "nil" /\ mutex' = [mutex EXCEPT ![My(t)] = t]
                    /\ stays(t, entryPlace(c.op), c.p, IF c.op = "Delete" THEN len ELSE c.n,
                             c.i, c.e)
<1> DEFINE c == call[t]
<1>0. IsFrame(c)
  BY DEF FrameInv
<1>1. c.at = "enter" /\ c.op # "Lock" /\ mutex[My(t)] = None
  BY DEF Enter, At, mayEnter
<1>2. \/ refusal(t) # "nil" /\ Return(t, refusal(t))
      \/ /\ refusal(t) = "nil" /\ mutex' = [mutex EXCEPT ![My(t)] = t]
         /\ Step(t, entered(c))
  BY DEF Enter
<1>3. c.op \in {"Open", "Put", "Delete", "EnrollKey", "RemoveKey"}
  BY <1>1 DEF Mutators
<1> HIDE DEF c
<1>4. moved(c, entered(c), entryPlace(c.op), c.p, IF c.op = "Delete" THEN len ELSE c.n,
            c.i, c.e)
  <2>1. CASE c.op = "Delete"
    <3>1. entered(c) = [c EXCEPT !.at = "scan", !.n = len] /\ entryPlace(c.op) = "scan"
      BY <2>1 DEF entered, entryPlace
    <3>2. moved(c, [c EXCEPT !.at = "scan", !.n = len], "scan", c.p, len, c.i, c.e)
      BY <1>0, updates
    <3> QED
      BY <2>1, <3>1, <3>2
  <2>2. CASE c.op # "Delete"
    <3>1. entered(c) = [c EXCEPT !.at = entryPlace(c.op)]
      BY <1>3, <2>2 DEF entered, entryPlace
    <3> QED
      BY <1>0, <2>2, <3>1, updates
  <2> QED
    BY <2>1, <2>2
<1>5. Step(t, entered(c)) =>
        stays(t, entryPlace(c.op), c.p, IF c.op = "Delete" THEN len ELSE c.n, c.i, c.e)
  BY <1>4, movedTaken DEF c
<1> QED
  BY <1>1, <1>2, <1>5, Zenon DEF c

-----------------------------------------------------------------------------
(* The mutex *)

\* A goroutine whose call is where it was holds what it held.
LEMMA callKept ==
    ASSUME CallInv, NEW t \in Threads, othersStay(t),
           mutex' \in [Sessions -> Threads \union {None}], locked' \in [Sessions -> BOOLEAN],
           \A s \in Sessions : locked[s] => locked'[s],
           \A u \in Threads \ {t} : mutex[My(u)] = u => mutex'[My(u)] = u,
           CallOK(t, call[t])', LateOK(t, call[t])'
    PROVE  CallInv'
<1>1. ASSUME NEW u \in Threads \ {t} PROVE CallOK(u, call[u])' /\ LateOK(u, call[u])'
  <2>1. CallOK(u, call[u]) /\ LateOK(u, call[u]) /\ samePlace(call[u], call'[u])
    BY DEF CallInv, othersStay
  <2>2. My(u) \in Sessions
    BY SharedAssumption DEF My
  <2>3. CallOK(u, call[u])'
    BY <2>1 DEF CallOK, samePlace, sameCall
  <2>4. LateOK(u, call[u])'
    BY <2>1, <2>2 DEF LateOK, samePlace, sameCall
  <2> QED
    BY <2>3, <2>4
<1> QED
  BY <1>1 DEF CallInv

\* A goroutine that releases the mutex of its session, or sees it free, takes
\* nothing from the others.
LEMMA mutexKept ==
    ASSUME CallInv, NEW t \in Threads,
           \/ mutex[My(t)] \in {t, None} /\ \E x \in {t, None} : mutex' = [mutex EXCEPT ![My(t)] = x]
           \/ mutex' = mutex
    PROVE  /\ mutex' \in [Sessions -> Threads \union {None}]
           /\ \A u \in Threads \ {t} : mutex[My(u)] = u => mutex'[My(u)] = u
<1>1. \A u \in Threads : My(u) \in Sessions
  BY SharedAssumption DEF My
<1>2. None \notin Threads
  BY SharedAssumption
<1> QED
  BY <1>1, <1>2 DEF CallInv

\* A call that returns has nothing left to hold.
LEMMA returnCallInv ==
    ASSUME FrameInv, CallInv, NEW t \in Threads, NEW r, Return(t, r),
           call[t].at # "idle", call[t].at # "returned", mutex[My(t)] \in {t, None},
           call[t].op = "Open" /\ call[t].late => r = "ErrLocked",
           locked' \in [Sessions -> BOOLEAN], \A s \in Sessions : locked[s] => locked'[s]
    PROVE  FrameInv' /\ CallInv'
<1> DEFINE c == call[t]
           d == call'[t]
<1>1. mutex \in [Sessions -> Threads \union {None}]
  BY DEF CallInv
<1>2. /\ FrameInv' /\ othersStay(t) /\ mutex' = [mutex EXCEPT ![My(t)] = None]
      /\ d.p = None /\ d.n = None /\ d.i = 1 /\ d.e = ZeroEntry
      /\ c.op # "Open" => d = Idle /\ d.at = "idle" /\ d.op = "None" /\ ~d.late
      /\ c.op = "Open" => /\ d.op = "Open" /\ d.at = "returned" /\ d.name = c.name
                          /\ d.result = r /\ d.seen = c.seen /\ d.late = c.late
  BY <1>1, returnTaken
<1>3. CallOK(t, c)
  BY DEF CallInv
<1> HIDE DEF c, d
<1>4. CallOK(t, call[t])' /\ LateOK(t, call[t])'
  <2>1. CASE c.op = "Open"
    <3>1. c.name \in Names /\ c.op \in Does[t]
      BY <1>3, <2>1 DEF CallOK, c
    <3> QED
      BY <1>2, <1>3, <2>1, <3>1 DEF CallOK, LateOK, Reading, Writing, c, d
  <2>2. CASE c.op # "Open"
    BY <1>2, <1>3, <2>2 DEF CallOK, LateOK, Reading, Writing, d
  <2> QED
    BY <2>1, <2>2
<1>5. /\ mutex' \in [Sessions -> Threads \union {None}]
      /\ \A u \in Threads \ {t} : mutex[My(u)] = u => mutex'[My(u)] = u
  BY <1>2, mutexKept
<1> QED
  BY <1>2, <1>4, <1>5, callKept DEF d

\* CallInv survives a step that ends a call.
LEMMA idleCallInv ==
    ASSUME FrameInv, CallInv, NEW t \in Threads, FrameInv', call'[t] = Idle, othersStay(t),
           \/ mutex[My(t)] \in {t, None} /\ mutex' = [mutex EXCEPT ![My(t)] = None]
           \/ mutex' = mutex,
           locked' = locked
    PROVE  CallInv'
<1>1. CallOK(t, call[t])' /\ LateOK(t, call[t])'
  BY idleFields DEF CallOK, LateOK, Reading, Writing
<1>2. /\ mutex' \in [Sessions -> Threads \union {None}]
      /\ \A u \in Threads \ {t} : mutex[My(u)] = u => mutex'[My(u)] = u
  BY mutexKept
<1> QED
  BY <1>1, <1>2, callKept DEF CallInv

\* Where a call with op may be while it holds the mutex.
places(op) ==
    CASE op = "Open" -> Reading [] op = "Put" -> {"reading", "scan", "store"}
      [] op = "Delete" -> {"scan", "shift"} [] op = "EnrollKey" -> {"gesture"}
      [] op = "RemoveKey" -> {"remove"}

\* A call that goes on holds the mutex.
LEMMA movedCallInv ==
    ASSUME FrameInv, CallInv, NEW t \in Threads, NEW a, NEW p, NEW n, NEW i, NEW e,
           stays(t, a, p, n, i, e), call[t].at # "idle", call[t].op # "Lock",
           ~call[t].late, a \in places(call[t].op), a = "reading" => i = 1,
           \/ mutex[My(t)] = t /\ mutex' = mutex
           \/ mutex[My(t)] = None /\ mutex' = [mutex EXCEPT ![My(t)] = t],
           locked' = locked
    PROVE  FrameInv' /\ CallInv'
<1> DEFINE c == call[t]
<1>1. /\ FrameInv' /\ othersStay(t) /\ moved(c, call'[t], a, p, n, i, e)
  BY DEF stays
<1>2. CallOK(t, c)
  BY DEF CallInv
<1>3. mutex'[My(t)] = t
  BY SharedAssumption DEF CallInv, My
<1>4. c.op \in {"Open", "Put", "Delete", "EnrollKey", "RemoveKey"}
  BY <1>2 DEF CallOK, Mutators
<1> HIDE DEF c
<1>5. CallOK(t, call[t])'
  <2>1. a \in places(c.op) /\ c.at # "idle" /\ (a = "reading" => i = 1)
    BY DEF c
  <2>2. a \in Reading \union Writing
    BY <1>4, <2>1 DEF places, Reading, Writing
  <2>3. /\ a \in Reading => c.op = "Open"
        /\ a \in {"reading", "store"} => c.op = "Put"
        /\ a = "scan" => c.op \in {"Put", "Delete"}
        /\ a = "shift" => c.op = "Delete"
        /\ a = "gesture" => c.op = "EnrollKey"
        /\ a = "remove" => c.op = "RemoveKey"
    BY <1>4, <2>1 DEF places, Reading
  <2>4. a \notin {"idle", "enter", "returned"}
    BY <2>2 DEF Reading, Writing
  <2>5. /\ c.op \in Does[t] /\ c.op \in Mutators \union {"Open", "Lock"}
        /\ c.op \in {"Open", "Put", "Delete"} => c.name \in Names
        /\ c.op = "Put" => c.value \in Values
    BY <1>2, <2>1 DEF CallOK
  <2> HIDE DEF Reading, Writing
  <2> QED
    BY <1>1, <1>3, <2>1, <2>2, <2>3, <2>4, <2>5 DEF moved, sameCall, CallOK
<1>6. LateOK(t, call[t])'
  BY <1>1 DEF LateOK, moved, sameCall, c
<1>7. /\ mutex' \in [Sessions -> Threads \union {None}]
      /\ \A u \in Threads \ {t} : mutex[My(u)] = u => mutex'[My(u)] = u
  BY mutexKept
<1> QED
  BY <1>1, <1>5, <1>6, <1>7, callKept DEF CallInv

\* No step of another goroutine gets between a call and its mutex, and no read
\* that began after Lock gets past the check.
LEMMA CallStep ==
    ASSUME FrameInv, CallInv, [Next]_vars
    PROVE  FrameInv' /\ CallInv'
<1>0. \A t \in Threads : CallOK(t, call[t]) /\ LateOK(t, call[t]) /\ My(t) \in Sessions
  BY SharedAssumption DEF CallInv, My
<1>1. ASSUME NEW t \in Threads, NEW op, NEW name, NEW value, NEW slot,
             Begin(t, op, name, value, slot), op \in Mutators \union {"Open", "Lock"},
             op \in {"Open", "Put", "Delete"} => name \in Names,
             op = "Put" => value \in Values
      PROVE  FrameInv' /\ CallInv'
  <2>1. /\ FrameInv' /\ othersStay(t) /\ op \in Does[t]
        /\ call'[t].op = op /\ call'[t].at = "enter" /\ call'[t].name = name
        /\ call'[t].value = value /\ call'[t].p = None /\ call'[t].n = None
        /\ call'[t].i = 1
        /\ call'[t].late => op = "Open" /\ locked[My(t)]
    BY <1>1, beginTaken
  <2>2. UNCHANGED <<locked, mutex>>
    BY <1>1 DEF Begin
  <2>3. CallOK(t, call[t])'
    BY <1>1, <2>1 DEF CallOK, Reading, Writing
  <2>4. LateOK(t, call[t])'
    BY <2>1, <2>2 DEF LateOK
  <2> QED
    BY <2>1, <2>2, <2>3, <2>4, callKept DEF CallInv
<1>2. ASSUME NEW t \in Threads, Enter(t)
      PROVE  FrameInv' /\ CallInv'
  <2>1. call[t].at = "enter" /\ UNCHANGED locked
    BY <1>2 DEF Enter, At
  <2>2. call[t].op \in Mutators \union {"Open", "Lock"} /\ call[t].i = 1
    BY <1>0, <2>1 DEF CallOK
  <2>3. /\ call[t].op # "Lock" /\ mutex[My(t)] = None
        /\ \/ refusal(t) # "nil" /\ Return(t, refusal(t))
           \/ /\ refusal(t) = "nil" /\ mutex' = [mutex EXCEPT ![My(t)] = t]
              /\ stays(t, entryPlace(call[t].op), call[t].p,
                       IF call[t].op = "Delete" THEN len ELSE call[t].n, call[t].i, call[t].e)
    BY <1>2, <2>2, enterTaken
  <2>4. CASE refusal(t) # "nil" /\ Return(t, refusal(t))
    <3>1. call[t].late => refusal(t) = "ErrLocked"
      BY <1>0, <2>1 DEF LateOK, refusal
    <3> QED
      BY <2>1, <2>3, <2>4, <3>1, returnCallInv DEF CallInv
  <2>5. CASE refusal(t) = "nil" /\ mutex' = [mutex EXCEPT ![My(t)] = t]
    <3>1. ~call[t].late
      BY <1>0, <2>1, <2>5 DEF LateOK, refusal
    <3>2. entryPlace(call[t].op) \in places(call[t].op)
      BY <2>2, <2>3 DEF entryPlace, places, Mutators, Reading
    <3> QED
      BY <2>1, <2>2, <2>3, <2>5, <3>1, <3>2, movedCallInv
  <2> QED
    BY <2>3, <2>4, <2>5
<1>3. ASSUME NEW t \in Threads, Lock(t)
      PROVE  FrameInv' /\ CallInv'
  <2>1. /\ call[t].at = "enter" /\ call[t].op = "Lock" /\ mutex[My(t)] = None
        /\ locked' = [locked EXCEPT ![My(t)] = TRUE] /\ Return(t, None)
    BY <1>3 DEF Lock, At, mayEnter
  <2>2. /\ locked' \in [Sessions -> BOOLEAN] /\ \A s \in Sessions : locked[s] => locked'[s]
    BY <2>1 DEF CallInv
  <2> QED
    BY <2>1, <2>2, returnCallInv
<1>4. ASSUME NEW t \in Threads, Proceed(t)
      PROVE  FrameInv' /\ CallInv'
  <2> DEFINE c == call[t]
  <2>0. locked' = locked
    BY <1>4 DEF Proceed, LoadPtr, LoadLen, CopyName, CopyBox, TakeResult, ReaderEnds,
                ReaderFails, ScanPast, Replace, Append_, StoreWord, Shift, ShiftWord,
                ShiftEnds, DeleteMisses, GestureEnds, RemoveKey
  <2>1. CASE TakeResult(t)
    <3>1. mutex' = mutex
      BY <2>1 DEF TakeResult
    <3> QED
      BY <2>0, <2>1, <3>1, proceedTaken, idleCallInv
  <2>2. ASSUME c.at \in Reading \union Writing
        PROVE  mutex[My(t)] = t /\ ~c.late /\ c.at \notin {"idle", "returned", "enter"} /\ c.op # "Lock"
    BY <1>0, <2>2 DEF CallOK, LateOK, Reading, Writing
  <2>3. CASE LoadPtr(t) \/ LoadLen(t)
    <3>1. c.at = "header" /\ mutex' = mutex
      BY <2>3 DEF LoadPtr, LoadLen, At
    <3>2. c.op = "Open" /\ {"header", "name"} \subseteq places(c.op)
      BY <1>0, <3>1 DEF CallOK, Reading, places
    <3>3. c.at \in Reading
      BY <3>1 DEF Reading
    <3> QED
      BY <2>0, <2>2, <2>3, <3>1, <3>2, <3>3, proceedTaken, movedCallInv
  <2>4. CASE CopyName(t)
    <3>1. c.at = "name"
      BY <2>4 DEF CopyName, At
    <3>2. c.op = "Open" /\ "box" \in places(c.op) /\ c.at \in Reading
      BY <1>0, <3>1 DEF CallOK, Reading, places
    <3>3. \/ \E r : Return(t, r)
          \/ mutex' = mutex /\ \E e : stays(t, "box", c.p, c.n, c.i, e)
      BY <2>4, copyTaken
    <3> QED
      BY <2>0, <2>2, <3>1, <3>2, <3>3, returnCallInv, movedCallInv DEF CallInv
  <2>5. CASE CopyBox(t)
    <3>1. c.at = "box"
      BY <2>5 DEF CopyBox, At
    <3>2. c.op = "Open" /\ "name" \in places(c.op) /\ c.at \in Reading
      BY <1>0, <3>1 DEF CallOK, Reading, places
    <3>3. \/ \E r : Return(t, r)
          \/ mutex' = mutex /\ stays(t, "name", c.p, c.n, c.i + 1, ZeroEntry)
      BY <2>5, copyTaken
    <3> QED
      BY <2>0, <2>2, <3>1, <3>2, <3>3, returnCallInv, movedCallInv DEF CallInv
  <2>6. CASE ReaderEnds(t)
    <3>1. c.at = "reading" /\ mutex' = mutex
      BY <2>6 DEF ReaderEnds, At
    <3>2. "scan" \in places(c.op) /\ c.at \in Writing
      BY <1>0, <3>1 DEF CallOK, Writing, places
    <3> QED
      BY <2>0, <2>2, <2>6, <3>1, <3>2, proceedTaken, movedCallInv
  <2>7. CASE ReaderFails(t) \/ DeleteMisses(t) \/ GestureEnds(t) \/ RemoveKey(t)
    <3>1. /\ c.at \in Writing /\ c.op # "Open" /\ \E r : Return(t, r)
      BY <1>0, <2>7 DEF ReaderFails, DeleteMisses, GestureEnds, RemoveKey, At, Writing, CallOK
    <3> QED
      BY <2>0, <2>2, <3>1, returnCallInv DEF CallInv
  <2>8. CASE ScanPast(t) \/ Shift(t)
    <3>1. c.at = "scan" /\ mutex' = mutex
      BY <2>8 DEF ScanPast, Shift, At
    <3>2. "scan" \in places(c.op) /\ c.at \in Writing /\ (Shift(t) => "shift" \in places(c.op))
      BY <1>0, <3>1 DEF CallOK, Writing, places, Shift
    <3> QED
      BY <2>0, <2>2, <2>8, <3>1, <3>2, proceedTaken, movedCallInv
  <2>9. CASE Append_(t)
    <3>1. c.at = "scan" /\ mutex' = mutex /\ c.op = "Put"
      BY <2>9 DEF Append_, At
    <3>2. "store" \in places(c.op) /\ c.at \in Writing
      BY <3>1 DEF Writing, places
    <3> QED
      BY <2>0, <2>2, <2>9, <3>1, <3>2, proceedTaken, movedCallInv
  <2>10. CASE UNCHANGED <<call, mutex>>
    BY <2>0, <2>10 DEF FrameInv, CallInv, CallOK, LateOK
  <2>11. ASSUME NEW name, NEW x, Commit(t, name, x), c.at \in Writing
         PROVE  FrameInv' /\ CallInv'
    BY <2>0, <2>2, <2>11, commitTaken, idleCallInv
  <2>12. CASE Replace(t) \/ ShiftEnds(t) \/ StoreWord(t)
    <3>1. c.at \in Writing
      BY <2>12 DEF Replace, ShiftEnds, StoreWord, At, Writing
    <3>2. (\E x : Commit(t, c.name, x)) \/ UNCHANGED <<call, mutex>>
      BY <2>12 DEF Replace, ShiftEnds, StoreWord
    <3> QED
      BY <2>10, <2>11, <3>1, <3>2
  <2>13. CASE ShiftWord(t)
    <3>1. c.at = "shift" /\ mutex' = mutex
      BY <2>13 DEF ShiftWord, At
    <3>2. \/ call' = call
          \/ Step(t, [c EXCEPT !.i = @ + 1])
      BY <2>13 DEF ShiftWord
    <3>3. CASE call' = call
      BY <2>10, <3>1, <3>3
    <3>4. CASE Step(t, [c EXCEPT !.i = @ + 1])
      <4>1. IsFrame(c)
        BY DEF FrameInv
      <4>2. moved(c, [c EXCEPT !.i = @ + 1], c.at, c.p, c.n, c.i + 1, c.e)
        BY <4>1, updates
      <4>3. stays(t, c.at, c.p, c.n, c.i + 1, c.e)
        BY <3>4, <4>2, movedTaken
      <4>4. c.at \in Writing /\ c.at \in places(c.op)
        BY <1>0, <3>1 DEF Writing, places, CallOK
      <4> QED
        BY <2>0, <2>2, <3>1, <4>3, <4>4, movedCallInv
    <3> QED
      BY <3>2, <3>3, <3>4
  <2> QED
    BY <1>4, <2>1, <2>3, <2>4, <2>5, <2>6, <2>7, <2>8, <2>9, <2>12, <2>13 DEF Proceed
<1>5. CASE UNCHANGED vars
  BY <1>5 DEF vars, FrameInv, CallInv, CallOK, LateOK
<1>6. ASSUME NEW t \in Threads, BeginEnroll(t)
      PROVE  FrameInv' /\ CallInv'
  BY <1>1, <1>6 DEF BeginEnroll, Mutators
<1> QED
  BY <1>1, <1>2, <1>3, <1>4, <1>5, <1>6 DEF Next, Mutators

\* Frames are well formed, and each call is where CallInv says.
LEMMA CallInvariant == Spec => [](FrameInv /\ CallInv)
<1>1. Init => FrameInv /\ CallInv
  BY idleFields DEF Init, FrameInv, CallInv, CallOK, LateOK, Reading, Writing
<1>2. (FrameInv /\ CallInv) /\ [Next]_vars => (FrameInv /\ CallInv)'
  BY CallStep
<1> QED
  BY <1>1, <1>2, PTL DEF Spec

\* A read that starts once Lock has returned yields no plaintext, whatever the
\* other goroutines and sessions do.
THEOREM LockedStaysLocked == Spec => []NoReadAfterLock
<1>1. CallInv => NoReadAfterLock
  BY SharedAssumption DEF CallInv, LateOK, NoReadAfterLock, At
<1> QED
  BY <1>1, CallInvariant, PTL

-----------------------------------------------------------------------------
(* Slices *)

\* The relation of an array and a map depends on the elements it speaks of alone.
LEMMA listsSame ==
    ASSUME NEW a, NEW b, NEW I, NEW h, lists(a, I, h), \A j \in I : b[j] = a[j]
    PROVE  lists(b, I, h)
BY DEF lists

\* Put replaces an entry.
LEMMA listsReplace ==
    ASSUME NEW a, NEW b, NEW n \in Nat, NEW i \in 1..n, NEW h \in [Names -> Values \union {None}],
           NEW x \in Names, NEW v \in Values, lists(a, 1..n, h), a[i].name = x,
           b[i] = entry(x, v), \A j \in (1..n) \ {i} : b[j] = a[j]
    PROVE  lists(b, 1..n, [h EXCEPT ![x] = v])
<1> DEFINE g == [h EXCEPT ![x] = v]
<1>1. v # None /\ b[i].name = x
  BY SharedAssumption DEF entry
<1>2. \A j \in (1..n) \ {i} : a[j].name # x
  BY DEF lists
<1>3. g[x] = v /\ \A y \in Names \ {x} : g[y] = h[y]
  OBVIOUS
<1>4. \A j \in 1..n : b[j].name = a[j].name
  BY <1>1
<1> HIDE DEF g
<1>5. \A j, k \in 1..n : b[j].name = b[k].name => j = k
  BY <1>4 DEF lists
<1>6. \A j \in 1..n : /\ b[j].name \in Names /\ g[b[j].name] # None
                      /\ b[j] = entry(b[j].name, g[b[j].name])
  BY <1>1, <1>2, <1>3, <1>4 DEF lists
<1>7. \A y \in Names : g[y] # None => \E j \in 1..n : b[j].name = y
  BY <1>1, <1>3, <1>4 DEF lists
<1> QED
  BY <1>5, <1>6, <1>7 DEF lists, g

\* Put appends an entry.
LEMMA listsAppend ==
    ASSUME NEW a, NEW b, NEW n \in Nat, NEW h \in [Names -> Values \union {None}],
           NEW x \in Names, NEW v \in Values, lists(a, 1..n, h),
           \A j \in 1..n : a[j].name # x /\ b[j] = a[j], b[n + 1] = entry(x, v)
    PROVE  lists(b, 1..(n + 1), [h EXCEPT ![x] = v])
<1> DEFINE g == [h EXCEPT ![x] = v]
<1>1. v # None /\ b[n + 1].name = x
  BY SharedAssumption DEF entry
<1>2. g[x] = v /\ \A y \in Names \ {x} : g[y] = h[y]
  OBVIOUS
<1>3. \A j \in 1..(n + 1) : j = n + 1 \/ j \in 1..n
  OBVIOUS
<1>4. n + 1 \in 1..(n + 1) /\ \A j \in 1..n : j \in 1..(n + 1)
  OBVIOUS
<1> HIDE DEF g
<1>5. \A j, k \in 1..(n + 1) : b[j].name = b[k].name => j = k
  BY <1>1, <1>3 DEF lists
<1>6. \A j \in 1..(n + 1) : /\ b[j].name \in Names /\ g[b[j].name] # None
                            /\ b[j] = entry(b[j].name, g[b[j].name])
  BY <1>1, <1>2, <1>3 DEF lists
<1>7. \A y \in Names : g[y] # None => \E j \in 1..(n + 1) : b[j].name = y
  BY <1>1, <1>2, <1>4 DEF lists
<1> QED
  BY <1>5, <1>6, <1>7 DEF lists, g

\* Without the entry that Delete has found, the rest is the rest.
LEMMA listsWithout ==
    ASSUME NEW a, NEW I, NEW i \in I, NEW h \in [Names -> Values \union {None}],
           NEW x \in Names, lists(a, I, h), a[i].name = x
    PROVE  lists(a, I \ {i}, [h EXCEPT ![x] = None])
BY DEF lists

\* The element behind the gap moves into it.
LEMMA listsShift ==
    ASSUME NEW a, NEW b, NEW n \in Nat, NEW i \in 1..(n - 1), NEW h,
           lists(a, (1..n) \ {i}, h), b[i] = a[i + 1],
           \A j \in (1..n) \ {i} : b[j] = a[j]
    PROVE  lists(b, (1..n) \ {i + 1}, h)
<1> DEFINE I == (1..n) \ {i}
           J == (1..n) \ {i + 1}
           from(j) == IF j = i THEN i + 1 ELSE j
<1>1. \A j \in J : from(j) \in I /\ b[j] = a[from(j)]
  OBVIOUS
<1>2. \A j, k \in J : from(j) = from(k) => j = k
  OBVIOUS
<1>3. \A j \in I : \E k \in J : from(k) = j
  <2> TAKE j \in I
  <2>1. CASE j = i + 1
    <3>1. i \in J /\ from(i) = j
      BY <2>1
    <3> QED
      BY <3>1
  <2>2. CASE j # i + 1
    <3>1. j \in J /\ from(j) = j
      BY <2>2
    <3> QED
      BY <3>1
  <2> QED
    BY <2>1, <2>2
<1>4. lists(a, I, h)
  OBVIOUS
<1> HIDE DEF I, J, from
<1>5. lists(b, J, h)
  BY <1>1, <1>2, <1>3, <1>4 DEF lists
<1> QED
  BY <1>5 DEF J

\* There are no more entries than names.
LEMMA listsBound ==
    ASSUME NEW a, NEW n \in Nat, NEW h, lists(a, 1..n, h)
    PROVE  n <= Cardinality(Names)
<1> DEFINE f == [i \in 1..n |-> a[i].name]
<1>1. f \in [1..n -> Names] /\ \A i, j \in 1..n : f[i] = f[j] => i = j
  BY DEF lists
<1>2. IsFiniteSet(1..n) /\ Cardinality(1..n) = n
  BY FS_Interval
<1>3. IsFiniteSet(Names) /\ Cardinality(Names) \in Nat
  BY SharedAssumption, FS_CardinalityType
<1>4. ~(Cardinality(Names) < n)
  <2> SUFFICES ASSUME Cardinality(Names) < n PROVE FALSE
    OBVIOUS
  <2>1. Cardinality(Names) < Cardinality(1..n)
    BY <1>2
  <2> HIDE DEF f
  <2>2. \E x, y \in 1..n : x # y /\ f[x] = f[y]
    BY <1>1, <1>2, <1>3, <2>1, FS_PigeonHole
  <2> QED
    BY <1>1, <2>2
<1> QED
  BY <1>3, <1>4

-----------------------------------------------------------------------------
(* One writer at a time *)

\* Under AdminSerialized at most one call writes.
LEMMA writerAlone ==
    ASSUME AdminSerialized, CallInv, NEW t \in Threads, NEW u \in Threads,
           call[t].at \in Writing, call[u].at \in Writing
    PROVE  t = u
<1>1. ASSUME NEW w \in Threads, call[w].at \in Writing
      PROVE  Does[w] \cap Mutators # {} /\ mutex[My(w)] = w
  <2>1. CallOK(w, call[w])
    BY DEF CallInv
  <2>2. call[w].op \in Does[w] /\ call[w].op \in Mutators
    BY <1>1, <2>1 DEF CallOK, Writing, Mutators
  <2> QED
    BY <1>1, <2>1, <2>2 DEF CallOK
<1>2. My(t) = My(u)
  BY <1>1 DEF AdminSerialized
<1> QED
  BY <1>1, <1>2

\* While one call writes, nobody else does.
LEMMA othersRead ==
    ASSUME AdminSerialized, CallInv, NEW t \in Threads, call[t].at \in Writing, othersStay(t)
    PROVE  \A u \in Threads \ {t} : SliceOK(u, call[u])' /\ call'[u].at \notin {"store", "shift"}
<1> TAKE u \in Threads \ {t}
<1>1. call[u].at \notin Writing
  BY writerAlone
<1>2. call'[u].at = call[u].at
  BY DEF othersStay, samePlace
<1> QED
  BY <1>1, <1>2 DEF SliceOK, Writing

\* Steps that leave the slice alone.
LEMMA sliceKept ==
    ASSUME SliceInv, NEW t \in Threads, othersStay(t), UNCHANGED <<arrays, ptr, len, content>>,
           SliceOK(t, call[t])', call[t].at \in {"store", "shift"} => call'[t].at = call[t].at
    PROVE  SliceInv'
<1>1. ASSUME NEW u \in Threads \ {t} PROVE SliceOK(u, call[u])' /\ call'[u].at = call[u].at
  <2>1. SliceOK(u, call[u]) /\ samePlace(call[u], call'[u])
    BY DEF SliceInv, othersStay
  <2> QED
    BY <2>1 DEF SliceOK, samePlace, sameCall
<1> QED
  BY <1>1 DEF SliceInv

\* A call that writes nothing passes only what has another name.
LEMMA SliceStepIdle ==
    ASSUME FrameInv, CallInv, SliceInv, NEW t \in Threads,
           \/ \E op, name, value, slot : Begin(t, op, name, value, slot)
           \/ Enter(t) \/ Lock(t) \/ LoadPtr(t) \/ LoadLen(t) \/ CopyName(t) \/ CopyBox(t)
           \/ TakeResult(t) \/ ReaderEnds(t) \/ ReaderFails(t) \/ ScanPast(t)
           \/ DeleteMisses(t) \/ GestureEnds(t) \/ RemoveKey(t)
    PROVE  SliceInv'
<1> DEFINE c == call[t]
           out == {"idle", "enter", "header", "name", "box", "returned", "reading",
                   "gesture", "remove"}
<1>0. /\ SliceOK(t, c) /\ CallOK(t, c) /\ mutex \in [Sessions -> Threads \union {None}]
      /\ len \in Nat
  <2>1. Cardinality(Names) \in Nat
    BY SharedAssumption, FS_CardinalityType
  <2> QED
    BY <2>1 DEF SliceInv, CallInv
<1>1. UNCHANGED <<arrays, ptr, len, content>>
  BY DEF Begin, Enter, Lock, LoadPtr, LoadLen, CopyName, CopyBox, TakeResult, ReaderEnds,
         ReaderFails, ScanPast, DeleteMisses, GestureEnds, RemoveKey, secretWords
<1>2. c.at \notin {"store", "shift"}
  BY DEF Begin, Enter, Lock, LoadPtr, LoadLen, CopyName, CopyBox, TakeResult, ReaderEnds,
         ReaderFails, ScanPast, DeleteMisses, GestureEnds, RemoveKey, At
<1>3. ASSUME othersStay(t), call'[t].at \in out PROVE SliceInv'
  <2>1. SliceOK(t, call[t])'
    BY <1>3 DEF SliceOK
  <2> QED
    BY <1>1, <1>2, <1>3, <2>1, sliceKept
<1>4. ASSUME NEW r, Return(t, r) PROVE SliceInv'
  <2>1. othersStay(t) /\ call'[t].at \in {"idle", "returned"}
    BY <1>0, <1>4, returnTaken
  <2> QED
    BY <1>3, <2>1
<1>5. ASSUME NEW a, NEW p, NEW n, NEW i, NEW e, stays(t, a, p, n, i, e), a \in out
      PROVE  SliceInv'
  BY <1>3, <1>5 DEF stays, moved
<1>6. ASSUME NEW p, NEW i, NEW e, stays(t, "scan", p, len, i, e), i \in 1..(len + 1),
             \A j \in 1..(i - 1) : arrays[ptr][j].name # c.name
      PROVE  SliceInv'
  <2>1. SliceOK(t, call[t])'
    BY <1>1, <1>6 DEF SliceOK, stays, moved, sameCall
  <2> QED
    BY <1>1, <1>2, <1>6, <2>1, sliceKept DEF stays
<1>7. CASE \E op, name, value, slot : Begin(t, op, name, value, slot)
  BY <1>3, <1>7, beginTaken
<1>8. CASE Enter(t)
  <2>1. c.at = "enter" /\ c.op # "Lock"
    BY <1>8 DEF Enter, At
  <2>2. c.op \in Mutators \union {"Open", "Lock"} /\ c.i = 1
    BY <1>0, <2>1 DEF CallOK
  <2>3. \/ \E r : Return(t, r)
        \/ stays(t, entryPlace(c.op), c.p, IF c.op = "Delete" THEN len ELSE c.n, c.i, c.e)
    BY <1>8, <2>2, enterTaken
  <2>4. CASE c.op = "Delete"
    <3>1. entryPlace(c.op) = "scan"
      BY <2>4 DEF entryPlace
    <3> QED
      BY <1>0, <1>4, <1>6, <2>2, <2>3, <2>4, <3>1
  <2>5. CASE c.op # "Delete"
    <3>1. entryPlace(c.op) \in out
      BY <2>1, <2>2, <2>5 DEF entryPlace, Mutators
    <3> QED
      BY <1>4, <1>5, <2>3, <3>1
  <2> QED
    BY <2>4, <2>5
<1>9. CASE Lock(t) \/ ReaderFails(t) \/ DeleteMisses(t) \/ GestureEnds(t) \/ RemoveKey(t)
  BY <1>4, <1>9 DEF Lock, ReaderFails, DeleteMisses, GestureEnds, RemoveKey
<1>10. CASE LoadPtr(t) \/ LoadLen(t)
  BY <1>5, <1>10, proceedTaken
<1>11. CASE CopyName(t) \/ CopyBox(t)
  <2>1. \/ \E r : Return(t, r)
        \/ \E a \in {"box", "name"} : \E p, n, i, e : stays(t, a, p, n, i, e)
    BY <1>11, copyTaken
  <2> QED
    BY <1>4, <1>5, <2>1
<1>12. CASE TakeResult(t)
  BY <1>3, <1>12, proceedTaken, idleFields
<1>13. CASE ReaderEnds(t)
  <2>1. c.i = 1
    BY <1>0, <1>13 DEF CallOK, ReaderEnds, At
  <2> QED
    BY <1>0, <1>6, <1>13, <2>1, proceedTaken
<1>14. CASE ScanPast(t)
  <2>1. /\ c.at = "scan" /\ c.i <= c.n /\ arrays[ptr][c.i].name # c.name
    BY <1>14 DEF ScanPast, At
  <2>2. /\ c.n = len /\ c.i \in 1..(len + 1)
        /\ \A j \in 1..(c.i - 1) : arrays[ptr][j].name # c.name
    BY <1>0, <2>1 DEF SliceOK
  <2> DEFINE next == c.i + 1
  <2>3. stays(t, "scan", c.p, len, next, c.e)
    BY <1>14, <2>1, <2>2, proceedTaken
  <2>4. next \in 1..(len + 1) /\ \A j \in 1..(next - 1) : arrays[ptr][j].name # c.name
    BY <1>0, <2>1, <2>2
  <2> HIDE DEF next
  <2> QED
    BY <1>6, <2>3, <2>4
<1> QED
  BY <1>7, <1>8, <1>9, <1>10, <1>11, <1>12, <1>13, <1>14

\* The elements of the slice, and its arrays.
LEMMA arrayFacts ==
    ASSUME SliceInv
    PROVE  /\ Cardinality(Names) \in Nat /\ len \in Nat
           /\ ptr \in 1..Len(arrays) /\ Len(arrays) \in Nat
           /\ \A k \in 1..Len(arrays) : /\ arrays[k] \in Seq(Entries) /\ Len(arrays[k]) \in Nat
                                        /\ DOMAIN arrays[k] = 1..Len(arrays[k])
           /\ DOMAIN arrays = 1..Len(arrays)
<1>1. Cardinality(Names) \in Nat
  BY SharedAssumption, FS_CardinalityType
<1>2. arrays \in Seq(Seq(Entries)) /\ ptr \in DOMAIN arrays /\ len \in 0..Cardinality(Names)
  BY DEF SliceInv
<1> HIDE DEF Entries
<1> QED
  BY <1>1, <1>2

\* A new element in one of the arrays.
LEMMA arraysExcept ==
    ASSUME NEW A \in Seq(Seq(Entries)), NEW k \in 1..Len(A), NEW i \in 1..Len(A[k]),
           NEW e \in Entries
    PROVE  LET B == [A EXCEPT ![k][i] = e]
           IN /\ B \in Seq(Seq(Entries)) /\ Len(B) = Len(A) /\ Len(B[k]) = Len(A[k])
              /\ DOMAIN B = DOMAIN A
              /\ B[k][i] = e /\ \A j \in 1..Len(A[k]) : j # i => B[k][j] = A[k][j]
<1> DEFINE B == [A EXCEPT ![k][i] = e]
<1> HIDE DEF Entries
<1>1. A[k] \in Seq(Entries)
  OBVIOUS
<1>2. B = [A EXCEPT ![k] = [A[k] EXCEPT ![i] = e]]
  OBVIOUS
<1>3. [A[k] EXCEPT ![i] = e] \in Seq(Entries) /\ Len([A[k] EXCEPT ![i] = e]) = Len(A[k])
  BY <1>1
<1>4. B \in Seq(Seq(Entries)) /\ Len(B) = Len(A) /\ DOMAIN B = DOMAIN A
      /\ B[k] = [A[k] EXCEPT ![i] = e]
  BY <1>2, <1>3
<1> QED
  BY <1>1, <1>3, <1>4

\* Put over an existing name keeps SliceInv.
LEMMA replaceSlice ==
    ASSUME AdminSerialized, FrameInv, CallInv, SliceInv, NEW t \in Threads, Replace(t)
    PROVE  SliceInv'
<1> DEFINE c == call[t]
           a == arrays[ptr]
<1>1. /\ c.at = "scan" /\ c.op = "Put" /\ c.i <= c.n /\ a[c.i].name = c.name
      /\ arrays' = [arrays EXCEPT ![ptr][c.i] = entry(c.name, c.value)]
      /\ Commit(t, c.name, c.value) /\ UNCHANGED <<ptr, len>>
  BY DEF Replace, At
<1>2. c.n = len /\ c.i \in 1..len /\ c.name \in Names /\ c.value \in Values /\ c.at \in Writing
  <2>1. SliceOK(t, c) /\ CallOK(t, c)
    BY DEF SliceInv, CallInv
  <2>2. c.n = len /\ c.i \in 1..(len + 1)
    BY <1>1, <2>1 DEF SliceOK
  <2> QED
    BY <1>1, <2>1, <2>2, arrayFacts DEF CallOK, Writing
<1>3. /\ call'[t] = Idle /\ othersStay(t) /\ content' = [content EXCEPT ![c.name] = c.value]
  BY <1>1, commitTaken
<1>4. \A u \in Threads : call[u].at \notin {"store", "shift"}
  BY <1>1, <1>2, writerAlone DEF Writing
<1>5. len <= Len(a) /\ lists(a, 1..len, content) /\ content \in [Names -> Values \union {None}]
  BY <1>4 DEF SliceInv
<1>6. entry(c.name, c.value) \in Entries
  BY <1>2 DEF entry, Entries
<1>7. arrays \in Seq(Seq(Entries)) /\ ptr \in 1..Len(arrays) /\ c.i \in 1..Len(a) /\ len \in Nat
  BY <1>2, <1>5, arrayFacts DEF SliceInv
<1> HIDE DEF c
<1>8. /\ arrays' \in Seq(Seq(Entries)) /\ DOMAIN arrays' = DOMAIN arrays
      /\ Len(arrays'[ptr]) = Len(a)
      /\ arrays'[ptr][c.i] = entry(c.name, c.value)
      /\ \A j \in 1..Len(a) : j # c.i => arrays'[ptr][j] = a[j]
  BY <1>1, <1>6, <1>7, arraysExcept
<1>9. lists(arrays'[ptr], 1..len, content')
  <2>1. \A j \in (1..len) \ {c.i} : arrays'[ptr][j] = a[j]
    BY <1>5, <1>7, <1>8, arrayFacts
  <2>2. a[c.i].name = c.name
    BY <1>1
  <2> DEFINE b == arrays'[ptr]
  <2>3. b[c.i] = entry(c.name, c.value) /\ \A j \in (1..len) \ {c.i} : b[j] = a[j]
    BY <1>8, <2>1
  <2> HIDE DEF a, b
  <2>4. lists(b, 1..len, [content EXCEPT ![c.name] = c.value])
    BY <1>2, <1>5, <1>7, <2>2, <2>3, listsReplace
  <2> QED
    BY <1>3, <2>4 DEF b
<1>10. content' \in [Names -> Values \union {None}]
  BY <1>2, <1>3, <1>5
<1>11. SliceOK(t, call[t])'
  BY <1>3, idleFields DEF SliceOK
<1>12. \A u \in Threads : SliceOK(u, call[u])'
  BY <1>2, <1>3, <1>11, othersRead DEF c
<1> QED
  BY <1>1, <1>5, <1>8, <1>9, <1>10, <1>12 DEF SliceInv

\* What holds when a call that scans acts on the slice.
LEMMA scanFacts ==
    ASSUME AdminSerialized, CallInv, SliceInv, NEW t \in Threads, call[t].at = "scan"
    PROVE  LET c == call[t]
           IN /\ c.at \in Writing /\ c.name \in Names
              /\ c.op = "Put" => c.value \in Values
              /\ c.n = len /\ c.i \in 1..(len + 1)
              /\ \A j \in 1..(c.i - 1) : arrays[ptr][j].name # c.name
              /\ len <= Len(arrays[ptr]) /\ lists(arrays[ptr], 1..len, content)
              /\ content \in [Names -> Values \union {None}]
<1>1. SliceOK(t, call[t]) /\ CallOK(t, call[t])
  BY DEF SliceInv, CallInv
<1>2. call[t].at \in Writing
  BY DEF Writing
<1>3. \A u \in Threads : call[u].at \notin {"store", "shift"}
  BY <1>2, writerAlone DEF Writing
<1> QED
  BY <1>1, <1>2, <1>3 DEF SliceInv, SliceOK, CallOK

\* Put of a new name, into the tail or a grown array, keeps SliceInv.
LEMMA appendSlice ==
    ASSUME AdminSerialized, FrameInv, CallInv, SliceInv, NEW t \in Threads, Append_(t)
    PROVE  SliceInv'
<1> DEFINE c == call[t]
           old == arrays[ptr]
           new == entry(c.name, c.value)
           q == IF len < Len(old) THEN ptr ELSE Len(arrays) + 1
           m == IF len = 0 THEN 1 ELSE 2 * len
           grown == [i \in 1..m |-> IF i <= len THEN old[i] ELSE IF i = len + 1 THEN new ELSE ZeroEntry]
<1>1. /\ c.at = "scan" /\ c.op = "Put" /\ c.i > c.n /\ UNCHANGED <<ptr, len, content>>
      /\ len < Len(old) => arrays' = [arrays EXCEPT ![ptr][len + 1] = new]
      /\ ~(len < Len(old)) => arrays' = Append(arrays, grown)
  BY DEF Append_, At
<1>2. /\ c.at \in Writing /\ c.name \in Names /\ c.value \in Values
      /\ c.n = len /\ c.i \in 1..(len + 1)
      /\ \A j \in 1..(c.i - 1) : old[j].name # c.name
      /\ len <= Len(old) /\ lists(old, 1..len, content)
      /\ content \in [Names -> Values \union {None}]
  BY <1>1, scanFacts
<1>3. stays(t, "store", q, len + 1, c.i, c.e)
  BY proceedTaken
<1>4. /\ len \in Nat /\ Len(arrays) \in Nat /\ ptr \in 1..Len(arrays) /\ DOMAIN arrays = 1..Len(arrays)
      /\ arrays \in Seq(Seq(Entries)) /\ old \in Seq(Entries) /\ Len(old) \in Nat
      /\ Cardinality(Names) \in Nat /\ len \in 0..Cardinality(Names)
  BY arrayFacts DEF SliceInv
<1>5. new \in Entries /\ ZeroEntry \in Entries
  BY <1>2 DEF entry, ZeroEntry, Entries
<1>6. \A j \in 1..len : old[j].name # c.name
  <2>1. c.i \in 1..(len + 1) /\ c.i > len /\ len \in Nat
    BY <1>1, <1>2, <1>4
  <2>2. c.i - 1 = len
    <3> HIDE DEF c
    <3> QED
      BY <2>1
  <2> QED
    BY <1>2, <2>2
<1> HIDE DEF c, new, old
<1>7. /\ arrays' \in Seq(Seq(Entries)) /\ ptr \in DOMAIN arrays' /\ q \in DOMAIN arrays'
      /\ len + 1 <= Len(arrays'[q]) /\ arrays'[q][len + 1] = new
      /\ \A j \in 1..len : arrays'[q][j] = old[j]
  <2>1. CASE len < Len(old)
    <3>1. len + 1 \in 1..Len(arrays[ptr]) /\ arrays' = [arrays EXCEPT ![ptr][len + 1] = new] /\ q = ptr
      BY <1>1, <1>4, <2>1 DEF old
    <3>2. /\ arrays' \in Seq(Seq(Entries)) /\ Len(arrays'[ptr]) = Len(arrays[ptr])
          /\ DOMAIN arrays' = DOMAIN arrays
          /\ arrays'[ptr][len + 1] = new
          /\ \A j \in 1..Len(arrays[ptr]) : j # len + 1 => arrays'[ptr][j] = arrays[ptr][j]
      BY <1>4, <1>5, <3>1, arraysExcept
    <3>3. \A j \in 1..len : j \in 1..Len(arrays[ptr]) /\ j # len + 1
      BY <1>4, <2>1 DEF old
    <3>4. \A j \in 1..len : arrays'[ptr][j] = arrays[ptr][j]
      BY <3>2, <3>3
    <3>5. len + 1 <= Len(arrays'[ptr])
      BY <1>4, <2>1, <3>2 DEF old
    <3> HIDE DEF q
    <3> QED
      BY <1>4, <3>1, <3>2, <3>4, <3>5 DEF old
  <2>2. CASE ~(len < Len(old))
    <3>1. q = Len(arrays) + 1 /\ arrays' = Append(arrays, grown)
      BY <1>1, <2>2
    <3>2. m \in Nat /\ len + 1 <= m
      BY <1>4
    <3> HIDE DEF m, q
    <3>3. grown \in Seq(Entries) /\ Len(grown) = m
      <4> HIDE DEF Entries
      <4>1. \A i \in 1..len : old[i] \in Entries
        BY <1>2, <1>4
      <4>2. \A i \in 1..m : (IF i <= len THEN old[i] ELSE IF i = len + 1 THEN new ELSE ZeroEntry) \in Entries
        BY <1>4, <1>5, <3>2, <4>1
      <4>3. grown \in [1..m -> Entries]
        BY <4>2
      <4> QED
        BY <3>2, <4>3
    <3>4. grown[len + 1] = new /\ \A j \in 1..len : grown[j] = old[j]
      BY <1>4, <3>2
    <3> HIDE DEF grown, Entries
    <3>5. /\ arrays' \in Seq(Seq(Entries)) /\ Len(arrays') = Len(arrays) + 1
          /\ arrays'[Len(arrays) + 1] = grown
      BY <1>4, <3>1, <3>3
    <3>6. DOMAIN arrays' = 1..(Len(arrays) + 1)
      BY <1>4, <3>5
    <3> QED
      BY <1>4, <3>1, <3>2, <3>3, <3>4, <3>5, <3>6
  <2> QED
    BY <2>1, <2>2
<1> HIDE DEF q, grown, m
<1>8. lists(arrays'[q], 1..(len + 1), [content EXCEPT ![c.name] = c.value])
  <2> DEFINE b == arrays'[q]
  <2>1. b[len + 1] = entry(c.name, c.value) /\ \A j \in 1..len : old[j].name # c.name /\ b[j] = old[j]
    BY <1>6, <1>7 DEF new
  <2> HIDE DEF b
  <2>2. lists(b, 1..(len + 1), [content EXCEPT ![c.name] = c.value])
    BY <1>2, <1>4, <2>1, listsAppend
  <2> QED
    BY <2>2 DEF b
<1>9. len + 1 \in 1..Cardinality(Names)
  <2>1. len + 1 \in Nat
    BY <1>4
  <2>2. len + 1 <= Cardinality(Names)
    BY <1>8, <2>1, listsBound
  <2> QED
    BY <1>4, <2>2
<1>10. SliceOK(t, call[t])'
  <2>1. /\ call'[t].at = "store" /\ call'[t].p = q /\ call'[t].n = len + 1
        /\ call'[t].name = c.name /\ call'[t].value = c.value
    BY <1>3 DEF stays, moved, sameCall, c
  <2> QED
    BY <1>1, <1>7, <1>8, <1>9, <2>1 DEF SliceOK
<1>11. \A u \in Threads : SliceOK(u, call[u])'
  BY <1>2, <1>3, <1>10, othersRead DEF stays, c
<1>12. call'[t].at = "store"
  BY <1>3 DEF stays, moved
<1> QED
  BY <1>1, <1>2, <1>4, <1>7, <1>11, <1>12 DEF SliceInv

\* The new header is complete when both words are stored, and what it describes
\* is not collected before.
LEMMA storeSlice ==
    ASSUME AdminSerialized, FrameInv, CallInv, SliceInv, NEW t \in Threads, StoreWord(t)
    PROVE  SliceInv'
<1> DEFINE c == call[t]
           g == [content EXCEPT ![c.name] = c.value]
<1>1. c.at = "store" /\ c.at \in Writing
  BY DEF StoreWord, At, Writing
<1>2. /\ c.p \in DOMAIN arrays /\ c.n \in 1..Cardinality(Names) /\ c.n <= Len(arrays[c.p])
      /\ lists(arrays[c.p], 1..c.n, g)
      /\ c.name \in Names /\ c.value \in Values
  <2>1. SliceOK(t, c) /\ CallOK(t, c)
    BY DEF SliceInv, CallInv
  <2> QED
    BY <1>1, <2>1 DEF SliceOK, CallOK
<1>3. /\ arrays \in Seq(Seq(Entries)) /\ ptr \in DOMAIN arrays /\ len \in 0..Cardinality(Names)
      /\ content \in [Names -> Values \union {None}] /\ DOMAIN arrays = 1..Len(arrays)
  BY arrayFacts DEF SliceInv
<1>4. \/ ptr # c.p /\ ptr' = c.p /\ arrays' = collected(t) /\ len' = len
      \/ len # c.n /\ len' = c.n /\ arrays' = arrays /\ ptr' = ptr
  BY DEF StoreWord
<1>5. \/ ptr' = c.p /\ len' = c.n /\ Commit(t, c.name, c.value)
      \/ ~(ptr' = c.p /\ len' = c.n) /\ UNCHANGED <<call, mutex, content>>
  BY DEF StoreWord
<1> HIDE DEF c
<1>6. /\ arrays' \in Seq(Seq(Entries)) /\ DOMAIN arrays' = DOMAIN arrays
      /\ arrays'[c.p] = arrays[c.p]
  <2>1. CASE arrays' = arrays
    BY <1>3, <2>1
  <2>2. CASE arrays' = [arrays EXCEPT ![ptr] = <<>>] /\ ptr # c.p
    <3>1. <<>> \in Seq(Entries)
      OBVIOUS
    <3> HIDE DEF Entries
    <3> QED
      BY <1>2, <1>3, <2>2, <3>1
  <2> QED
    BY <1>4, <2>1, <2>2 DEF collected
<1>7. ptr' \in DOMAIN arrays' /\ len' \in 0..Cardinality(Names)
  BY <1>2, <1>3, <1>4, <1>6, arrayFacts
<1>8. CASE ptr' = c.p /\ len' = c.n /\ Commit(t, c.name, c.value)
  <2>1. call'[t] = Idle /\ othersStay(t) /\ content' = g
    BY <1>8, commitTaken
  <2>2. content' \in [Names -> Values \union {None}]
    BY <1>2, <1>3, <2>1
  <2>3. SliceOK(t, call[t])'
    BY <2>1, idleFields DEF SliceOK
  <2>4. \A u \in Threads : SliceOK(u, call[u])'
    BY <1>1, <2>1, <2>3, othersRead DEF c
  <2> HIDE DEF g
  <2> QED
    BY <1>2, <1>6, <1>7, <1>8, <2>1, <2>2, <2>4 DEF SliceInv
<1>9. CASE UNCHANGED <<call, mutex, content>>
  <2>1. othersStay(t)
    BY <1>9 DEF FrameInv, othersStay, samePlace, sameCall
  <2>2. SliceOK(t, call[t])'
    BY <1>1, <1>2, <1>6, <1>9 DEF SliceOK, c
  <2>3. \A u \in Threads : SliceOK(u, call[u])'
    BY <1>1, <2>1, <2>2, othersRead DEF c
  <2>4. call'[t].at = "store"
    BY <1>1, <1>9 DEF c
  <2> HIDE DEF g
  <2> QED
    BY <1>3, <1>6, <1>7, <1>9, <2>3, <2>4 DEF SliceInv
<1> QED
  BY <1>5, <1>8, <1>9

\* Delete has found its entry.
LEMMA shiftSlice ==
    ASSUME AdminSerialized, FrameInv, CallInv, SliceInv, NEW t \in Threads, Shift(t)
    PROVE  SliceInv'
<1> DEFINE c == call[t]
<1>1. /\ c.at = "scan" /\ c.i <= c.n /\ arrays[ptr][c.i].name = c.name
      /\ UNCHANGED <<arrays, ptr, len, content>>
  BY DEF Shift, At, secretWords
<1>2. /\ c.name \in Names /\ c.n = len /\ c.i \in 1..(len + 1)
      /\ len <= Len(arrays[ptr]) /\ lists(arrays[ptr], 1..len, content)
      /\ content \in [Names -> Values \union {None}]
  BY <1>1, scanFacts
<1>3. stays(t, "shift", c.p, c.n, c.i, c.e)
  BY proceedTaken
<1>4. c.i \in 1..len
  BY <1>1, <1>2, arrayFacts
<1> HIDE DEF c
<1>5. lists(arrays[ptr], (1..len) \ {c.i}, [content EXCEPT ![c.name] = None])
  BY <1>1, <1>2, <1>4, listsWithout
<1>6. SliceOK(t, call[t])'
  <2>1. /\ call'[t].at = "shift" /\ call'[t].n = c.n /\ call'[t].i = c.i
        /\ call'[t].name = c.name
    BY <1>3 DEF stays, moved, sameCall, c
  <2> QED
    BY <1>1, <1>2, <1>4, <1>5, <2>1 DEF SliceOK
<1> QED
  BY <1>1, <1>3, <1>6, sliceKept DEF stays, c

\* Delete's last store, of the new length, keeps SliceInv.
LEMMA shiftEndsSlice ==
    ASSUME AdminSerialized, FrameInv, CallInv, SliceInv, NEW t \in Threads, ShiftEnds(t)
    PROVE  SliceInv'
<1> DEFINE c == call[t]
           g == [content EXCEPT ![c.name] = None]
<1>1. /\ c.at = "shift" /\ c.i > c.n - 1 /\ len' = c.n - 1 /\ Commit(t, c.name, None)
      /\ UNCHANGED <<arrays, ptr>> /\ c.at \in Writing
  BY DEF ShiftEnds, At, lastShift, Writing
<1>2. /\ c.n = len /\ c.i \in 1..len /\ len <= Len(arrays[ptr]) /\ c.name \in Names
      /\ lists(arrays[ptr], (1..len) \ {c.i}, g)
  <2>1. SliceOK(t, c) /\ CallOK(t, c)
    BY DEF SliceInv, CallInv
  <2> QED
    BY <1>1, <2>1 DEF SliceOK, CallOK
<1>3. call'[t] = Idle /\ othersStay(t) /\ content' = g
  BY <1>1, commitTaken
<1>4. content' \in [Names -> Values \union {None}]
  BY <1>2, <1>3 DEF SliceInv
<1>5. (1..len) \ {c.i} = 1..len' /\ len' \in 0..Cardinality(Names) /\ len' <= Len(arrays[ptr])
  BY <1>1, <1>2, arrayFacts DEF SliceInv
<1> HIDE DEF c, g
<1>6. SliceOK(t, call[t])'
  BY <1>3, idleFields DEF SliceOK
<1>7. \A u \in Threads : SliceOK(u, call[u])'
  BY <1>1, <1>3, <1>6, othersRead DEF c
<1>8. lists(arrays[ptr], 1..len', content')
  BY <1>2, <1>3, <1>5
<1> QED
  BY <1>1, <1>4, <1>5, <1>7, <1>8 DEF SliceInv

\* The words of one element move into the gap before it.
LEMMA shiftWordSlice ==
    ASSUME AdminSerialized, FrameInv, CallInv, SliceInv, NEW t \in Threads, ShiftWord(t)
    PROVE  SliceInv'
<1> DEFINE c == call[t]
           a == arrays[ptr]
           b == arrays'[ptr]
           g == [content EXCEPT ![c.name] = None]
           i == c.i
<1>1. /\ c.at = "shift" /\ i <= c.n - 1 /\ UNCHANGED <<ptr, len, content>>
      /\ \/ /\ arrays' = [arrays EXCEPT ![ptr][i].name = a[i + 1].name] /\ call' = call
         \/ /\ a[i].name = a[i + 1].name
            /\ arrays' = [arrays EXCEPT ![ptr][i].box = a[i + 1].box]
            /\ Step(t, [c EXCEPT !.i = @ + 1])
  BY DEF ShiftWord, At, lastShift
<1>2. /\ c.n = len /\ i \in 1..len /\ len <= Len(a) /\ c.at \in Writing
      /\ lists(a, (1..len) \ {i}, g)
  <2>1. SliceOK(t, c)
    BY DEF SliceInv
  <2> QED
    BY <1>1, <2>1 DEF SliceOK, Writing
<1>3. /\ arrays \in Seq(Seq(Entries)) /\ ptr \in 1..Len(arrays) /\ DOMAIN arrays = 1..Len(arrays)
      /\ a \in Seq(Entries) /\ Len(a) \in Nat /\ len \in 0..Cardinality(Names) /\ len \in Nat
      /\ content \in [Names -> Values \union {None}]
  BY arrayFacts DEF SliceInv
<1>4. i \in 1..(len - 1) /\ i \in 1..Len(a) /\ i + 1 \in 1..Len(a)
  <2>1. i \in 1..len /\ i <= len - 1 /\ len <= Len(a) /\ len \in Nat /\ Len(a) \in Nat
    BY <1>1, <1>2, <1>3
  <2> HIDE DEF i, a
  <2> QED
    BY <2>1
<1>5. a[i] \in Entries /\ a[i + 1] \in Entries
  <2> HIDE DEF Entries, i, a
  <2> QED
    BY <1>3, <1>4
<1>6. ASSUME NEW e \in Entries, arrays' = [arrays EXCEPT ![ptr][i] = e]
      PROVE  /\ arrays' \in Seq(Seq(Entries)) /\ DOMAIN arrays' = DOMAIN arrays /\ Len(b) = Len(a)
             /\ b[i] = e /\ \A j \in (1..len) \ {i} : b[j] = a[j]
  <2>1. /\ arrays' \in Seq(Seq(Entries)) /\ Len(arrays'[ptr]) = Len(arrays[ptr])
        /\ DOMAIN arrays' = DOMAIN arrays /\ arrays'[ptr][i] = e
        /\ \A j \in 1..Len(arrays[ptr]) : j # i => arrays'[ptr][j] = arrays[ptr][j]
    <3> HIDE DEF i
    <3> QED
      BY <1>3, <1>4, <1>6, arraysExcept
  <2>2. \A j \in (1..len) \ {i} : j \in 1..Len(a) /\ j # i
    BY <1>2, <1>3
  <2> HIDE DEF i
  <2> QED
    BY <2>1, <2>2
<1>7. CASE arrays' = [arrays EXCEPT ![ptr][i].name = a[i + 1].name] /\ call' = call
  <2> DEFINE e == [a[i] EXCEPT !.name = a[i + 1].name]
  <2>1. e \in Entries
    BY <1>5 DEF Entries
  <2>2. arrays' = [arrays EXCEPT ![ptr][i] = e]
    BY <1>7
  <2> HIDE DEF e
  <2>3. /\ arrays' \in Seq(Seq(Entries)) /\ DOMAIN arrays' = DOMAIN arrays /\ Len(b) = Len(a)
        /\ \A j \in (1..len) \ {i} : b[j] = a[j]
    BY <1>6, <2>1, <2>2
  <2> HIDE DEF i, a, b, g
  <2>4. lists(b, (1..len) \ {i}, g)
    BY <1>2, <2>3, listsSame
  <2>5. othersStay(t)
    BY <1>7 DEF FrameInv, othersStay, samePlace, sameCall
  <2>6. SliceOK(t, call[t])'
    BY <1>1, <1>2, <1>7, <2>3, <2>4 DEF SliceOK, c, i, b, g
  <2>7. \A u \in Threads : SliceOK(u, call[u])'
    BY <1>2, <2>5, <2>6, othersRead
  <2>8. call'[t].at = "shift"
    BY <1>1, <1>7
  <2> QED
    BY <1>1, <1>3, <2>3, <2>7, <2>8 DEF SliceInv
<1>8. CASE /\ a[i].name = a[i + 1].name
           /\ arrays' = [arrays EXCEPT ![ptr][i].box = a[i + 1].box]
           /\ Step(t, [c EXCEPT !.i = @ + 1])
  <2> DEFINE e == [a[i] EXCEPT !.box = a[i + 1].box]
  <2>1. e = a[i + 1]
    BY <1>5, <1>8 DEF Entries
  <2>2. arrays' = [arrays EXCEPT ![ptr][i] = e]
    BY <1>8
  <2> HIDE DEF e
  <2>3. /\ arrays' \in Seq(Seq(Entries)) /\ DOMAIN arrays' = DOMAIN arrays /\ Len(b) = Len(a)
        /\ b[i] = a[i + 1] /\ \A j \in (1..len) \ {i} : b[j] = a[j]
    BY <1>5, <1>6, <2>1, <2>2
  <2>4. stays(t, c.at, c.p, c.n, c.i + 1, c.e)
    <3>1. IsFrame(c)
      BY DEF FrameInv
    <3>2. moved(c, [c EXCEPT !.i = @ + 1], c.at, c.p, c.n, c.i + 1, c.e)
      BY <3>1, updates
    <3> QED
      BY <1>8, <3>2, movedTaken
  <2>5. /\ call'[t].at = "shift" /\ call'[t].n = c.n /\ call'[t].i = i + 1
        /\ call'[t].name = c.name /\ othersStay(t)
    BY <1>1, <2>4 DEF stays, moved, sameCall
  <2> HIDE DEF a, b, g
  <2>6. lists(b, (1..len) \ {i + 1}, g)
    <3> HIDE DEF i
    <3> QED
      BY <1>2, <1>3, <1>4, <2>3, listsShift
  <2>7. SliceOK(t, call[t])'
    <3>1. i + 1 \in 1..len
      BY <1>3, <1>4
    <3> QED
      BY <1>1, <1>2, <2>3, <2>5, <2>6, <3>1 DEF SliceOK, b, g
  <2>8. \A u \in Threads : SliceOK(u, call[u])'
    BY <1>2, <2>5, <2>7, othersRead
  <2> QED
    BY <1>1, <1>3, <2>3, <2>5, <2>8 DEF SliceInv
<1> QED
  BY <1>1, <1>7, <1>8

\* With one writer at a time the slice is never lost, whatever readers do.
LEMMA SliceStep ==
    ASSUME AdminSerialized, FrameInv, CallInv, SliceInv, [Next]_vars
    PROVE  SliceInv'
<1>1. CASE UNCHANGED vars
  BY <1>1 DEF vars, SliceInv, SliceOK
<1>2. CASE Next
  <2>1. PICK t \in Threads :
          \/ \E op, name, value, slot : Begin(t, op, name, value, slot)
          \/ Enter(t) \/ Lock(t) \/ Proceed(t)
    BY <1>2 DEF Next, BeginEnroll
  <2> QED
    BY <2>1, SliceStepIdle, replaceSlice, appendSlice, storeSlice, shiftSlice,
       shiftWordSlice, shiftEndsSlice DEF Proceed
<1> QED
  BY <1>1, <1>2

\* SliceInv holds throughout where administration is serialized.
LEMMA SliceInvariant == ASSUME AdminSerialized PROVE Spec => []SliceInv
<1>1. Init => SliceInv
  <2> SUFFICES ASSUME Init PROVE SliceInv
    OBVIOUS
  <2>1. /\ arrays = << <<>> >> /\ ptr = 1 /\ len = 0 /\ content = [name \in Names |-> None]
        /\ call = [t \in Threads |-> Idle]
    BY DEF Init
  <2>2. Cardinality(Names) \in Nat
    BY SharedAssumption, FS_CardinalityType
  <2>3. \A t \in Threads : SliceOK(t, call[t])
    BY <2>1, idleFields DEF SliceOK
  <2>4. arrays \in Seq(Seq(Entries)) /\ ptr \in DOMAIN arrays /\ arrays[ptr] = <<>>
    <3> HIDE DEF Entries
    <3>1. <<>> \in Seq(Entries)
      OBVIOUS
    <3> QED
      BY <2>1, <3>1
  <2>5. lists(arrays[ptr], 1..len, content)
    BY <2>1 DEF lists
  <2>6. len \in 0..Cardinality(Names) /\ len <= Len(arrays[ptr])
    BY <2>1, <2>2, <2>4
  <2>7. content \in [Names -> Values \union {None}]
    BY <2>1
  <2> QED
    BY <2>3, <2>4, <2>5, <2>6, <2>7 DEF SliceInv
<1>2. SliceInv /\ (FrameInv /\ CallInv) /\ [Next]_vars => SliceInv'
  BY SliceStep
<1> QED
  BY <1>1, <1>2, CallInvariant, PTL DEF Spec

\* Written through one session, the slice lists exactly what was put, each name
\* once, whenever no call is under way, even with readers in other sessions.
THEOREM SliceKeepsContent == ASSUME AdminSerialized PROVE Spec => []SliceMatchesContent
<1>1. ASSUME CallInv, SliceInv PROVE SliceMatchesContent
  <2> SUFFICES ASSUME \A s \in Sessions : mutex[s] = None
               PROVE  /\ \A i, j \in 1..len : arrays[ptr][i].name = arrays[ptr][j].name => i = j
                      /\ {arrays[ptr][i] : i \in 1..len} =
                            {entry(name, content[name]) : name \in {x \in Names : content[x] # None}}
    BY DEF SliceMatchesContent
  <2>1. \A t \in Threads : call[t].at \notin {"store", "shift"}
    <3> TAKE t \in Threads
    <3>1. My(t) \in Sessions /\ t # None
      BY SharedAssumption DEF My
    <3> QED
      BY <1>1, <3>1 DEF CallInv, CallOK, Writing
  <2>2. lists(arrays[ptr], 1..len, content)
    BY <1>1, <2>1 DEF SliceInv
  <2> QED
    BY <2>2 DEF lists
<1>2. (FrameInv /\ CallInv) /\ SliceInv => SliceMatchesContent
  BY <1>1
<1> QED
  BY <1>2, CallInvariant, SliceInvariant, PTL

-----------------------------------------------------------------------------
(* Slots *)

\* A gesture's slot stays free until it ends.
LEMMA SlotStep ==
    ASSUME AdminSerialized, FrameInv, CallInv, SlotInv, [Next]_vars
    PROVE  SlotInv'
<1>0. FrameInv'
  BY CallStep
<1>1. ASSUME NEW t \in Threads, othersStay(t), slots' = slots,
             call'[t].at = "gesture" /\ call'[t].slot \in Slots => slots[call'[t].slot] = 0
      PROVE  SlotInv'
  BY <1>1 DEF SlotInv, At, othersStay, samePlace, sameCall
<1>2. ASSUME NEW t \in Threads, call[t].at \in Writing, othersStay(t), call'[t].at # "gesture",
             NEW n \in {0, 1}, slots' = [slots EXCEPT ![call[t].slot] = n]
      PROVE  SlotInv'
  <2>1. \A u \in Threads \ {t} : call'[u].at # "gesture"
    <3> TAKE u \in Threads \ {t}
    <3>1. call[u].at \notin Writing
      BY <1>2, writerAlone
    <3> QED
      BY <1>2, <3>1 DEF othersStay, samePlace, Writing
  <2>2. slots' \in [Slots -> Nat] /\ \A m \in Slots : slots'[m] <= 1
    <3>1. slots \in [Slots -> Nat] /\ \A m \in Slots : slots[m] <= 1
      BY DEF SlotInv
    <3>2. n \in Nat /\ n <= 1
      OBVIOUS
    <3>3. \A m \in Slots : slots'[m] = IF m = call[t].slot THEN n ELSE slots[m]
      BY <1>2, <3>1
    <3>4. slots' \in [Slots -> Nat]
      BY <1>2, <3>1, <3>2
    <3> QED
      BY <3>1, <3>2, <3>3, <3>4
  <2> QED
    BY <1>2, <2>1, <2>2 DEF SlotInv, At
<1>3. ASSUME NEW t \in Threads, NEW r, Return(t, r)
      PROVE  othersStay(t) /\ call'[t].at \in {"idle", "returned"}
  BY <1>3, returnTaken DEF CallInv
<1>4. ASSUME NEW t \in Threads, Enter(t) PROVE SlotInv'
  <2> DEFINE c == call[t]
  <2>1. c.at = "enter" /\ slots' = slots
    BY <1>4 DEF Enter, At
  <2>2. c.op \in Mutators \union {"Open", "Lock"}
    BY <2>1 DEF CallInv, CallOK
  <2>3. \/ \E r : Return(t, r)
        \/ /\ refusal(t) = "nil"
           /\ stays(t, entryPlace(c.op), c.p, IF c.op = "Delete" THEN len ELSE c.n, c.i, c.e)
    BY <1>4, <2>2, enterTaken
  <2>4. CASE refusal(t) = "nil" /\ stays(t, entryPlace(c.op), c.p,
                                         IF c.op = "Delete" THEN len ELSE c.n, c.i, c.e)
    <3>1. othersStay(t) /\ call'[t].at = entryPlace(c.op) /\ call'[t].slot = c.slot /\ c.op # "Lock"
      BY <1>4, <2>4 DEF stays, moved, sameCall, Enter
    <3>2. entryPlace(c.op) = "gesture" => c.op = "EnrollKey"
      BY <2>2, <3>1 DEF entryPlace, Mutators
    <3>3. c.op = "EnrollKey" => ~(slots[c.slot] > 0)
      BY <2>4 DEF refusal
    <3>4. c.slot \in Slots => slots[c.slot] \in Nat
      BY DEF SlotInv
    <3> QED
      BY <1>1, <2>1, <3>1, <3>2, <3>3, <3>4
  <2> QED
    BY <1>1, <1>3, <2>1, <2>3, <2>4
<1>5. ASSUME NEW t \in Threads, GestureEnds(t) PROVE SlotInv'
  <2> DEFINE c == call[t]
             n == slots[c.slot] + 1
  <2>1. c.at = "gesture" /\ \E r : Return(t, r)
    BY <1>5 DEF GestureEnds, At
  <2>2. othersStay(t) /\ call'[t].at # "gesture" /\ c.at \in Writing
    BY <1>3, <2>1 DEF Writing
  <2>3. \/ slots' = slots
        \/ slots' = [slots EXCEPT ![c.slot] = n]
    BY <1>5 DEF GestureEnds
  <2>4. c.slot \in Slots => n = 1
    BY <2>1 DEF SlotInv, At
  <2>5. c.slot \notin Slots => [slots EXCEPT ![c.slot] = n] = slots
    BY DEF SlotInv
  <2> HIDE DEF n
  <2> QED
    BY <1>1, <1>2, <2>2, <2>3, <2>4, <2>5
<1>6. ASSUME NEW t \in Threads, RemoveKey(t) PROVE SlotInv'
  <2>1. /\ call[t].at = "remove" /\ slots' = [slots EXCEPT ![call[t].slot] = 0]
        /\ \E r : Return(t, r)
    BY <1>6 DEF RemoveKey, At
  <2> QED
    BY <1>2, <1>3, <2>1 DEF Writing
<1>7. ASSUME NEW t \in Threads, Lock(t) PROVE SlotInv'
  <2>1. slots' = slots /\ \E r : Return(t, r)
    BY <1>7 DEF Lock
  <2> QED
    BY <1>1, <1>3, <2>1
<1>8. ASSUME NEW t \in Threads, NEW op, NEW name, NEW value, NEW slot,
             Begin(t, op, name, value, slot)
      PROVE  SlotInv'
  <2>1. slots' = slots
    BY <1>8 DEF Begin
  <2> QED
    BY <1>1, <1>8, <2>1, beginTaken
<1>9. ASSUME NEW t \in Threads, Proceed(t), ~GestureEnds(t), ~RemoveKey(t) PROVE SlotInv'
  <2>1. slots' = slots
    BY <1>9 DEF Proceed, LoadPtr, LoadLen, CopyName, CopyBox, TakeResult, ReaderEnds,
                ReaderFails, ScanPast, Replace, Append_, StoreWord, Shift, ShiftWord,
                ShiftEnds, DeleteMisses
  <2>2. othersStay(t) /\ call'[t].at # "gesture"
    <3>1. CASE LoadPtr(t) \/ LoadLen(t) \/ ReaderEnds(t) \/ Shift(t) \/ Append_(t)
      BY <3>1, proceedTaken DEF stays, moved
    <3>2. CASE ScanPast(t)
      BY <3>2, proceedTaken DEF stays, moved, ScanPast, At
    <3>3. CASE TakeResult(t)
      BY <3>3, proceedTaken, idleFields
    <3>4. CASE ReaderFails(t) \/ DeleteMisses(t)
      BY <1>3, <3>4 DEF ReaderFails, DeleteMisses
    <3>5. CASE CopyName(t) \/ CopyBox(t)
      <4>1. \/ \E r : Return(t, r)
            \/ \E a \in {"box", "name"} : \E p, n, i, e : stays(t, a, p, n, i, e)
        BY <3>5, copyTaken
      <4> QED
        BY <1>3, <4>1 DEF stays, moved
    <3>6. CASE Replace(t) \/ ShiftEnds(t) \/ StoreWord(t) \/ ShiftWord(t)
      <4>1. call[t].at # "gesture"
        BY <3>6 DEF Replace, ShiftEnds, StoreWord, ShiftWord, At
      <4>2. \/ \E x : Commit(t, call[t].name, x)
            \/ call' = call
            \/ Step(t, [call[t] EXCEPT !.i = @ + 1])
        BY <3>6 DEF Replace, ShiftEnds, StoreWord, ShiftWord
      <4>3. CASE \E x : Commit(t, call[t].name, x)
        BY <4>3, commitTaken, idleFields
      <4>4. CASE call' = call
        BY <4>1, <4>4 DEF othersStay, samePlace, sameCall, FrameInv
      <4>5. CASE Step(t, [call[t] EXCEPT !.i = @ + 1])
        <5>1. IsFrame(call[t])
          BY DEF FrameInv
        <5>2. moved(call[t], [call[t] EXCEPT !.i = @ + 1], call[t].at, call[t].p, call[t].n,
                    call[t].i + 1, call[t].e)
          BY <5>1, updates
        <5>3. stays(t, call[t].at, call[t].p, call[t].n, call[t].i + 1, call[t].e)
          BY <4>5, <5>2, movedTaken
        <5> QED
          BY <4>1, <5>3 DEF stays, moved
      <4> QED
        BY <4>2, <4>3, <4>4, <4>5
    <3> QED
      BY <1>9, <3>1, <3>2, <3>3, <3>4, <3>5, <3>6 DEF Proceed
  <2> QED
    BY <1>1, <2>1, <2>2
<1>10. CASE UNCHANGED vars
  BY <1>10 DEF vars, SlotInv, At
<1> QED
  BY <1>4, <1>5, <1>6, <1>7, <1>8, <1>9, <1>10 DEF Next, BeginEnroll

\* SlotInv holds throughout where administration is serialized.
LEMMA SlotInvariant == ASSUME AdminSerialized PROVE Spec => []SlotInv
<1>1. Init => SlotInv
  BY idleFields DEF Init, SlotInv, At
<1>2. SlotInv /\ (FrameInv /\ CallInv) /\ [Next]_vars => SlotInv'
  BY SlotStep
<1> QED
  BY <1>1, <1>2, CallInvariant, PTL DEF Spec

\* No two keys share a slot, however many goroutines of one session pick one.
THEOREM KeysKeepTheirSlots == ASSUME AdminSerialized PROVE Spec => []SlotsUnique
<1>1. SlotInv => SlotsUnique
  BY DEF SlotInv, SlotsUnique
<1> QED
  BY <1>1, SlotInvariant, PTL

\* The types.
THEOREM TypesKept == ASSUME AdminSerialized PROVE Spec => []TypeOK
<1>1. (FrameInv /\ CallInv) /\ SliceInv /\ SlotInv => TypeOK
  BY DEF CallInv, CallOK, SliceInv, SlotInv, TypeOK, Reading, Writing
<1> QED
  BY <1>1, CallInvariant, SliceInvariant, SlotInvariant, PTL

-----------------------------------------------------------------------------
(* Readers and writers of one session *)

\* On one session at most one call is past the mutex.
LEMMA insideAlone ==
    ASSUME OneSessionOnly, CallInv, NEW t \in Threads, NEW u \in Threads,
           call[t].at \in Reading \union Writing, call[u].at \in Reading \union Writing
    PROVE  t = u
BY DEF OneSessionOnly, CallInv, CallOK

\* A read leaves the document as it is, and so does what waits.
LEMMA readKept ==
    ASSUME ReadInv, NEW t \in Threads, \A u \in Threads \ {t} : call'[u] = call[u],
           UNCHANGED <<arrays, ptr, len, content, corrupted>>, ReadOK(t, call[t])'
    PROVE  ReadInv'
<1>1. ASSUME NEW u \in Threads \ {t} PROVE ReadOK(u, call[u])'
  <2>1. ReadOK(u, call[u]) /\ call'[u] = call[u]
    BY DEF ReadInv
  <2> QED
    BY <2>1 DEF ReadOK
<1> QED
  BY <1>1 DEF ReadInv

\* While a call writes, no read has anything loaded.
LEMMA writeRead ==
    ASSUME OneSessionOnly, CallInv, ReadInv, NEW t \in Threads, call[t].at \in Writing,
           corrupted' = corrupted, othersStay(t), call'[t].at \in Writing \union {"idle"},
           call'[t].op # "Open",
           \A u \in Threads \ {t} :
              /\ call[u].at = "returned" => call'[u].seen = call[u].seen
              /\ call[u].at = "enter" /\ call[u].op = "Open"
                    /\ content[call[u].name] \in call[u].seen
                 => content'[call[u].name] \in call'[u].seen
    PROVE  ReadInv'
<1>1. ReadOK(t, call[t])'
  BY DEF ReadOK, Writing
<1>2. ASSUME NEW u \in Threads \ {t} PROVE ReadOK(u, call[u])'
  <2>1. ReadOK(u, call[u]) /\ CallOK(u, call[u]) /\ samePlace(call[u], call'[u])
    BY DEF ReadInv, CallInv, othersStay
  <2>2. call[u].at \notin Reading \union Writing
    BY insideAlone
  <2>3. call'[u].at \in {"idle", "enter", "returned"}
    BY <2>1, <2>2 DEF CallOK, samePlace
  <2>4. /\ call'[u].op = call[u].op /\ call'[u].name = call[u].name /\ call'[u].at = call[u].at
        /\ call'[u].e = call[u].e /\ call'[u].result = call[u].result
    BY <2>1 DEF samePlace, sameCall
  <2>5. call'[u].at \notin Reading
    BY <2>3 DEF Reading
  <2> QED
    BY <2>1, <2>3, <2>4, <2>5 DEF ReadOK, Reading
<1> QED
  BY <1>1, <1>2 DEF ReadInv

\* A call that commits has told every read of its name.
LEMMA commitRead ==
    ASSUME OneSessionOnly, FrameInv, CallInv, SliceInv, ReadInv, NEW t \in Threads, NEW x,
           call[t].at \in Writing, corrupted' = corrupted, Commit(t, call[t].name, x)
    PROVE  ReadInv'
<1>1. /\ call'[t] = Idle /\ othersStay(t) /\ content' = [content EXCEPT ![call[t].name] = x]
      /\ \A u \in Threads \ {t} :
            call'[u].seen = IF call[u].op = "Open" /\ call[u].at # "returned"
                                                    /\ call[u].name = call[t].name
                            THEN call[u].seen \union {x} ELSE call[u].seen
  BY commitTaken
<1>2. ASSUME NEW u \in Threads \ {t}, call[u].at = "enter", call[u].op = "Open",
             content[call[u].name] \in call[u].seen
      PROVE  content'[call[u].name] \in call'[u].seen
  <2>1. call[u].name \in Names /\ content = [name \in Names |-> content[name]]
    BY <1>2 DEF CallInv, CallOK, SliceInv
  <2> QED
    BY <1>1, <1>2, <2>1
<1> QED
  BY <1>1, <1>2, idleFields, writeRead

\* What a read that is under way knows.
LEMMA readFacts ==
    ASSUME OneSessionOnly, CallInv, SliceInv, ReadInv, NEW t \in Threads, call[t].at \in Reading
    PROVE  LET c == call[t]
           IN /\ c.op = "Open" /\ c.name \in Names /\ content[c.name] \in c.seen
              /\ len \in Nat /\ ptr \in Nat
              /\ len <= Len(arrays[ptr]) /\ Len(arrays[ptr]) \in Nat
              /\ lists(arrays[ptr], 1..len, content)
<1>1. CallOK(t, call[t]) /\ ReadOK(t, call[t])
  BY DEF CallInv, ReadInv
<1>2. call[t].op = "Open" /\ call[t].name \in Names
  BY <1>1 DEF CallOK, Reading
<1>3. \A u \in Threads : call[u].at \notin {"store", "shift"}
  <2>1. \A u \in Threads : call[u].at \in Writing => u = t
    BY insideAlone
  <2> QED
    BY <2>1 DEF Reading, Writing
<1> QED
  BY <1>1, <1>2, <1>3, arrayFacts DEF SliceInv, ReadOK, Reading

\* The copy of forEachSecret, the name and then the box, is the entry copied.
LEMMA copiedEntry ==
  \A n, b : [[ZeroEntry EXCEPT !.name = n] EXCEPT !.box = b] = [name |-> n, box |-> b]
<1>1. \A x, y, n : [[name |-> x, box |-> y] EXCEPT !.name = n] = [name |-> n, box |-> y]
  OBVIOUS
<1>2. \A x, y, b : [[name |-> x, box |-> y] EXCEPT !.box = b] = [name |-> x, box |-> b]
  OBVIOUS
<1> DEFINE x == None
           z == [name |-> None, value |-> None]
<1>3. ZeroEntry = [name |-> x, box |-> z]
  BY DEF ZeroEntry
<1> HIDE DEF x, z
<1> QED
  BY <1>1, <1>2, <1>3

\* Each step of a read.
LEMMA ReadStepReads ==
    ASSUME OneSessionOnly, FrameInv, CallInv, SliceInv, ReadInv, NEW t \in Threads,
           LoadPtr(t) \/ LoadLen(t) \/ CopyName(t) \/ CopyBox(t)
    PROVE  ReadInv'
<1> DEFINE c == call[t]
           a == arrays[ptr]
<1>1. /\ c.at \in Reading /\ UNCHANGED <<arrays, ptr, len, content>>
  BY DEF LoadPtr, LoadLen, CopyName, CopyBox, At, Reading, secretWords
<1>2. /\ c.op = "Open" /\ c.name \in Names /\ content[c.name] \in c.seen
      /\ len \in Nat /\ ptr \in Nat /\ len <= Len(a) /\ Len(a) \in Nat
      /\ lists(a, 1..len, content)
  BY <1>1, readFacts
<1>3. ReadOK(t, c) /\ mutex \in [Sessions -> Threads \union {None}] /\ None \notin Nat
  BY SharedAssumption DEF ReadInv, CallInv
<1>4. ASSUME NEW r, Return(t, r), corrupted' = corrupted,
             \/ r = "ErrNoSuchSecret" /\ None \in c.seen
             \/ r \in c.seen \ {None}
      PROVE  ReadInv'
  <2>1. /\ call'[t].op = "Open" /\ call'[t].at = "returned" /\ call'[t].result = r
        /\ call'[t].seen = c.seen /\ \A u \in Threads \ {t} : call'[u] = call[u]
    BY <1>2, <1>3, <1>4, returnTaken
  <2>2. ReadOK(t, call[t])'
    BY <1>4, <2>1 DEF ReadOK, Reading
  <2> QED
    BY <1>1, <1>4, <2>1, <2>2, readKept
<1>5. ASSUME NEW place \in Reading, NEW p, NEW n, NEW i, NEW e, stays(t, place, p, n, i, e),
             corrupted' = corrupted,
             place = "header" => p \in {None, ptr} /\ n \in {None, len} /\ i = 1,
             place \in {"name", "box"} =>
                /\ p = ptr /\ n = len /\ i \in 1..(IF place = "box" THEN len ELSE len + 1)
                /\ \A j \in 1..(i - 1) : a[j].name # c.name,
             place \in {"header", "name"} => e = ZeroEntry,
             place = "box" => e = [ZeroEntry EXCEPT !.name = a[i].name]
      PROVE  ReadInv'
  <2>1. /\ call'[t].op = "Open" /\ call'[t].name = c.name /\ call'[t].seen = c.seen
        /\ call'[t].at = place /\ call'[t].p = p /\ call'[t].n = n /\ call'[t].i = i
        /\ call'[t].e = e /\ \A u \in Threads \ {t} : call'[u] = call[u]
    BY <1>2, <1>5 DEF stays, moved, sameCall
  <2>2. place \notin {"enter", "returned"}
    BY <1>5 DEF Reading
  <2>3. ReadOK(t, call[t])'
    BY <1>1, <1>2, <1>5, <2>1, <2>2 DEF ReadOK
  <2> QED
    BY <1>1, <1>5, <2>1, <2>3, readKept
<1>6. CASE LoadPtr(t) \/ LoadLen(t)
  <2>1. c.at = "header" /\ corrupted' = corrupted
    BY <1>6 DEF LoadPtr, LoadLen, At
  <2>2. c.p \in {None, ptr} /\ c.n \in {None, len} /\ c.i = 1 /\ c.e = ZeroEntry
    BY <1>3, <2>1 DEF ReadOK
  <2>3. \E place \in {"header", "name"}, p \in {None, ptr}, n \in {None, len} :
           /\ stays(t, place, p, n, 1, ZeroEntry)
           /\ place = "name" => p = ptr /\ n = len
    BY <1>2, <1>3, <1>6, <2>2, proceedTaken
  <2>4. {"header", "name"} \subseteq Reading /\ 1 \in 1..(len + 1)
    BY <1>2 DEF Reading
  <2> HIDE DEF c, a
  <2> QED
    BY <1>5, <2>1, <2>3, <2>4
<1>7. CASE CopyName(t)
  <2>1. c.at = "name"
    BY <1>7 DEF CopyName, At
  <2>2. /\ c.p = ptr /\ c.n = len /\ c.i \in 1..(len + 1) /\ c.e = ZeroEntry
        /\ \A j \in 1..(c.i - 1) : a[j].name # c.name
    BY <1>3, <2>1 DEF ReadOK
  <2>3. \/ c.i > c.n /\ Return(t, "ErrNoSuchSecret") /\ corrupted' = corrupted
        \/ ~(c.i > c.n) /\ c.i > Len(a)
        \/ /\ ~(c.i > c.n) /\ corrupted' = corrupted
           /\ stays(t, "box", c.p, c.n, c.i, [c.e EXCEPT !.name = a[c.i].name])
    BY <1>7, <2>2, copyTaken
  <2>4. CASE c.i > c.n /\ Return(t, "ErrNoSuchSecret") /\ corrupted' = corrupted
    <3>1. c.i - 1 = len
      BY <1>2, <2>2, <2>4
    <3>2. \A j \in 1..len : a[j].name # c.name
      BY <2>2, <3>1
    <3>3. content[c.name] = None
      BY <1>2, <3>2 DEF lists
    <3> QED
      BY <1>2, <1>4, <2>4, <3>3
  <2>5. CASE ~(c.i > c.n) /\ c.i > Len(a)
    BY <1>2, <2>2, <2>5
  <2>6. CASE /\ ~(c.i > c.n) /\ corrupted' = corrupted
             /\ stays(t, "box", c.p, c.n, c.i, [c.e EXCEPT !.name = a[c.i].name])
    <3>1. c.i \in 1..len /\ "box" \in Reading
      BY <1>2, <2>2, <2>6 DEF Reading
    <3> QED
      BY <1>5, <2>2, <2>6, <3>1
  <2> QED
    BY <2>3, <2>4, <2>5, <2>6
<1>8. CASE CopyBox(t)
  <2> DEFINE e == [c.e EXCEPT !.box = arrays[c.p][c.i].box]
  <2>1. c.at = "box" /\ corrupted' = corrupted
    BY <1>8 DEF CopyBox, At
  <2>2. /\ c.p = ptr /\ c.n = len /\ c.i \in 1..len
        /\ c.e = [ZeroEntry EXCEPT !.name = a[c.i].name]
        /\ \A j \in 1..(c.i - 1) : a[j].name # c.name
    BY <1>3, <2>1 DEF ReadOK
  <2>3. a[c.i] = entry(a[c.i].name, content[a[c.i].name]) /\ content[a[c.i].name] # None
    BY <1>2, <2>2 DEF lists
  <2>4. e = a[c.i]
    <3>1. e = [name |-> a[c.i].name, box |-> a[c.i].box]
      <4>1. e = [[ZeroEntry EXCEPT !.name = a[c.i].name] EXCEPT !.box = a[c.i].box]
        BY <2>2
      <4>2. \A n, b : [[ZeroEntry EXCEPT !.name = n] EXCEPT !.box = b] = [name |-> n, box |-> b]
        BY copiedEntry
      <4> HIDE DEF e, a, c
      <4> QED
        BY <4>1, <4>2
    <3> QED
      BY <2>3, <3>1 DEF entry
  <2>5. \/ e.name = c.name /\ Return(t, openSecret(e))
        \/ e.name # c.name /\ stays(t, "name", c.p, c.n, c.i + 1, ZeroEntry)
    BY <1>8, copyTaken
  <2> HIDE DEF e
  <2>6. CASE e.name = c.name /\ Return(t, openSecret(e))
    <3>1. openSecret(e) = content[c.name] /\ content[c.name] # None
      BY <2>3, <2>4, <2>6 DEF openSecret, entry
    <3> QED
      BY <1>2, <1>4, <2>1, <2>6, <3>1
  <2>7. CASE e.name # c.name /\ stays(t, "name", c.p, c.n, c.i + 1, ZeroEntry)
    <3> DEFINE next == c.i + 1
    <3>1. /\ next \in 1..(len + 1) /\ "name" \in Reading
          /\ \A j \in 1..(next - 1) : j = c.i \/ j \in 1..(c.i - 1)
      BY <1>2, <2>2 DEF Reading
    <3>2. \A j \in 1..(next - 1) : a[j].name # c.name
      BY <2>2, <2>4, <2>7, <3>1
    <3>3. stays(t, "name", ptr, len, next, ZeroEntry)
      BY <2>2, <2>7
    <3> HIDE DEF next
    <3> QED
      BY <1>5, <2>1, <3>1, <3>2, <3>3
  <2> QED
    BY <2>5, <2>6, <2>7
<1> QED
  BY <1>6, <1>7, <1>8

\* Readers and writers of one session never meet inside the slice.
LEMMA ReadStep ==
    ASSUME OneSessionOnly, FrameInv, CallInv, SliceInv, ReadInv, [Next]_vars
    PROVE  ReadInv'
<1>0. mutex \in [Sessions -> Threads \union {None}]
  BY DEF CallInv
<1>1. ASSUME NEW t \in Threads, NEW op, NEW name, NEW value, NEW slot,
             Begin(t, op, name, value, slot)
      PROVE  ReadInv'
  <2>1. UNCHANGED <<arrays, ptr, len, content, corrupted>>
    BY <1>1 DEF Begin, secretWords
  <2>2. /\ call'[t].op = op /\ call'[t].at = "enter" /\ call'[t].name = name
        /\ call'[t].e = ZeroEntry /\ \A u \in Threads \ {t} : call'[u] = call[u]
        /\ op = "Open" => content[name] \in call'[t].seen
    BY <1>1, beginTaken
  <2>3. ReadOK(t, call[t])'
    BY <2>1, <2>2 DEF ReadOK
  <2> QED
    BY <2>1, <2>2, <2>3, readKept
<1>2. ASSUME NEW t \in Threads, Enter(t) PROVE ReadInv'
  <2> DEFINE c == call[t]
  <2>1. c.at = "enter" /\ UNCHANGED <<arrays, ptr, len, content, corrupted>> /\ c.op # "Lock"
    BY <1>2 DEF Enter, At, secretWords
  <2>2. /\ c.op \in Mutators \union {"Open", "Lock"} /\ c.i = 1 /\ c.p = None /\ c.n = None
    BY <2>1 DEF CallInv, CallOK
  <2>3. c.e = ZeroEntry /\ (c.op = "Open" => content[c.name] \in c.seen)
    BY <2>1 DEF ReadInv, ReadOK
  <2>4. \/ refusal(t) # "nil" /\ Return(t, refusal(t))
        \/ stays(t, entryPlace(c.op), c.p, IF c.op = "Delete" THEN len ELSE c.n, c.i, c.e)
    BY <1>2, <2>2, enterTaken
  <2>5. CASE refusal(t) # "nil" /\ Return(t, refusal(t))
    <3>1. c.op = "Open" => refusal(t) = "ErrLocked"
      BY <2>5 DEF refusal
    <3>2. /\ \A u \in Threads \ {t} : call'[u] = call[u]
          /\ c.op # "Open" => call'[t].at = "idle"
          /\ c.op = "Open" => call'[t].at = "returned" /\ call'[t].result = refusal(t)
      BY <1>0, <2>5, returnTaken
    <3>3. ReadOK(t, call[t])'
      BY <3>1, <3>2 DEF ReadOK, Reading
    <3> QED
      BY <2>1, <3>2, <3>3, readKept
  <2>6. CASE stays(t, entryPlace(c.op), c.p, IF c.op = "Delete" THEN len ELSE c.n, c.i, c.e)
    <3>1. /\ \A u \in Threads \ {t} : call'[u] = call[u]
          /\ call'[t].op = c.op /\ call'[t].name = c.name /\ call'[t].seen = c.seen
          /\ call'[t].at = entryPlace(c.op) /\ call'[t].p = None /\ call'[t].i = 1
          /\ call'[t].e = ZeroEntry /\ (c.op # "Delete" => call'[t].n = None)
      BY <2>2, <2>3, <2>6 DEF stays, moved, sameCall
    <3>2. /\ c.op = "Open" => entryPlace(c.op) = "header"
          /\ c.op # "Open" => entryPlace(c.op) \in Writing
      BY <2>1, <2>2 DEF entryPlace, Mutators, Writing
    <3>3. ReadOK(t, call[t])'
      <4>1. CASE c.op = "Open"
        BY <2>1, <2>3, <3>1, <3>2, <4>1 DEF ReadOK, Reading
      <4>2. CASE c.op # "Open"
        BY <3>1, <3>2, <4>2 DEF ReadOK, Writing
      <4> QED
        BY <4>1, <4>2
    <3> QED
      BY <2>1, <3>1, <3>3, readKept
  <2> QED
    BY <2>4, <2>5, <2>6
<1>3. ASSUME NEW t \in Threads, NEW r, Return(t, r), call[t].op # "Open",
             UNCHANGED <<arrays, ptr, len, content, corrupted>>
      PROVE  ReadInv'
  <2>1. call'[t].at = "idle" /\ \A u \in Threads \ {t} : call'[u] = call[u]
    BY <1>0, <1>3, returnTaken
  <2>2. ReadOK(t, call[t])'
    BY <2>1 DEF ReadOK, Reading
  <2> QED
    BY <1>3, <2>1, <2>2, readKept
<1>4. ASSUME NEW t \in Threads, Lock(t) \/ ReaderFails(t) \/ DeleteMisses(t) \/ GestureEnds(t)
                                \/ RemoveKey(t)
      PROVE  ReadInv'
  <2>1. /\ call[t].op # "Open" /\ \E r : Return(t, r)
        /\ UNCHANGED <<arrays, ptr, len, content, corrupted>>
    BY <1>4 DEF Lock, ReaderFails, DeleteMisses, GestureEnds, RemoveKey, At, secretWords,
                CallInv, CallOK
  <2> QED
    BY <1>3, <2>1
<1>5. ASSUME NEW t \in Threads, TakeResult(t) PROVE ReadInv'
  <2>1. /\ call'[t] = Idle /\ \A u \in Threads \ {t} : call'[u] = call[u]
        /\ UNCHANGED <<arrays, ptr, len, content, corrupted>>
    BY <1>5, proceedTaken DEF TakeResult, secretWords
  <2>2. ReadOK(t, call[t])'
    BY <2>1, idleFields DEF ReadOK, Reading
  <2> QED
    BY <2>1, <2>2, readKept
<1>6. ASSUME NEW t \in Threads, call[t].at \in Writing, UNCHANGED <<content, corrupted>>,
             \/ call' = call
             \/ \E a \in Writing : \E p, n, i, e : stays(t, a, p, n, i, e)
      PROVE  ReadInv'
  <2>1. call[t].op # "Open"
    BY <1>6 DEF CallInv, CallOK, Writing
  <2>2. \A u \in Threads \ {t} : call'[u] = call[u]
    BY <1>6 DEF stays
  <2>3. othersStay(t)
    BY <2>2 DEF FrameInv, othersStay, samePlace, sameCall
  <2>4. call'[t].at \in Writing /\ call'[t].op = call[t].op
    BY <1>6 DEF stays, moved, sameCall
  <2> QED
    BY <1>6, <2>1, <2>2, <2>3, <2>4, writeRead
<1>7. ASSUME NEW t \in Threads, ReaderEnds(t) \/ ScanPast(t) \/ Shift(t) \/ Append_(t)
      PROVE  ReadInv'
  <2>1. call[t].at \in {"reading", "scan"} /\ UNCHANGED <<content, corrupted>>
    BY <1>7 DEF ReaderEnds, ScanPast, Shift, Append_, At
  <2>2. call[t].at \in Writing /\ {"scan", "shift", "store"} \subseteq Writing
    BY <2>1 DEF Writing
  <2>3. \E a \in Writing : \E p, n, i, e : stays(t, a, p, n, i, e)
    BY <1>7, <2>2, proceedTaken
  <2> QED
    BY <1>6, <2>1, <2>2, <2>3
<1>8. ASSUME NEW t \in Threads, Replace(t) \/ ShiftEnds(t) \/ StoreWord(t) \/ ShiftWord(t)
      PROVE  ReadInv'
  <2>1. call[t].at \in Writing /\ corrupted' = corrupted
    BY <1>8 DEF Replace, ShiftEnds, StoreWord, ShiftWord, At, Writing
  <2>2. \/ \E x : Commit(t, call[t].name, x)
        \/ content' = content /\ call' = call
        \/ content' = content /\ Step(t, [call[t] EXCEPT !.i = @ + 1])
    BY <1>8 DEF Replace, ShiftEnds, StoreWord, ShiftWord
  <2>3. CASE content' = content /\ Step(t, [call[t] EXCEPT !.i = @ + 1])
    <3>1. IsFrame(call[t])
      BY DEF FrameInv
    <3>2. moved(call[t], [call[t] EXCEPT !.i = @ + 1], call[t].at, call[t].p, call[t].n,
                call[t].i + 1, call[t].e)
      BY <3>1, updates
    <3>3. stays(t, call[t].at, call[t].p, call[t].n, call[t].i + 1, call[t].e)
      BY <2>3, <3>2, movedTaken
    <3> QED
      BY <1>6, <2>1, <2>3, <3>3
  <2> QED
    BY <1>6, <2>1, <2>2, <2>3, commitRead
<1>9. CASE UNCHANGED vars
  BY <1>9 DEF vars, ReadInv, ReadOK
<1>10. CASE Next
  <2>1. PICK t \in Threads :
          \/ \E op, name, value, slot : Begin(t, op, name, value, slot)
          \/ Enter(t) \/ Lock(t) \/ Proceed(t)
    BY <1>10 DEF Next, BeginEnroll
  <2> QED
    BY <1>1, <1>2, <1>4, <1>5, <1>7, <1>8, <2>1, ReadStepReads DEF Proceed
<1> QED
  BY <1>9, <1>10

\* ReadInv holds throughout where there is one session.
LEMMA ReadInvariant == ASSUME OneSessionOnly PROVE Spec => []ReadInv
<1>1. Init => ReadInv
  BY idleFields DEF Init, ReadInv, ReadOK, Reading
<1>2. AdminSerialized
  BY DEF OneSessionOnly, AdminSerialized
<1>3. ReadInv /\ (FrameInv /\ CallInv) /\ SliceInv /\ [Next]_vars => ReadInv'
  BY ReadStep
<1>4. Spec => []SliceInv
  BY <1>2, SliceInvariant
<1> QED
  BY <1>1, <1>3, <1>4, CallInvariant, PTL DEF Spec

\* No read of a goroutine that shares the writer's session goes past the end of
\* the array it reads.
THEOREM MemoryIsSafe == ASSUME OneSessionOnly PROVE Spec => []NoMemoryCorruption
<1>1. ReadInv => NoMemoryCorruption
  BY DEF ReadInv, NoMemoryCorruption
<1> QED
  BY <1>1, ReadInvariant, PTL

\* ... and each read returns a value that its name had while it ran.
THEOREM ReadsReturnOneMoment == ASSUME OneSessionOnly PROVE Spec => []ReadsAreAtomic
<1>1. ReadInv => ReadsAreAtomic
  BY DEF ReadInv, ReadOK, ReadsAreAtomic, At
<1> QED
  BY <1>1, ReadInvariant, PTL

=============================================================================
