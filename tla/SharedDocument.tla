--------------------------- MODULE SharedDocument ---------------------------
(***************************************************************************)
(* Goroutines at work on one document in memory: vault.go and sealed.go at *)
(* the grain of memory accesses.                                           *)
(*                                                                         *)
(* doc.Secrets is a Go slice: a header of two words that matter here, the  *)
(* backing array and the length, and arrays that append may replace and    *)
(* that Delete shifts in place.  A call holds the mutex of its session;    *)
(* every session unlocked from one Vault points to the same document.      *)
(* Two goroutines whose sessions differ therefore access the slice         *)
(* concurrently, and a reader may see the words of a header, or of an      *)
(* entry, from before and after a write.                                   *)
(*                                                                         *)
(* Callers serialize what changes the document across sessions, as Admin   *)
(* asks, so only reads are split into the words they load.                 *)
(***************************************************************************)
EXTENDS Integers, Sequences, FiniteSets

CONSTANTS
    Threads, Sessions,
    SessionOf,      \* the session each goroutine calls
    Does,           \* the calls each goroutine makes
    Names, Values,
    MaxSlots,       \* bound: the slots that keys are enrolled in
    None            \* no goroutine, no value, a word not loaded yet

ASSUME SharedAssumption ==
    /\ SessionOf \in [Threads -> Sessions]
    /\ MaxSlots \in Nat \ {0}
    /\ None \notin Threads \union Values \union Names \union Nat
    /\ Values \cap {"ErrLocked", "ErrNoSuchSecret", "ErrAuthenticating"} = {}
    /\ IsFiniteSet(Names)

VARIABLES
    arrays,     \* the backing arrays ever allocated for doc.Secrets
    ptr, len,   \* the header of doc.Secrets: which array, how many elements
    slots,      \* how many entries of doc.Keys have each slot
    locked,     \* each session: Lock has forgotten its data key
    mutex,      \* each session: the goroutine that holds mu
    call,       \* each goroutine's call
    content,    \* what the completed calls have put under each name
    corrupted   \* some access went past the end of a backing array

vars == <<arrays, ptr, len, slots, locked, mutex, call, content, corrupted>>

Slots == 0..(MaxSlots - 1)

\* A sealed secret.  The box opens only under the name it was sealed with.
entry(name, value) == [name |-> name, box |-> [name |-> name, value |-> value]]
ZeroEntry == [name |-> None, box |-> [name |-> None, value |-> None]]

\* A call: its arguments (name, value, slot), where it is, what it has loaded
\* (array, length, index, entry) and, for Open, the error or the plaintext
\* buffer it returned.  Of a read, seen is every value its name had since it
\* began and late whether its session had been locked by then.
Frame(op, at, name, value, slot) ==
    [op |-> op, at |-> at, name |-> name, value |-> value, slot |-> slot,
     p |-> None, n |-> None, i |-> 1, e |-> ZeroEntry,
     result |-> None, seen |-> {}, late |-> FALSE]

Idle == Frame("None", "idle", None, None, None)

Init ==
    /\ arrays = << <<>> >>
    /\ ptr = 1
    /\ len = 0
    /\ slots = [n \in Slots |-> IF n = 0 THEN 1 ELSE 0]
    /\ locked = [s \in Sessions |-> FALSE]
    /\ mutex = [s \in Sessions |-> None]
    /\ call = [t \in Threads |-> Idle]
    /\ content = [name \in Names |-> None]
    /\ corrupted = FALSE

-----------------------------------------------------------------------------
(* Entering and leaving *)

secretWords == <<arrays, ptr, len>>
At(t, at) == call[t].at = at
My(t) == SessionOf[t]
Step(t, f) == call' = [call EXCEPT ![t] = f]

\* The call returns and the deferred Unlock runs.  What a read returned stays
\* with the caller until it is done with it; other results are not looked at.
Return(t, result) ==
    /\ Step(t, IF call[t].op = "Open"
               THEN [Frame("Open", "returned", call[t].name, None, None) EXCEPT
                        !.result = result, !.seen = call[t].seen, !.late = call[t].late]
               ELSE Idle)
    /\ mutex' = [mutex EXCEPT ![My(t)] = None]

\* The call of t has made name's value x; every reader of name may return it.
Commit(t, name, x) ==
    /\ content' = [content EXCEPT ![name] = x]
    /\ mutex' = [mutex EXCEPT ![My(t)] = None]
    /\ call' = [u \in Threads |->
                  IF u = t THEN Idle
                  ELSE IF call[u].op = "Open" /\ call[u].at # "returned" /\ call[u].name = name
                       THEN [call[u] EXCEPT !.seen = @ \union {x}]
                  ELSE call[u]]

Begin(t, op, name, value, slot) ==
    /\ At(t, "idle") /\ op \in Does[t]
    /\ Step(t, [Frame(op, "enter", name, value, slot) EXCEPT
                   !.seen = IF op = "Open" THEN {content[name]} ELSE {},
                   !.late = op = "Open" /\ locked[My(t)]])
    /\ UNCHANGED <<secretWords, slots, locked, mutex, content, corrupted>>

\* The lowest slot that is not in use.
FreeSlot(used) ==
    CHOOSE n \in Slots : used[n] = 0 /\ \A m \in 0..(n - 1) : used[m] > 0

\* EnrollKey(FreeSlot(Slots())): two calls, with a gap between them.
BeginEnroll(t) ==
    /\ mutex[My(t)] = None
    /\ \E n \in Slots : slots[n] = 0
    /\ Begin(t, "EnrollKey", None, None, FreeSlot(slots))

\* Mutant: reads do not take the mutex.
mayEnterReading(t) == call[t].op = "Open" \/ mutex[My(t)] = None

\* s.mu.Lock() returns.
mayEnter(t) == mutex[My(t)] = None

\* len(v.doc.Keys) == 1
oneKey == \E n \in Slots : slots = [m \in Slots |-> IF m = n THEN 1 ELSE 0]

\* Mutant: EnrollKey trusts the caller's slot.
refusalAnySlot(t) ==
    IF locked[My(t)] THEN "ErrLocked"
    ELSE IF call[t].op = "RemoveKey" /\ slots[call[t].slot] = 0
         THEN "ErrNoSuchSlot"
    ELSE IF call[t].op = "RemoveKey" /\ oneKey THEN "ErrLastKey"
    ELSE "nil"

\* Mutant: Open does not ask for the data key.
refusalOpen(t) ==
    IF call[t].op # "Open" /\ locked[My(t)] THEN "ErrLocked"
    ELSE IF call[t].op = "EnrollKey" /\ slots[call[t].slot] > 0
         THEN "ErrSlotOccupied"
    ELSE IF call[t].op = "RemoveKey" /\ slots[call[t].slot] = 0
         THEN "ErrNoSuchSlot"
    ELSE IF call[t].op = "RemoveKey" /\ oneKey THEN "ErrLastKey"
    ELSE "nil"

\* The refusals of each call once it holds the mutex.
refusal(t) ==
    IF locked[My(t)] THEN "ErrLocked"
    ELSE IF call[t].op = "EnrollKey" /\ slots[call[t].slot] > 0
         THEN "ErrSlotOccupied"
    ELSE IF call[t].op = "RemoveKey" /\ slots[call[t].slot] = 0
         THEN "ErrNoSuchSlot"
    ELSE IF call[t].op = "RemoveKey" /\ oneKey THEN "ErrLastKey"
    ELSE "nil"

\* Where each call goes next.  range evaluates the length of the slice once.
entered(c) ==
    CASE c.op = "Open"      -> [c EXCEPT !.at = "header"]
      [] c.op = "Put"       -> [c EXCEPT !.at = "reading"]
      [] c.op = "Delete"    -> [c EXCEPT !.at = "scan", !.n = len]
      [] c.op = "EnrollKey" -> [c EXCEPT !.at = "gesture"]
      [] c.op = "RemoveKey" -> [c EXCEPT !.at = "remove"]

Enter(t) ==
    /\ At(t, "enter") /\ call[t].op # "Lock"
    /\ mayEnter(t)
    /\ IF refusal(t) # "nil" THEN Return(t, refusal(t))
       ELSE /\ mutex' = [mutex EXCEPT ![My(t)] = t]
            /\ Step(t, entered(call[t]))
    /\ UNCHANGED <<secretWords, slots, locked, content, corrupted>>

\* Mutant: Lock gives up when the mutex is held.
LockTrying(t) ==
    /\ At(t, "enter") /\ call[t].op = "Lock"
    /\ locked' = [locked EXCEPT ![My(t)] = mayEnter(t) \/ @]
    /\ Step(t, Idle)
    /\ UNCHANGED <<secretWords, slots, mutex, content, corrupted>>

Lock(t) ==
    /\ At(t, "enter") /\ call[t].op = "Lock"
    /\ mayEnter(t)
    /\ locked' = [locked EXCEPT ![My(t)] = TRUE]
    /\ Return(t, None)
    /\ UNCHANGED <<secretWords, slots, content, corrupted>>

-----------------------------------------------------------------------------
(* Open *)

\* for _, s := range v.Secrets loads the header, word by word.
LoadPtr(t) ==
    /\ At(t, "header") /\ call[t].p = None
    /\ Step(t, [call[t] EXCEPT !.p = ptr, !.at = IF call[t].n = None THEN "header" ELSE "name"])
    /\ UNCHANGED <<secretWords, slots, locked, mutex, content, corrupted>>

LoadLen(t) ==
    /\ At(t, "header") /\ call[t].n = None
    /\ Step(t, [call[t] EXCEPT !.n = len, !.at = IF call[t].p = None THEN "header" ELSE "name"])
    /\ UNCHANGED <<secretWords, slots, locked, mutex, content, corrupted>>

\* The element i is copied, its name first.  The loop checks i against the
\* length it loaded, not against the array it loaded.
CopyName(t) ==
    /\ At(t, "name")
    /\ LET c == call[t]
       IN IF c.i > c.n
          THEN Return(t, "ErrNoSuchSecret") /\ UNCHANGED corrupted
          ELSE IF c.i > Len(arrays[c.p])
          THEN /\ corrupted' = TRUE
               /\ Return(t, None)
          ELSE /\ Step(t, [c EXCEPT !.e.name = arrays[c.p][c.i].name, !.at = "box"])
               /\ UNCHANGED <<mutex, corrupted>>
    /\ UNCHANGED <<secretWords, slots, locked, content>>

\* What openSecret returns for entry e: its plaintext, if the seal was made for
\* the entry's own name.
openSecret(e) == IF e.box.name = e.name THEN e.box.value ELSE "ErrAuthenticating"

\* The rest of the element; if it is the one, decrypt it and hand out a reader
\* over a buffer of its own.
CopyBox(t) ==
    /\ At(t, "box")
    /\ LET c == call[t]
           e == [c.e EXCEPT !.box = arrays[c.p][c.i].box]
       IN IF e.name # c.name
          THEN /\ Step(t, [c EXCEPT !.e = ZeroEntry, !.i = @ + 1, !.at = "name"])
               /\ UNCHANGED mutex
          ELSE Return(t, openSecret(e))
    /\ UNCHANGED <<secretWords, slots, locked, content, corrupted>>

\* The caller has what Open returned: an error, or a reader over a buffer that
\* nothing else refers to, so reading and closing it touch no variable here.
TakeResult(t) ==
    /\ At(t, "returned")
    /\ Step(t, Idle)
    /\ UNCHANGED <<secretWords, slots, locked, mutex, content, corrupted>>

-----------------------------------------------------------------------------
(* Put and Delete *)

\* io.ReadAll returns what the caller's reader yields.
ReaderEnds(t) ==
    /\ At(t, "reading")
    /\ Step(t, [call[t] EXCEPT !.at = "scan", !.n = len])
    /\ UNCHANGED <<secretWords, slots, locked, mutex, content, corrupted>>

\* The caller's reader fails.
ReaderFails(t) ==
    /\ At(t, "reading")
    /\ Return(t, "ErrReading")
    /\ UNCHANGED <<secretWords, slots, locked, content, corrupted>>

\* Mutant: the names are not compared.
ScanPastAny(t) ==
    /\ At(t, "scan") /\ call[t].i <= call[t].n
    /\ Step(t, [call[t] EXCEPT !.i = @ + 1])
    /\ UNCHANGED <<secretWords, slots, locked, mutex, content, corrupted>>

\* The next element has another name.
ScanPast(t) ==
    /\ At(t, "scan") /\ call[t].i <= call[t].n
    /\ arrays[ptr][call[t].i].name # call[t].name
    /\ Step(t, [call[t] EXCEPT !.i = @ + 1])
    /\ UNCHANGED <<secretWords, slots, locked, mutex, content, corrupted>>

\* Put replaces the entry it finds.
Replace(t) ==
    /\ At(t, "scan") /\ call[t].op = "Put" /\ call[t].i <= call[t].n
    /\ arrays[ptr][call[t].i].name = call[t].name
    /\ arrays' = [arrays EXCEPT ![ptr][call[t].i] = entry(call[t].name, call[t].value)]
    /\ Commit(t, call[t].name, call[t].value)
    /\ UNCHANGED <<ptr, len, slots, locked, corrupted>>

\* append writes past the length where there is room, else into a new array of
\* twice the capacity.  The header still says what it said.  (Compilers store
\* element and header words in any order they like.)
Append_(t) ==
    /\ At(t, "scan") /\ call[t].op = "Put" /\ call[t].i > call[t].n
    /\ LET old == arrays[ptr]
           new == entry(call[t].name, call[t].value)
       IN IF len < Len(old)
          THEN /\ arrays' = [arrays EXCEPT ![ptr][len + 1] = new]
               /\ Step(t, [call[t] EXCEPT !.at = "store", !.p = ptr, !.n = len + 1])
          ELSE /\ arrays' = Append(arrays,
                               [i \in 1..(IF len = 0 THEN 1 ELSE 2 * len) |->
                                   IF i <= len THEN old[i] ELSE IF i = len + 1 THEN new ELSE ZeroEntry])
               /\ Step(t, [call[t] EXCEPT !.at = "store", !.p = Len(arrays) + 1, !.n = len + 1])
    /\ UNCHANGED <<ptr, len, slots, locked, mutex, content, corrupted>>

\* The backing arrays once ptr has moved on; one that nobody holds is garbage.
collected(t) ==
    IF \E u \in Threads \ {t} : call[u].p = ptr THEN arrays ELSE [arrays EXCEPT ![ptr] = <<>>]

\* The two words of the new header are stored one after the other.
StoreWord(t) ==
    /\ At(t, "store")
    /\ \/ ptr # call[t].p /\ ptr' = call[t].p /\ arrays' = collected(t) /\ UNCHANGED len
       \/ len # call[t].n /\ len' = call[t].n /\ UNCHANGED <<arrays, ptr>>
    /\ IF ptr' = call[t].p /\ len' = call[t].n
       THEN Commit(t, call[t].name, call[t].value)
       ELSE UNCHANGED <<call, mutex, content>>
    /\ UNCHANGED <<slots, locked, corrupted>>

\* Mutant: the last element is left behind.
lastShifted(n) == n - 2

\* The last position that Delete moves an element to.
lastShift(n) == n - 1

\* Delete has found its entry: the elements after it move down one by one, the
\* words of each one by one, then the length is stored.
Shift(t) ==
    /\ At(t, "scan") /\ call[t].op = "Delete" /\ call[t].i <= call[t].n
    /\ arrays[ptr][call[t].i].name = call[t].name
    /\ Step(t, [call[t] EXCEPT !.at = "shift"])
    /\ UNCHANGED <<secretWords, slots, locked, mutex, content, corrupted>>

ShiftWord(t) ==
    /\ At(t, "shift") /\ call[t].i <= lastShift(call[t].n)
    /\ LET i == call[t].i
           a == arrays[ptr]
       IN \/ /\ a[i].name # a[i + 1].name
             /\ arrays' = [arrays EXCEPT ![ptr][i].name = a[i + 1].name]
             /\ UNCHANGED call
          \/ /\ a[i].name = a[i + 1].name
             /\ arrays' = [arrays EXCEPT ![ptr][i].box = a[i + 1].box]
             /\ Step(t, [call[t] EXCEPT !.i = @ + 1])
    /\ UNCHANGED <<ptr, len, slots, locked, mutex, content, corrupted>>

ShiftEnds(t) ==
    /\ At(t, "shift") /\ call[t].i > lastShift(call[t].n)
    /\ len' = call[t].n - 1
    /\ Commit(t, call[t].name, None)
    /\ UNCHANGED <<arrays, ptr, slots, locked, corrupted>>

DeleteMisses(t) ==
    /\ At(t, "scan") /\ call[t].op = "Delete" /\ call[t].i > call[t].n
    /\ Return(t, "ErrNoSuchSecret")
    /\ UNCHANGED <<secretWords, slots, locked, content, corrupted>>

-----------------------------------------------------------------------------
(* EnrollKey and RemoveKey *)

\* The gestures end, the mutex held all along: the new entry is appended, or
\* the operator or the platform has given up.
GestureEnds(t) ==
    /\ At(t, "gesture")
    /\ \/ slots' = [slots EXCEPT ![call[t].slot] = @ + 1] /\ Return(t, None)
       \/ UNCHANGED slots /\ Return(t, "ErrProvider")
    /\ UNCHANGED <<secretWords, locked, content, corrupted>>

\* removeKey builds a new slice of the entries that it keeps: none of the slot's.
RemoveKey(t) ==
    /\ At(t, "remove")
    /\ slots' = [slots EXCEPT ![call[t].slot] = 0]
    /\ Return(t, None)
    /\ UNCHANGED <<secretWords, locked, content, corrupted>>

-----------------------------------------------------------------------------

\* A step of the call of t other than waiting for the mutex.
Proceed(t) ==
    \/ LoadPtr(t) \/ LoadLen(t) \/ CopyName(t) \/ CopyBox(t) \/ TakeResult(t)
    \/ ReaderEnds(t) \/ ReaderFails(t) \/ ScanPast(t) \/ Replace(t) \/ Append_(t)
    \/ StoreWord(t) \/ Shift(t) \/ ShiftWord(t) \/ ShiftEnds(t) \/ DeleteMisses(t)
    \/ GestureEnds(t) \/ RemoveKey(t)

Next ==
    \E t \in Threads :
       \/ \E name \in Names : Begin(t, "Open", name, None, None)
       \/ \E name \in Names, value \in Values : Begin(t, "Put", name, value, None)
       \/ \E name \in Names : Begin(t, "Delete", name, None, None)
       \/ Begin(t, "Lock", None, None, None)
       \/ BeginEnroll(t)
       \/ \E slot \in Slots : Begin(t, "RemoveKey", None, None, slot)
       \/ Enter(t)
       \/ Lock(t)
       \/ Proceed(t)

\* A goroutine inside a call runs on, its reader ends and its prompt times out;
\* a mutex that is released again and again is handed to every waiter, as
\* sync.Mutex does in its starvation mode.
Fairness ==
    \A t \in Threads : /\ WF_vars(Proceed(t))
                       /\ SF_vars(Enter(t))
                       /\ SF_vars(Lock(t))

Spec == Init /\ [][Next]_vars /\ Fairness

-----------------------------------------------------------------------------
(* Properties *)

\* Types of the variables.
TypeOK ==
    /\ ptr \in DOMAIN arrays
    /\ len \in 0..Cardinality(Names)
    /\ mutex \in [Sessions -> Threads \union {None}]
    /\ locked \in [Sessions -> BOOLEAN]
    /\ content \in [Names -> Values \union {None}]
    /\ slots \in [Slots -> Nat]
    /\ \A t \in Threads : call[t].at \in {"idle", "enter", "header", "name", "box", "returned",
                                        "reading", "scan", "store", "shift", "gesture", "remove"}

\* "mu [...] stops a concurrent administrative call from corrupting memory"
\* (vault.go:379-380): no read goes past the end of the array it reads.
NoMemoryCorruption == ~corrupted

\* A read returns a value its name had while the call ran, or says there is
\* none only when there was a moment without one: no interleaving of Put and
\* Delete shows a reader another secret, a half-moved entry or an entry that
\* does not decrypt ("any number of goroutines may read at once",
\* vault.go:107).
ReadsAreAtomic ==
    \A t \in Threads :
       At(t, "returned") =>
          \/ call[t].result = "ErrLocked"
          \/ call[t].result = "ErrNoSuchSecret" /\ None \in call[t].seen
          \/ call[t].result \in call[t].seen \ {None}

\* Whenever no call holds a mutex, the slice lists each name once and exactly
\* what the completed calls have put, whatever was replaced, appended over the
\* old tail or shifted before (vault.go:466-474, 483-488).
SliceMatchesContent ==
    (\A s \in Sessions : mutex[s] = None) =>
       /\ \A i, j \in 1..len : arrays[ptr][i].name = arrays[ptr][j].name => i = j
       /\ {arrays[ptr][i] : i \in 1..len} =
             {entry(name, content[name]) : name \in {x \in Names : content[x] # None}}

\* However many goroutines pick a slot with FreeSlot and enroll into it, no two
\* keys share a slot (vault.go:138-155, 503).
SlotsUnique == \A n \in Slots : slots[n] <= 1

\* A read that starts once Lock has returned yields no plaintext
\* (vault.go:106-108, 403-408).
NoReadAfterLock ==
    \A t \in Threads :
       At(t, "returned") /\ call[t].late => call[t].result \notin Values

\* Lock comes to hold the mutex and forgets the key, whatever the other
\* goroutines of the session do, prompts and slow readers included.
LockReturns ==
    \A t \in Threads : (call[t].op = "Lock" /\ call[t].at = "enter") ~> locked[My(t)]

-----------------------------------------------------------------------------
(* What the properties rest on *)

Reading == {"header", "name", "box"}
Writing == {"reading", "scan", "store", "shift", "gesture", "remove"}
Mutators == {"Put", "Delete", "EnrollKey", "RemoveKey"}

\* Whoever changes the document does so through one session, as Admin asks of
\* its callers (vault.go:138-155).
AdminSerialized ==
    \A t, u \in Threads :
       Does[t] \cap Mutators # {} /\ Does[u] \cap Mutators # {} => My(t) = My(u)

\* Every goroutine shares one session.
OneSessionOnly == \A t, u \in Threads : My(t) = My(u)

Entries == [name : Names \union {None},
            box : [name : Names \union {None}, value : Values \union {None}]]

\* Where each call can be, what it has by then, and that it holds the mutex
\* from when it enters until it returns.
CallOK(t, c) ==
    /\ c.at \in {"idle", "enter", "returned"} \union Reading \union Writing
    /\ c.at # "idle" => c.op \in Does[t] /\ c.op \in Mutators \union {"Open", "Lock"}
    /\ c.at \in {"returned"} \union Reading => c.op = "Open"
    /\ c.at \in {"reading", "store"} => c.op = "Put"
    /\ c.at = "scan" => c.op \in {"Put", "Delete"}
    /\ c.at = "shift" => c.op = "Delete"
    /\ c.at = "gesture" => c.op = "EnrollKey"
    /\ c.at = "remove" => c.op = "RemoveKey"
    /\ c.at # "idle" /\ c.op \in {"Open", "Put", "Delete"} => c.name \in Names
    /\ c.at # "idle" /\ c.op = "Put" => c.value \in Values
    /\ c.at \in {"enter", "reading"} => c.i = 1
    /\ c.at = "enter" => c.p = None /\ c.n = None
    /\ c.at \in Reading \union Writing => mutex[My(t)] = t

\* A read that began after Lock is on its way to a refusal.
LateOK(t, c) ==
    c.late => \/ c.at = "enter" /\ locked[My(t)]
              \/ c.at = "returned" /\ c.result = "ErrLocked"

CallInv ==
    /\ mutex \in [Sessions -> Threads \union {None}]
    /\ locked \in [Sessions -> BOOLEAN]
    /\ \A t \in Threads : CallOK(t, call[t]) /\ LateOK(t, call[t])

\* The elements of a at the positions in I are, one each, the secrets in held.
lists(a, I, held) ==
    /\ \A i, j \in I : a[i].name = a[j].name => i = j
    /\ \A i \in I : /\ a[i].name \in Names /\ held[a[i].name] # None
                    /\ a[i] = entry(a[i].name, held[a[i].name])
    /\ \A name \in Names : held[name] # None => \E i \in I : a[i].name = name

\* How far the call of t has come with the slice: what it has passed has other
\* names, a header it is to store is that of a whole new slice, and what it
\* shifts is whole but for the element at i.
SliceOK(t, c) ==
    /\ c.at = "scan" =>
          /\ c.n = len /\ c.i \in 1..(len + 1)
          /\ \A j \in 1..(c.i - 1) : arrays[ptr][j].name # c.name
    /\ c.at = "store" =>
          /\ c.p \in DOMAIN arrays
          /\ c.n \in 1..Cardinality(Names) /\ c.n <= Len(arrays[c.p])
          /\ lists(arrays[c.p], 1..c.n, [content EXCEPT ![c.name] = c.value])
    /\ c.at = "shift" =>
          /\ c.n = len /\ c.i \in 1..len /\ len <= Len(arrays[ptr])
          /\ lists(arrays[ptr], (1..len) \ {c.i}, [content EXCEPT ![c.name] = None])

SliceInv ==
    /\ arrays \in Seq(Seq(Entries))
    /\ ptr \in DOMAIN arrays
    /\ len \in 0..Cardinality(Names)
    /\ content \in [Names -> Values \union {None}]
    /\ \A t \in Threads : SliceOK(t, call[t])
    /\ (\A t \in Threads : call[t].at \notin {"store", "shift"}) =>
          len <= Len(arrays[ptr]) /\ lists(arrays[ptr], 1..len, content)

\* A slot that a gesture is under way for is free.
SlotInv ==
    /\ slots \in [Slots -> Nat]
    /\ \A n \in Slots : slots[n] <= 1
    /\ \A t \in Threads : At(t, "gesture") /\ call[t].slot \in Slots => slots[call[t].slot] = 0

\* What a reader has loaded is still so, and its name's value is one it may
\* return.
ReadOK(t, c) ==
    /\ c.op = "Open" /\ c.at \in {"enter"} \union Reading => content[c.name] \in c.seen
    /\ c.at = "header" => c.p \in {None, ptr} /\ c.n \in {None, len} /\ c.i = 1
    /\ c.at \in {"name", "box"} =>
          /\ c.p = ptr /\ c.n = len
          /\ c.i \in 1..(IF c.at = "box" THEN len ELSE len + 1)
          /\ \A j \in 1..(c.i - 1) : arrays[ptr][j].name # c.name
    /\ c.at \in {"enter", "header", "name"} => c.e = ZeroEntry
    /\ c.at = "box" => c.e = [ZeroEntry EXCEPT !.name = arrays[ptr][c.i].name]
    /\ c.at = "returned" =>
          \/ c.result = "ErrLocked"
          \/ c.result = "ErrNoSuchSecret" /\ None \in c.seen
          \/ c.result \in c.seen \ {None}

ReadInv == ~corrupted /\ \A t \in Threads : ReadOK(t, call[t])

=============================================================================
