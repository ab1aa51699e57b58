----------------------------- MODULE ArchiveProofs ------------------------------
(* Theorems about Archive, for any sweeps, observations and times. *)
EXTENDS Archive, TLAPS

--------------------------------------------------------------------------------
(* Slices *)

\* A slice is a sequence of rows, one for each observation, in its order.
LEMMA SliceRows ==
  ASSUME TypeOK, NEW s \in Sweep, NEW t \in Time
  PROVE  /\ SliceOf(s, t) \in Seq(Row)
         /\ Len(SliceOf(s, t)) = Len(fetched[s])
         /\ DOMAIN SliceOf(s, t) = DOMAIN fetched[s]
         /\ \A i \in DOMAIN fetched[s] : SliceOf(s, t)[i].quote = fetched[s][i]
  <1> DEFINE q == fetched[s]
  <1>1. q \in Seq(Observation)
    BY DEF TypeOK
  <1>2. DOMAIN q = 1..Len(q) /\ Len(q) \in Nat /\ \A i \in DOMAIN q : q[i] \in Observation
    BY <1>1
  <1>3. \A i \in 1..Len(q) : [sweep |-> s, captured_at |-> t, quote |-> q[i]] \in Row
    BY <1>2 DEF Row
  <1>4. SliceOf(s, t) = [i \in 1..Len(q) |-> [sweep |-> s, captured_at |-> t, quote |-> q[i]]]
    BY <1>2 DEF SliceOf
  <1> QED BY <1>2, <1>3, <1>4

LEMMA InitTyped == Init => TypeOK
  BY DEF Init, TypeOK, EmptyFile, File

\* A file that changes is still a file.
LEMMA ChangeTyped ==
  ASSUME TypeOK, NEW new \in File, Change(new), UNCHANGED fetched
  PROVE  TypeOK'
  BY DEF TypeOK, Change

LEMMA StepTyped == TypeOK /\ [Next]_vars => TypeOK'
  <1> SUFFICES ASSUME TypeOK, [Next]_vars PROVE TypeOK'
    OBVIOUS
  <1>1. ASSUME NEW s \in Sweep, Fetch(s) PROVE TypeOK'
    BY <1>1 DEF Fetch, TypeOK
  <1>2. ASSUME NEW s \in Sweep, Flag(s) PROVE TypeOK'
    <2>1. PICK i \in DOMAIN fetched[s] :
            Change([file EXCEPT !.faults = @ \union {<<s, fetched[s][i].market>>}])
      BY <1>2 DEF Flag
    <2>2. fetched[s][i] \in Observation
      BY DEF TypeOK
    <2>3. <<s, fetched[s][i].market>> \in Marking
      BY <2>2 DEF Marking
    <2>4. [file EXCEPT !.faults = @ \union {<<s, fetched[s][i].market>>}] \in File
      <3> HIDE DEF Marking
      <3> QED BY <2>3 DEF TypeOK, File
    <2> QED BY <1>2, <2>1, <2>4, ChangeTyped DEF Flag
  <1>3. ASSUME NEW s \in Sweep, Add(s) PROVE TypeOK'
    <2>1. PICK t \in Time : Change([file EXCEPT !.slice[s] = SliceOf(s, t)])
      BY <1>3 DEF Add
    <2>2. [file EXCEPT !.slice[s] = SliceOf(s, t)] \in File
      BY SliceRows DEF TypeOK, File
    <2> QED BY <1>3, <2>1, <2>2, ChangeTyped DEF Add
  <1>4. ASSUME NEW s \in Sweep, Vouch(s) PROVE TypeOK'
    <2>1. [file EXCEPT !.vouched = @ \union {s}] \in File
      BY DEF TypeOK, File
    <2> QED BY <1>4, <2>1, ChangeTyped DEF Vouch
  <1>5. CASE Sync
    BY <1>5 DEF Sync, TypeOK
  <1>6. CASE Lose
    BY <1>6 DEF Lose, TypeOK
  <1>7. CASE UNCHANGED vars
    BY <1>7 DEF vars, TypeOK
  <1> QED BY <1>1, <1>2, <1>3, <1>4, <1>5, <1>6, <1>7 DEF Next

\* Every variable keeps its type.
THEOREM Typed == Spec => []TypeOK
  <1> QED BY InitTyped, StepTyped, PTL DEF Spec

--------------------------------------------------------------------------------
(* What a state of the file promises, of the sweeps' fetches as they are. *)

WholeIn(f) == \A s \in Sweep : f.slice[s] = <<>> \/ \E t \in Time : f.slice[s] = SliceOf(s, t)
OnRecordIn(f) ==
    \A s \in Sweep : \A i \in DOMAIN f.slice[s] :
        f.slice[s][i].quote.crossed => <<s, f.slice[s][i].quote.market>> \in f.faults
VouchedIn(f) == \A s \in f.vouched : Len(f.slice[s]) = Len(fetched[s])

Kept(f) == WholeIn(f) /\ OnRecordIn(f) /\ VouchedIn(f)

\* Where a state of past has a slice, the file has the same.
Agree == \A f \in past : \A s \in Sweep : f.slice[s] \in {file.slice[s], <<>>}

\* The three properties hold in every state of past, and the file is one of them.
Inv == TypeOK /\ Agree /\ \A f \in past : Kept(f)

LEMMA InvInit == Init => Inv
  <1> SUFFICES ASSUME Init PROVE Inv
    OBVIOUS
  <1>1. Kept(EmptyFile)
    BY DEF Kept, WholeIn, OnRecordIn, VouchedIn, EmptyFile
  <1> QED BY <1>1, InitTyped DEF Init, Inv, Agree

\* What is kept of a file depends on nothing but what has been fetched.
LEMMA KeptStays ==
  ASSUME NEW f, Kept(f), UNCHANGED fetched
  PROVE  Kept(f)'
  BY DEF Kept, WholeIn, OnRecordIn, VouchedIn, SliceOf

\* To keep all the promises it is enough to keep those of the new state.
LEMMA ChangeKeeps ==
  ASSUME Inv, NEW new, Change(new), Kept(new), UNCHANGED fetched
  PROVE  \A f \in past' : Kept(f)'
  BY KeptStays DEF Inv, Change

LEMMA FetchKeeps ==
  ASSUME Inv, NEW s \in Sweep, Fetch(s)
  PROVE  \A f \in past' : Kept(f)'
  <1> SUFFICES ASSUME NEW f \in past PROVE Kept(f)'
    BY DEF Fetch
  <1>1. Kept(f) /\ f \in File /\ f.slice[s] = <<>> /\ s \notin f.vouched
    BY DEF Inv, Fetch, TypeOK
  <1>2. \A r \in Sweep \ {s} : fetched'[r] = fetched[r]
    BY DEF Fetch
  <1>3. \A r \in Sweep \ {s}, t \in Time : SliceOf(r, t)' = SliceOf(r, t)
    BY <1>2 DEF SliceOf
  <1>4. WholeIn(f)'
    BY <1>1, <1>3 DEF Kept, WholeIn
  <1>5. VouchedIn(f)'
    BY <1>1, <1>2 DEF Kept, VouchedIn, File
  <1> QED BY <1>1, <1>4, <1>5 DEF Kept, OnRecordIn

LEMMA FlagKeeps ==
  ASSUME Inv, NEW s \in Sweep, Flag(s)
  PROVE  \A f \in past' : Kept(f)'
  <1>1. PICK i \in DOMAIN fetched[s] :
          Change([file EXCEPT !.faults = @ \union {<<s, fetched[s][i].market>>}])
    BY DEF Flag
  <1> DEFINE new == [file EXCEPT !.faults = @ \union {<<s, fetched[s][i].market>>}]
  <1>2. file \in File /\ Kept(file)
    BY DEF Inv, TypeOK
  <1>3. new.slice = file.slice /\ new.vouched = file.vouched /\ file.faults \subseteq new.faults
    BY <1>2 DEF File
  <1> HIDE DEF new
  <1>4. Kept(new)
    BY <1>2, <1>3 DEF Kept, WholeIn, OnRecordIn, VouchedIn
  <1> QED BY <1>1, <1>4, ChangeKeeps DEF Flag, new

\* A whole slice whose faults are on record joins the file.
LEMMA AddKeeps ==
  ASSUME Inv, NEW s \in Sweep, Add(s)
  PROVE  \A f \in past' : Kept(f)'
  <1>1. PICK t \in Time : Change([file EXCEPT !.slice[s] = SliceOf(s, t)])
    BY DEF Add
  <1> DEFINE new == [file EXCEPT !.slice[s] = SliceOf(s, t)]
  <1>2. TypeOK /\ file \in File /\ Kept(file)
    BY DEF Inv, TypeOK
  <1>3. /\ new.slice[s] = SliceOf(s, t)
        /\ \A r \in Sweep \ {s} : new.slice[r] = file.slice[r]
        /\ new.faults = file.faults /\ new.vouched = file.vouched
    BY <1>2 DEF File
  <1>4. file.vouched \subseteq Sweep
    BY <1>2 DEF File
  <1> HIDE DEF new
  <1>5. WholeIn(new)
    BY <1>2, <1>3 DEF Kept, WholeIn
  <1>6. OnRecordIn(new)
    <2> SUFFICES ASSUME NEW r \in Sweep, NEW i \in DOMAIN new.slice[r],
                        new.slice[r][i].quote.crossed
                 PROVE  <<r, new.slice[r][i].quote.market>> \in new.faults
      BY DEF OnRecordIn
    <2>1. CASE r = s
      <3>1. i \in DOMAIN fetched[s] /\ new.slice[s][i].quote = fetched[s][i]
        BY <1>2, <1>3, <2>1, SliceRows
      <3> QED BY <1>3, <2>1, <3>1 DEF Add
    <2>2. CASE r # s
      BY <1>2, <1>3, <2>2 DEF Kept, OnRecordIn
    <2> QED BY <2>1, <2>2
  <1>7. VouchedIn(new)
    <2>1. Len(new.slice[s]) = Len(fetched[s])
      BY <1>2, <1>3, SliceRows
    <2> QED BY <1>2, <1>3, <1>4, <2>1 DEF Kept, VouchedIn
  <1>8. Kept(new)
    BY <1>5, <1>6, <1>7 DEF Kept
  <1> QED BY <1>1, <1>8, ChangeKeeps DEF Add, new

LEMMA VouchKeeps ==
  ASSUME Inv, NEW s \in Sweep, Vouch(s)
  PROVE  \A f \in past' : Kept(f)'
  <1> DEFINE new == [file EXCEPT !.vouched = @ \union {s}]
  <1>1. file \in File /\ Kept(file)
    BY DEF Inv, TypeOK
  <1>2. new.slice = file.slice /\ new.faults = file.faults /\ new.vouched = file.vouched \union {s}
    BY <1>1 DEF File
  <1>3. Change(new) /\ UNCHANGED fetched /\ Len(file.slice[s]) = Len(fetched[s])
    BY DEF Vouch
  <1> HIDE DEF new
  <1>4. Kept(new)
    BY <1>1, <1>2, <1>3 DEF Kept, WholeIn, OnRecordIn, VouchedIn
  <1> QED BY <1>3, <1>4, ChangeKeeps

LEMMA AgreeStep == Inv /\ [Next]_vars => Agree'
  <1> SUFFICES ASSUME Inv, [Next]_vars, NEW f \in past', NEW r \in Sweep
               PROVE  f.slice[r] \in {file'.slice[r], <<>>}
    BY DEF Agree
  <1>1. file \in File /\ Agree /\ file \in past
    BY DEF Inv, TypeOK
  <1>2. ASSUME NEW s \in Sweep, Fetch(s) PROVE f.slice[r] \in {file'.slice[r], <<>>}
    BY <1>1, <1>2 DEF Fetch, Agree
  <1>3. ASSUME NEW s \in Sweep, Flag(s) \/ Vouch(s)
        PROVE  f.slice[r] \in {file'.slice[r], <<>>}
    BY <1>1, <1>3 DEF Flag, Vouch, Change, Agree, File
  <1>4. ASSUME NEW s \in Sweep, Add(s) PROVE f.slice[r] \in {file'.slice[r], <<>>}
    <2>1. r # s => file'.slice[r] = file.slice[r]
      BY <1>1, <1>4 DEF Add, Change, File
    <2>2. file.slice[s] = <<>> /\ past' = past \union {file'}
      BY <1>4 DEF Add, Change
    <2> QED BY <1>1, <2>1, <2>2 DEF Agree
  <1>5. CASE Sync
    BY <1>5 DEF Sync
  <1>6. CASE Lose
    BY <1>6 DEF Lose
  <1>7. CASE UNCHANGED vars
    BY <1>1, <1>7 DEF vars, Agree
  <1> QED BY <1>2, <1>3, <1>4, <1>5, <1>6, <1>7 DEF Next

LEMMA InvStep == Inv /\ [Next]_vars => Inv'
  <1> SUFFICES ASSUME Inv, [Next]_vars PROVE Inv'
    OBVIOUS
  <1>1. TypeOK'
    BY StepTyped DEF Inv
  <1>2. \A f \in past' : Kept(f)'
    <2>1. CASE Sync
      BY <2>1, KeptStays DEF Sync, Inv, TypeOK
    <2>2. CASE Lose
      BY <2>2, KeptStays DEF Lose, Inv, TypeOK
    <2>3. CASE UNCHANGED vars
      BY <2>3, KeptStays DEF vars, Inv
    <2> QED BY <2>1, <2>2, <2>3, FetchKeeps, FlagKeeps, AddKeeps, VouchKeeps DEF Next
  <1> QED BY <1>1, <1>2, AgreeStep DEF Inv

LEMMA Invariant == Spec => []Inv
  <1> QED BY InvInit, InvStep, PTL DEF Spec

--------------------------------------------------------------------------------

\* In every state the file is in or may be taken back to, a slice is all that its
\* sweep fetched and no row of a crossed book lacks the record of the fault, and a
\* sweep that is vouched for is there.
THEOREM PromisesKept == Spec => [](Whole /\ FaultsOnRecord /\ VouchedIsThere)
  <1>1. Inv => Whole /\ FaultsOnRecord /\ VouchedIsThere
    BY DEF Inv, Kept, WholeIn, OnRecordIn, VouchedIn, Whole, FaultsOnRecord, VouchedIsThere
  <1> QED BY <1>1, Invariant, PTL

\* No step turns a slice into another one.
THEOREM SlicesAreFinal == Spec => SliceFinal
  <1> DEFINE Final == \A s \in Sweep : file.slice[s] # <<>> =>
                                         file'.slice[s] \in {file.slice[s], <<>>}
  <1>1. Inv /\ [Next]_vars => [Final]_vars
    <2> SUFFICES ASSUME Inv, Next, NEW r \in Sweep, file.slice[r] # <<>>
                 PROVE  file'.slice[r] \in {file.slice[r], <<>>}
      OBVIOUS
    <2>1. file \in File
      BY DEF Inv, TypeOK
    <2>2. ASSUME NEW s \in Sweep, Fetch(s) \/ Flag(s) \/ Vouch(s)
          PROVE  file'.slice[r] = file.slice[r]
      BY <2>1, <2>2 DEF Fetch, Flag, Vouch, Change, File
    <2>3. ASSUME NEW s \in Sweep, Add(s) PROVE file'.slice[r] = file.slice[r]
      BY <2>1, <2>3 DEF Add, Change, File
    <2>4. CASE Sync
      BY <2>4 DEF Sync
    <2>5. CASE Lose
      BY <2>5 DEF Lose, Inv, Agree
    <2> QED BY <2>2, <2>3, <2>4, <2>5 DEF Next
  <1> QED BY <1>1, Invariant, PTL DEF Spec, SliceFinal

================================================================================
