-------------------------------- MODULE Archive --------------------------------
(***************************************************************************)
(* What the capture file promises to whoever reads it later, whatever      *)
(* happened to the processes that wrote it.  The file holds slices: the    *)
(* whole of what one sweep fetched, under one timestamp.  A slice comes    *)
(* with a record of each fault in it, and a sweep is vouched for only when *)
(* its slice is there.  A power failure takes the file back to some state  *)
(* it was in, and so never separates them.  Ingest implements it.          *)
(***************************************************************************)
EXTENDS Integers, Sequences, SequencesExt

CONSTANTS
    Sweep,
    Observation,    \* records with the fields market, crossed, ...
    Time

VARIABLES
    fetched,        \* what each sweep has fetched so far
    file,           \* [slice, faults, vouched]
    past            \* the states the file may go back to

vars == <<fetched, file, past>>

Marking == Sweep \X {o.market : o \in Observation}
Row == [sweep : Sweep, captured_at : Time, quote : Observation]
File == [slice : [Sweep -> Seq(Row)], faults : SUBSET Marking, vouched : SUBSET Sweep]

EmptyFile == [slice |-> [s \in Sweep |-> <<>>], faults |-> {}, vouched |-> {}]

TypeOK ==
    /\ fetched \in [Sweep -> Seq(Observation)]
    /\ file \in File
    /\ past \subseteq File
    /\ file \in past

Init ==
    /\ fetched = [s \in Sweep |-> <<>>]
    /\ file = EmptyFile
    /\ past = {EmptyFile}

--------------------------------------------------------------------------------

SliceOf(s, t) ==
    [i \in DOMAIN fetched[s] |-> [sweep |-> s, captured_at |-> t, quote |-> fetched[s][i]]]

\* The file changes, and a power failure may or may not undo it.
Change(new) ==
    /\ file' = new
    /\ past' = past \union {new}

\* A sweep that has not been added fetches more.
Fetch(s) ==
    /\ \A f \in past : f.slice[s] = <<>> /\ s \notin f.vouched
    /\ fetched' \in [Sweep -> Seq(Observation)]
    /\ IsPrefix(fetched[s], fetched'[s])
    /\ \A r \in Sweep \ {s} : fetched'[r] = fetched[r]
    /\ UNCHANGED <<file, past>>

\* A fault in what a sweep has fetched is put on record ...
Flag(s) ==
    /\ \E i \in DOMAIN fetched[s] :
         /\ fetched[s][i].crossed
         /\ Change([file EXCEPT !.faults = @ \union {<<s, fetched[s][i].market>>}])
    /\ UNCHANGED fetched

\* ... before the sweep is added, whole.
Add(s) ==
    /\ file.slice[s] = <<>>
    /\ \A i \in DOMAIN fetched[s] :
         fetched[s][i].crossed => <<s, fetched[s][i].market>> \in file.faults
    /\ \E t \in Time : Change([file EXCEPT !.slice[s] = SliceOf(s, t)])
    /\ UNCHANGED fetched

\* A sweep is vouched for when all that it fetched is there.
Vouch(s) ==
    /\ Len(file.slice[s]) = Len(fetched[s])
    /\ Change([file EXCEPT !.vouched = @ \union {s}])
    /\ UNCHANGED fetched

\* What is in the file is there to stay.
Sync ==
    /\ past' = {file}
    /\ UNCHANGED <<fetched, file>>

\* Power fails.
Lose ==
    /\ file' \in past
    /\ past' = {file'}
    /\ UNCHANGED fetched

Next ==
    \/ \E s \in Sweep : Fetch(s) \/ Flag(s) \/ Add(s) \/ Vouch(s)
    \/ Sync
    \/ Lose

Spec == Init /\ [][Next]_vars

--------------------------------------------------------------------------------
(* Properties, of every state the file is in or may go back to *)

\* A slice is all that its sweep fetched, in order and with one timestamp.
Whole ==
    \A f \in past : \A s \in Sweep :
        f.slice[s] = <<>> \/ \E t \in Time : f.slice[s] = SliceOf(s, t)

\* No row of a crossed book is without the record of the fault.
FaultsOnRecord ==
    \A f \in past : \A s \in Sweep : \A i \in DOMAIN f.slice[s] :
        f.slice[s][i].quote.crossed => <<s, f.slice[s][i].quote.market>> \in f.faults

\* What is vouched for is there.
VouchedIsThere ==
    \A f \in past : \A s \in f.vouched : Len(f.slice[s]) = Len(fetched[s])

\* The timestamp and the rows of a slice never change: it is there, or it is lost.
SliceFinal ==
    [][\A s \in Sweep : file.slice[s] # <<>> => file'.slice[s] \in {file.slice[s], <<>>}]_vars

================================================================================
