------------------------------- MODULE Seats -------------------------------
(***************************************************************************)
(* The seats poll: a timer and an operator may both start it; each checks   *)
(* window and interval, one of them gets the job's lock, reads the poll set *)
(* section by section, and writes the readings in batches: the current      *)
(* state of a section, and a snapshot for the chart when the numbers        *)
(* changed.  A reading is stamped with Rice's own clock, which moves slower *)
(* than the polls and so repeats.  A run reads a section once, so a batch   *)
(* is a set of readings.                                                    *)
(***************************************************************************)
EXTENDS Fetching

CONSTANTS Sections,     \* ids, in the order of sections.id
          Facts,        \* what the tables say of them, that decides the poll set
          Numbers, Pollers, Nobody, Unread, Batch,
          MaxStamp, MaxFaults, MaxPolls     \* bounds
ASSUME SeatsAssumption == Sections \subseteq Nat /\ Nobody \notin Pollers /\ MaxStamp \in Nat

VARIABLES rice,         \* what Rice would answer now: numbers by section
          stamp,        \* and its time-now
          state,        \* section_seat_state: [numbers, stamp] or Unread
          chart,        \* seat_snapshots: by section, stamp -> numbers
          lock, recent, \* the job's advisory lock; an ok run within the interval
          poll,         \* each poller's run
          read,         \* history: the last reading of a section a run has in hand or has written
          spent         \* bound: [faults, polls] so far
seatVars == <<rice, stamp, state, chart, lock, recent, poll, read, spent>>

NoPoll == [pc |-> "idle", todo |-> {}, readings |-> {}, outages |-> 0]
SeatsInit ==
    /\ rice \in [Sections -> Numbers] /\ stamp = 0
    /\ state = [s \in Sections |-> Unread] /\ chart = [s \in Sections |-> [t \in {} |-> Unread]]
    /\ lock = Nobody /\ recent = FALSE /\ poll = [p \in Pollers |-> NoPoll]
    /\ read = [s \in Sections |-> Unread] /\ spent = [faults |-> 0, polls |-> 0]
tables == <<state, chart>>
-----------------------------------------------------------------------------
PollSet == {s \in Sections : /\ ~Facts[s].withdrawn
                             /\ Facts[s].timed \/ Facts[s].saved \/ Facts[s].collected}
(* record_seats: one transaction; a second change under one stamp replaces  *)
(* the snapshot.                                                            *)
ChartFirst(snapshots, reading) ==      \* mutant: on conflict do nothing
    [t \in DOMAIN snapshots \cup {reading.stamp} |->
        IF t \in DOMAIN snapshots THEN snapshots[t] ELSE reading.numbers]
Chart(snapshots, reading) ==
    [t \in DOMAIN snapshots \cup {reading.stamp} |-> IF t = reading.stamp THEN reading.numbers ELSE snapshots[t]]
RecordSeats(readings) ==
    LET last(s) == CHOOSE r \in readings : r.section = s
        held == {r.section : r \in readings}
        changed(s) == IF state[s] = Unread THEN TRUE ELSE state[s].numbers # last(s).numbers
    IN  /\ state' = [s \in Sections |-> IF s \in held
                        THEN [numbers |-> last(s).numbers, stamp |-> last(s).stamp] ELSE state[s]]
        /\ chart' = [s \in Sections |-> IF s \in held /\ changed(s) THEN Chart(chart[s], last(s)) ELSE chart[s]]

(* Rice's numbers and its clock move on their own; the numbers of a section *)
(* no poll reads do not matter.                                            *)
RiceMoves == /\ stamp < MaxStamp
             /\ stamp' = stamp + 1
             /\ UNCHANGED <<rice, tables, lock, recent, poll, read, spent>>
Enroll(s) == /\ \E n \in Numbers \ {rice[s]} : rice' = [rice EXCEPT ![s] = n]
             /\ UNCHANGED <<stamp, tables, lock, recent, poll, read, spent>>
IntervalPasses == recent /\ recent' = FALSE /\ UNCHANGED <<rice, stamp, tables, lock, poll, read, spent>>

Check(p) == /\ poll[p].pc = "idle" /\ ~recent /\ spent.polls < MaxPolls
            /\ poll' = [poll EXCEPT ![p].pc = "checked"]
            /\ spent' = [spent EXCEPT !.polls = @ + 1]
            /\ UNCHANGED <<rice, stamp, tables, lock, recent, read>>
Begin(p) ==
    /\ poll[p].pc = "checked"
    /\ IF lock = Nobody
       THEN /\ lock' = p
            /\ poll' = [poll EXCEPT ![p] = [NoPoll EXCEPT !.pc = "reading", !.todo = PollSet]]
       ELSE lock' = lock /\ poll' = [poll EXCEPT ![p] = NoPoll]
    /\ UNCHANGED <<rice, stamp, tables, recent, read, spent>>
(* one_crn: a reading; a document that does not parse; or no document, and  *)
(* the run fails once Rice is down.                                         *)
Full(p) == Cardinality(poll[p].readings) >= Batch
Asks(p) == poll[p].pc = "reading" /\ poll[p].todo # {} /\ ~Full(p)
Spoil == spent.faults < MaxFaults /\ spent' = [spent EXCEPT !.faults = @ + 1]
ReadCrn(p) ==
    /\ Asks(p)
    /\ \E s \in poll[p].todo :
        LET left == poll[p].todo \ {s}
            reading == [section |-> s, numbers |-> rice[s], stamp |-> stamp]
        IN  /\ \A u \in poll[p].todo : s <= u
            /\ \/ /\ poll' = [poll EXCEPT ![p] = [@ EXCEPT !.todo = left, !.outages = 0,
                                                          !.readings = poll[p].readings \cup {reading}]]
                  /\ read' = [read EXCEPT ![s] = [numbers |-> rice[s], stamp |-> stamp]]
                  /\ UNCHANGED spent
               \/ /\ Spoil /\ poll' = [poll EXCEPT ![p] = [@ EXCEPT !.todo = left, !.outages = 0]]     \* unreadable
                  /\ UNCHANGED read
               \/ \E result \in Live \ {"body"} :
                  LET outages == CountFetch(poll[p].outages, result)
                  IN  /\ Spoil
                      /\ poll' = [poll EXCEPT ![p] =
                                     [@ EXCEPT !.outages = outages,
                                               !.todo = IF Down(outages) THEN {} ELSE left,
                                               !.pc = IF Down(outages) THEN "failing" ELSE "reading"]]
                      /\ UNCHANGED read
    /\ UNCHANGED <<rice, stamp, tables, lock, recent>>
Deadline(p) == /\ Asks(p) /\ poll' = [poll EXCEPT ![p].todo = {}]
               /\ UNCHANGED <<rice, stamp, tables, lock, recent, read, spent>>
Done(p) == poll[p].pc = "failing" \/ (poll[p].pc = "reading" /\ poll[p].todo = {})
Flush(p) == /\ Full(p) \/ Done(p)
            /\ poll[p].readings # {}
            /\ RecordSeats(poll[p].readings)
            /\ poll' = [poll EXCEPT ![p].readings = {}]
            /\ UNCHANGED <<rice, stamp, lock, recent, read, spent>>
Conclude(p) == /\ Done(p) /\ poll[p].readings = {}
               /\ poll' = [poll EXCEPT ![p] = NoPoll] /\ lock' = Nobody
               /\ recent' = (recent \/ poll[p].pc = "reading")
               /\ UNCHANGED <<rice, stamp, tables, read, spent>>
(* The batch cannot be written, or the process stops: what it had in hand   *)
(* is lost, and the session that held the lock with it.                     *)
Lose(p) == /\ poll[p].pc \in {"reading", "failing"} /\ Spoil
           /\ poll' = [poll EXCEPT ![p] = NoPoll] /\ lock' = Nobody
           /\ read' = [s \in Sections |-> IF \E r \in poll[p].readings : r.section = s THEN state[s] ELSE read[s]]
           /\ UNCHANGED <<rice, stamp, tables, recent>>
SeatsStep == \/ RiceMoves \/ IntervalPasses \/ \E s \in PollSet : Enroll(s)
             \/ \E p \in Pollers : \/ Check(p) \/ Begin(p) \/ ReadCrn(p) \/ Deadline(p)
                                   \/ Flush(p) \/ Conclude(p) \/ Lose(p)
SeatsSpec == SeatsInit /\ [][SeatsStep]_seatVars
-----------------------------------------------------------------------------
SeatsTypeOK == /\ lock \in Pollers \cup {Nobody} /\ recent \in BOOLEAN
               /\ \A p \in Pollers : poll[p].pc \in {"idle", "checked", "reading", "failing"}
               /\ \A p \in Pollers : poll[p].pc \in {"reading", "failing"} <=> lock = p
               /\ \A s \in Sections : DOMAIN chart[s] \subseteq 0..MaxStamp

(* The current state, the chart and the poll agree: the newest snapshot of  *)
(* a section is its current numbers, even when Rice's clock repeated, and   *)
(* every reading a run has taken and is not still holding is the current    *)
(* state, also when the run ended at its deadline or because Rice was down. *)
(* The holder of the lock is the one poll that reads.                       *)
InHand(s) == \E p \in Pollers : \E r \in poll[p].readings : r.section = s
SeatsAgree ==
    /\ SeatsTypeOK
    /\ \A s \in Sections :
        /\ state[s] # Unread => DOMAIN chart[s] # {} /\ chart[s][Max(DOMAIN chart[s])] = state[s].numbers
        /\ ~InHand(s) => read[s] = state[s]
=============================================================================
