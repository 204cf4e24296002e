--------------------------- MODULE NotificationsProofs ---------------------------
(***************************************************************************)
(* What a customer gets: no message once more for a single failure, no     *)
(* reminder that was wrong ever since it was claimed, and, while nothing   *)
(* fails, every reminder of an active appointment.                         *)
(*                                                                         *)
(* OneCopyPerWorker is not inductive.  It rests on who may run an entry:   *)
(* its owner, for whom the entry is active, and workers that stalled with  *)
(* it (Owning); on what a failure has cost already (Paying); and on what   *)
(* those workers may still send (Sending).                                 *)
(*                                                                         *)
(* TypeOK needs in addition that only an entry with a try and a stall left *)
(* is given out (Bounded), and that reminders and the handlers that write  *)
(* an appointment have one (Carries, Proper).                              *)
(*                                                                         *)
(* RemindersAreCurrent follows from what a worker with a claimed reminder  *)
(* knows (Stands).  ActiveIsReminded holds between handlers only; on the   *)
(* way, each reminder still ahead is about to be created by a handler, or  *)
(* has a row that waits or is about to (Cared), in no worker's hands since *)
(* those only have what is due (InTime).                                   *)
(***************************************************************************)
EXTENDS Notifications, TLAPS, FiniteSetTheorems, SequenceTheorems

\* A worker runs an entry, and may still send its message.
On(w, j) == wk[w].pc # "idle" /\ wk[w].j = j
Unsent(w, j) == On(w, j) /\ wk[w].pc \notin {"complete", "error"}
Settled(j) == row[j].status \in {"COMPLETED", "FAILED"}

\* Rows and handlers are records, of messages that do not matter here.
IsRow(x) == DOMAIN x = {"msg", "status"}
IsHandler(h) == DOMAIN h = {"pc", "op", "a", "at", "todo", "j"}

Typed ==
  /\ queue \in [Job -> [state : {"absent", "waiting", "active", "completed", "failed"},
                        tries : Nat, stalls : Nat]]
  /\ wk \in [Worker -> Execution]
  /\ \A w \in Worker : wk[w].pc # "idle" => wk[w].j \in Job
  /\ DOMAIN row = Job /\ \A j \in Job : IsRow(row[j])
  /\ DOMAIN req = Req /\ \A r \in Req : IsHandler(req[r])
  /\ \A r \in Req : req[r].pc = "write" => req[r].op \in {"move", "cancel", "absent"}
  /\ copies \in [Job -> Nat] /\ faults \in Nat

\* A row reaches the queue once, added by the one handler that created it.
Adding ==
  /\ \A j \in Job : ~Exists(j) => queue[j].state = "absent"
  /\ \A r \in Req : req[r].pc = "add" =>
       /\ req[r].j \in Job /\ Exists(req[r].j) /\ queue[req[r].j].state = "absent"
       /\ \A q \in Req : req[q].pc = "add" /\ req[q].j = req[r].j => q = r
  /\ \A j \in Job : queue[j].state = "absent" =>
       copies[j] = 0 /\ \A w \in Worker : ~On(w, j)

\* An active entry has at most one owner; whoever else runs it has stalled.
Owning ==
  \A j \in Job :
    /\ \A w, v \in Worker : On(w, j) /\ wk[w].owner =>
         queue[j].state = "active" /\ (On(v, j) /\ wk[v].owner => v = w)
    /\ \A w \in Worker : On(w, j) /\ ~wk[w].owner => queue[j].stalls >= 1
    /\ queue[j].stalls = 1 =>
         \A w, v \in Worker : On(w, j) /\ ~wk[w].owner /\ On(v, j) /\ ~wk[v].owner => v = w

\* Every stall is a failure, and every error one more.
Paying ==
  \A j \in Job :
    /\ queue[j].stalls <= faults
    /\ \A w \in Worker : On(w, j) /\ wk[w].pc = "error" => queue[j].stalls + 1 <= faults

\* Nobody has stalled: after the one copy the entry is done with, or its row is
\* settled before another worker gets it.
SentOnce(j) ==
  /\ copies[j] <= 1
  /\ copies[j] = 1 =>
       /\ queue[j].state = "waiting" => Settled(j) /\ faults = 1
       /\ \A w \in Worker : Unsent(w, j) => wk[w].pc = "read" /\ Settled(j) /\ faults = 1

\* One worker has stalled: it and the owner have one copy each.
SentTwice(j) ==
  /\ copies[j] <= 2
  /\ queue[j].state = "waiting" => copies[j] <= 1
  /\ \A w \in Worker : Unsent(w, j) =>
       /\ copies[j] <= 1
       /\ ~wk[w].owner /\ queue[j].state = "waiting" => copies[j] = 0
       /\ \A v \in Worker : Unsent(v, j) /\ v # w => copies[j] = 0

Sending ==
  faults <= 1 =>
    \A j \in Job : /\ queue[j].stalls = 0 => SentOnce(j)
                   /\ queue[j].stalls = 1 => SentTwice(j)

\* The inductive strengthening of OneCopyPerWorker.
QueueInv == Typed /\ Adding /\ Owning /\ Paying /\ Sending

--------------------------------------------------------------------------------
\* The invariant says what each worker has sent at most once.
LEMMA QueueInvSuffices ==
  ASSUME QueueInv
  PROVE  OneCopyPerWorker
<1> SUFFICES ASSUME faults <= 1, NEW j \in Job PROVE copies[j] <= 1 + queue[j].stalls
  BY DEF OneCopyPerWorker
<1>1. copies[j] \in Nat /\ queue[j].stalls \in Nat /\ faults \in Nat
  BY DEF QueueInv, Typed
<1>2. queue[j].stalls <= faults BY DEF QueueInv, Paying
<1>3. CASE queue[j].stalls = 0 BY <1>1, <1>3 DEF QueueInv, Sending, SentOnce
<1>4. CASE queue[j].stalls = 1 BY <1>1, <1>4 DEF QueueInv, Sending, SentTwice
<1> QED BY <1>1, <1>2, <1>3, <1>4

\* Nobody runs an entry yet, and no row has been created since the start.
LEMMA InitQueue ==
  ASSUME Init
  PROVE  QueueInv
<1>1. PICK n, old :
        /\ row = [j \in Job |-> IF j <= n THEN [msg |-> old[j], status |-> "PENDING"] ELSE NoRow]
        /\ queue = [j \in Job |-> [state |-> IF j <= n THEN "waiting" ELSE "absent",
                                    tries |-> 0, stalls |-> 0]]
  <2> DEFINE Old(booked) ==
        SetToSeq(UNION {Reminders(a, booked[a]) : a \in {b \in Appt : booked[b] # 0}})
  <2>1. PICK booked \in [Appt -> Start \cup {0}] :
          /\ row = [j \in Job |-> IF j <= Len(Old(booked))
                                   THEN [msg |-> Old(booked)[j], status |-> "PENDING"] ELSE NoRow]
          /\ queue = [j \in Job |-> [state |-> IF j <= Len(Old(booked)) THEN "waiting" ELSE "absent",
                                      tries |-> 0, stalls |-> 0]]
    BY Zenon DEF Init
  <2> HIDE DEF Old
  <2> QED BY <2>1
<1>2. wk = [w \in Worker |-> NoExecution] /\ req = [r \in Req |-> NoHandler]
      /\ copies = [j \in Job |-> 0] /\ faults = 0
  BY DEF Init
<1>3. Typed
  BY <1>1, <1>2 DEF Typed, IsRow, IsHandler, NoExecution, Execution, WorkerPc, NoHandler, NoRow
<1>4. Adding BY <1>1, <1>2 DEF Adding, Exists, On, NoExecution, NoHandler, NoRow
<1>5. Owning BY <1>1, <1>2 DEF Owning, On, NoExecution
<1>6. Paying BY <1>1, <1>2 DEF Paying, On, NoExecution
<1>7. Sending
  BY <1>1, <1>2 DEF Sending, SentOnce, SentTwice, Unsent, On, NoExecution
<1> QED BY <1>3, <1>4, <1>5, <1>6, <1>7 DEF QueueInv

--------------------------------------------------------------------------------
(* Handlers and time.                                                      *)

\* A handler's record changes, and stays one;
Records(f) == DOMAIN f = Req /\ \A r \in Req : IsHandler(f[r])

\* One request's record changes and the others stay.
LEMMA RecordStep ==
  ASSUME Records(req), NEW r \in Req, NEW rec, IsHandler(rec), req' = [req EXCEPT ![r] = rec]
  PROVE  Records(req') /\ req'[r] = rec /\ \A q \in Req : q # r => req'[q] = req[q]
<1>1. DOMAIN req' = Req /\ req'[r] = rec /\ \A q \in Req : q # r => req'[q] = req[q]
  BY DEF Records
<1>2. \A q \in Req : IsHandler(req'[q])
  <2> TAKE q \in Req
  <2>1. CASE q = r BY <1>1, <2>1
  <2>2. CASE q # r BY <1>1, <2>2 DEF Records
  <2> QED BY <2>1, <2>2
<1> QED BY <1>1, <1>2 DEF Records

\* Most steps of a handler concern nobody else.
HandlerAlone(r) ==
  /\ Records(req') /\ req'[r].pc # "add"
  /\ req'[r].pc = "write" => req'[r].op \in {"move", "cancel", "absent"}
  /\ \A q \in Req : q # r => req'[q] = req[q]
  /\ UNCHANGED <<row, queue, wk, copies>>
  /\ faults' = faults \/ faults' = faults + 1

\* A fault alone only loosens what is owed.
LEMMA GrowingFaults ==
  ASSUME QueueInv, UNCHANGED <<row, queue, wk, copies>>,
         faults' = faults \/ faults' = faults + 1
  PROVE  Owning' /\ Paying' /\ Sending'
<1>1. faults \in Nat /\ \A j \in Job : queue[j].stalls \in Nat /\ copies[j] \in Nat
  BY DEF QueueInv, Typed
<1>2. Owning' BY DEF QueueInv, Owning, On
<1>3. Paying' BY <1>1 DEF QueueInv, Paying, On
<1>4. Sending' BY <1>1 DEF QueueInv, Sending, SentOnce, SentTwice, Unsent, On, Settled
<1> QED BY <1>2, <1>3, <1>4

\* A step of a handler by itself keeps the queue.
LEMMA AloneStep ==
  ASSUME QueueInv, NEW r \in Req, HandlerAlone(r)
  PROVE  QueueInv'
<1>1. Typed' BY DEF QueueInv, Typed, HandlerAlone, Records
<1>2. Adding'
  BY DEF QueueInv, Adding, HandlerAlone, Exists, On
<1>3. Owning' /\ Paying' /\ Sending' BY GrowingFaults DEF HandlerAlone
<1> QED BY <1>1, <1>2, <1>3 DEF QueueInv

\* The steps of a handler by itself.
LEMMA AloneSteps ==
  ASSUME QueueInv, NEW r \in Req,
         \/ Write(r) \/ ReadAppointment(r) \/ Skip(r) \/ HandlerDies(r)
         \/ enqueueWaitlistSlotOpen(r)
         \/ \E a \in Appt, s \in Start : Book(r, a, s)
         \/ \E a \in Appt, op \in Operations, s \in Start \cup {0} : Decide(r, a, op, s)
  PROVE  HandlerAlone(r)
<1>0. Records(req) BY DEF QueueInv, Typed, Records
<1> DEFINE Kept == Records(req') /\ req'[r].pc # "add" /\ \A q \in Req : q # r => req'[q] = req[q]
<1>1. ASSUME NEW l, Goto(r, l), l # "add", l # "write" PROVE Kept /\ req'[r].pc # "write"
  <2> DEFINE rec == [req[r] EXCEPT !.pc = l]
  <2>1. IsHandler(req[r]) /\ DOMAIN req = Req BY <1>0 DEF Records
  <2>2. IsHandler(rec) /\ rec.pc = l BY <2>1 DEF IsHandler
  <2>3. req' = [req EXCEPT ![r] = rec] BY <1>1, <2>1 DEF Goto
  <2> HIDE DEF rec
  <2> QED BY <1>0, <1>1, <2>2, <2>3, RecordStep
<1>2. ASSUME Finish(r) PROVE Kept /\ req'[r].pc # "write"
  <2>1. IsHandler(NoHandler) /\ NoHandler.pc = "idle" BY DEF NoHandler, IsHandler
  <2> QED BY <1>0, <1>2, <2>1, RecordStep DEF Finish
<1>3. CASE Write(r)
  <2>1. CASE req[r].op = "move" BY <1>1, <1>3, <2>1 DEF Write, serviceVars, HandlerAlone
  <2>2. CASE req[r].op = "cancel" BY <1>1, <1>3, <2>2 DEF Write, serviceVars, HandlerAlone
  <2>3. CASE req[r].op = "absent" BY <1>2, <1>3, <2>3 DEF Write, serviceVars, HandlerAlone
  <2> QED BY <1>3, <2>1, <2>2, <2>3 DEF Write, QueueInv, Typed
<1>4. ASSUME NEW todo, req' = [req EXCEPT ![r].pc = "create", ![r].todo = todo]
      PROVE  Kept /\ req'[r].pc # "write"
  <2> DEFINE rec == [req[r] EXCEPT !.pc = "create", !.todo = todo]
  <2>1. IsHandler(req[r]) /\ DOMAIN req = Req BY <1>0 DEF Records
  <2>2. IsHandler(rec) /\ rec.pc = "create" BY <2>1 DEF IsHandler
  <2>3. req' = [req EXCEPT ![r] = rec] BY <1>4, <2>1
  <2> HIDE DEF rec
  <2> QED BY <1>0, <2>2, <2>3, RecordStep
<1>5. CASE ReadAppointment(r)
  BY <1>4, <1>5 DEF ReadAppointment, serviceVars, HandlerAlone
<1>6. CASE Skip(r)
  <2>1. CASE Finish(r) BY <1>2, <1>6, <2>1 DEF Skip, serviceVars, HandlerAlone
  <2>2. CASE ~Finish(r)
    <3> DEFINE rec == [req[r] EXCEPT !.todo = Tail(@)]
    <3>1. IsHandler(req[r]) /\ DOMAIN req = Req BY <1>0 DEF Records
    <3>2. req[r].pc = "create" BY <1>6 DEF Skip
    <3>3. IsHandler(rec) /\ rec.pc = "create" BY <3>1, <3>2 DEF IsHandler
    <3>4. req' = [req EXCEPT ![r] = rec] BY <1>6, <2>2, <3>1 DEF Skip
    <3> HIDE DEF rec
    <3>5. Kept /\ req'[r].pc # "write" BY <1>0, <3>3, <3>4, RecordStep
    <3> QED BY <1>6, <3>5 DEF Skip, serviceVars, HandlerAlone
  <2> QED BY <2>1, <2>2
<1>7. CASE HandlerDies(r)
  BY <1>2, <1>7 DEF HandlerDies, Fault, serviceVars, HandlerAlone
<1>8. ASSUME NEW h, IsHandler(h), h.pc # "add", Serve(r, h)
      PROVE  Kept /\ req'[r] = h
  BY <1>0, <1>8, RecordStep DEF Serve
<1>9. CASE enqueueWaitlistSlotOpen(r)
  <2> DEFINE todo == SetToSeq({[Mail("WAITLIST_SLOT_OPEN", NoAppt) EXCEPT !.channel = c]
                                 : c \in limits.contacts})
             h == [NoHandler EXCEPT !.pc = "create", !.todo = todo]
  <2>1. Serve(r, h) BY <1>9 DEF enqueueWaitlistSlotOpen
  <2> HIDE DEF todo
  <2>2. IsHandler(h) /\ h.pc = "create" BY DEF NoHandler, IsHandler
  <2> HIDE DEF h
  <2> QED BY <1>8, <1>9, <2>1, <2>2 DEF enqueueWaitlistSlotOpen, serviceVars, HandlerAlone
<1>10. ASSUME NEW a \in Appt, NEW s \in Start, Book(r, a, s) PROVE HandlerAlone(r)
  <2> DEFINE h == [NoHandler EXCEPT !.pc = "read", !.op = "book", !.a = a]
  <2>1. Serve(r, h) BY <1>10 DEF Book
  <2>2. IsHandler(h) /\ h.pc = "read" BY DEF NoHandler, IsHandler
  <2> HIDE DEF h
  <2> QED BY <1>8, <1>10, <2>1, <2>2 DEF Book, serviceVars, HandlerAlone
<1>11. ASSUME NEW a \in Appt, NEW op \in Operations, NEW s \in Start \cup {0}, Decide(r, a, op, s)
       PROVE  HandlerAlone(r)
  <2> DEFINE h == [NoHandler EXCEPT !.pc = "write", !.op = op, !.a = a, !.at = s]
  <2>1. Serve(r, h) BY <1>11 DEF Decide
  <2>2. IsHandler(h) /\ h.pc = "write" /\ h.op = op BY DEF NoHandler, IsHandler
  <2> HIDE DEF h
  <2> QED BY <1>8, <1>11, <2>1, <2>2 DEF Decide, serviceVars, HandlerAlone
<1> QED BY <1>3, <1>5, <1>6, <1>7, <1>9, <1>10, <1>11

\* Invalidating rows settles some and unsettles none.
LEMMA VoidStep ==
  ASSUME QueueInv, NEW r \in Req, cancelPendingForAppointment(r)
  PROVE  QueueInv'
<1>1. Records(req') /\ req'[r].pc = "read" /\ \A q \in Req : q # r => req'[q] = req[q]
  <2> DEFINE rec == [req[r] EXCEPT !.pc = "read"]
  <2>1. IsHandler(req[r]) /\ DOMAIN req = Req BY DEF QueueInv, Typed
  <2>2. IsHandler(rec) /\ rec.pc = "read" BY <2>1 DEF IsHandler
  <2>3. req' = [req EXCEPT ![r] = rec] BY <2>1 DEF cancelPendingForAppointment, Goto
  <2> HIDE DEF rec
  <2> QED BY <2>1, <2>2, <2>3, RecordStep DEF QueueInv, Typed, Records
<1>2. UNCHANGED <<queue, wk, copies, faults>> BY DEF cancelPendingForAppointment
<1>3. /\ DOMAIN row' = Job /\ \A j \in Job : IsRow(row'[j])
      /\ \A j \in Job : row'[j] = row[j] \/ row'[j].status = "FAILED"
      /\ \A j \in Job : Settled(j) => row'[j] = row[j]
      /\ \A j \in Job : ~Exists(j) => row'[j] = row[j]
  BY DEF cancelPendingForAppointment, QueueInv, Typed, IsRow, Settled, Exists
<1>4. Typed' BY <1>1, <1>2, <1>3 DEF QueueInv, Typed, Records
<1>5. Adding' BY <1>1, <1>2, <1>3 DEF QueueInv, Adding, Exists, On
<1>6. Owning' BY <1>2 DEF QueueInv, Owning, On
<1>7. Paying' BY <1>2 DEF QueueInv, Paying, On
<1>8. Sending'
  <2>1. \A j \in Job : Settled(j) => Settled(j)' BY <1>3 DEF Settled
  <2> QED BY <1>2, <2>1 DEF QueueInv, Sending, SentOnce, SentTwice, Unsent, On
<1> QED BY <1>4, <1>5, <1>6, <1>7, <1>8 DEF QueueInv

\* A new row is in nobody's hands.
LEMMA CreateStep ==
  ASSUME QueueInv, NEW r \in Req, CreateRow(r)
  PROVE  QueueInv'
<1>1. PICK j \in Job :
        /\ ~Exists(j)
        /\ row' = [row EXCEPT ![j] = [msg |-> Head(req[r].todo), status |-> "PENDING"]]
        /\ req' = [req EXCEPT ![r].pc = "add", ![r].j = j, ![r].todo = Tail(@)]
  BY DEF CreateRow
<1>2. /\ Records(req') /\ req'[r].pc = "add" /\ req'[r].j = j
      /\ \A q \in Req : q # r => req'[q] = req[q]
  <2> DEFINE rec == [req[r] EXCEPT !.pc = "add", !.j = j, !.todo = Tail(@)]
  <2>1. IsHandler(req[r]) /\ DOMAIN req = Req BY DEF QueueInv, Typed
  <2>2. IsHandler(rec) /\ rec.pc = "add" /\ rec.j = j BY <2>1 DEF IsHandler
  <2>3. req' = [req EXCEPT ![r] = rec] BY <1>1, <2>1
  <2> HIDE DEF rec
  <2> QED BY <2>1, <2>2, <2>3, RecordStep DEF QueueInv, Typed, Records
<1>3. UNCHANGED <<queue, wk, copies, faults>> BY DEF CreateRow
<1>4. /\ DOMAIN row' = Job /\ \A i \in Job : IsRow(row'[i])
      /\ \A i \in Job : i # j => row'[i] = row[i]
      /\ row'[j].status = "PENDING" /\ row[j].status = "NONE"
  BY <1>1 DEF QueueInv, Typed, IsRow, Exists
<1>5. Typed' BY <1>2, <1>3, <1>4 DEF QueueInv, Typed, Records
<1>6. Adding'
  <2>1. queue[j].state = "absent" BY <1>1 DEF QueueInv, Adding
  <2>2. \A q \in Req : req[q].pc = "add" => req[q].j # j BY <1>1 DEF QueueInv, Adding
  <2> QED BY <1>2, <1>3, <1>4, <2>1, <2>2 DEF QueueInv, Adding, Exists, On
<1>7. Owning' BY <1>3 DEF QueueInv, Owning, On
<1>8. Paying' BY <1>3 DEF QueueInv, Paying, On
<1>9. Sending'
  <2>1. \A i \in Job : Settled(i) => Settled(i)' BY <1>4 DEF Settled
  <2> QED BY <1>3, <2>1 DEF QueueInv, Sending, SentOnce, SentTwice, Unsent, On
<1> QED BY <1>5, <1>6, <1>7, <1>8, <1>9 DEF QueueInv

\* The row is queued for the first time.
LEMMA EnqueueStep ==
  ASSUME QueueInv, NEW r \in Req, Enqueue(r)
  PROVE  QueueInv'
<1>1. /\ Records(req') /\ req'[r].pc = "create"
      /\ \A q \in Req : q # r => req'[q] = req[q]
  <2> DEFINE rec == [req[r] EXCEPT !.pc = "create", !.j = NoJob]
  <2>1. IsHandler(req[r]) /\ DOMAIN req = Req BY DEF QueueInv, Typed
  <2>2. IsHandler(rec) /\ rec.pc = "create" BY <2>1 DEF IsHandler
  <2>3. req' = [req EXCEPT ![r] = rec] BY <2>1 DEF Enqueue
  <2> HIDE DEF rec
  <2> QED BY <2>1, <2>2, <2>3, RecordStep DEF QueueInv, Typed, Records
<1>2. CASE UNCHANGED queue
  <2>1. HandlerAlone(r) BY <1>1, <1>2 DEF Enqueue, Fault, HandlerAlone
  <2> QED BY <2>1, AloneStep
<1>3. CASE queue' = [queue EXCEPT ![req[r].j].state = "waiting"] /\ UNCHANGED faults
  <2> DEFINE j == req[r].j
  <2>1. /\ j \in Job /\ Exists(j) /\ queue[j].state = "absent"
        /\ copies[j] = 0 /\ \A w \in Worker : ~On(w, j)
        /\ \A q \in Req : q # r /\ req[q].pc = "add" => req[q].j # j
    BY DEF Enqueue, QueueInv, Adding
  <2>2. UNCHANGED <<row, wk, copies, faults>> BY <1>3 DEF Enqueue
  <2>3. /\ queue' \in [Job -> [state : {"absent", "waiting", "active", "completed", "failed"},
                               tries : Nat, stalls : Nat]]
        /\ \A i \in Job : i # j => queue'[i] = queue[i]
        /\ queue'[j].state = "waiting" /\ queue'[j].stalls = queue[j].stalls
    BY <1>3, <2>1 DEF QueueInv, Typed
  <2> HIDE DEF j
  <2>4. Typed' BY <1>1, <2>2, <2>3 DEF QueueInv, Typed, Records
  <2>5. Adding' BY <1>1, <2>1, <2>2, <2>3 DEF QueueInv, Adding, Exists, On, j
  <2>6. Owning' BY <2>1, <2>2, <2>3 DEF QueueInv, Owning, On
  <2>7. Paying' BY <2>1, <2>2, <2>3 DEF QueueInv, Paying, On
  <2>8. Sending'
    <3> SUFFICES ASSUME faults <= 1, NEW i \in Job
                 PROVE  (queue[i].stalls = 0 => SentOnce(i))' /\ (queue[i].stalls = 1 => SentTwice(i))'
      BY <2>2 DEF Sending
    <3>1. CASE i = j
      BY <2>1, <2>2, <2>3, <3>1 DEF SentOnce, SentTwice, Unsent, On
    <3>2. CASE i # j
      BY <2>2, <2>3, <3>2 DEF QueueInv, Sending, SentOnce, SentTwice, Unsent, On, Settled
    <3> QED BY <3>1, <3>2
  <2> QED BY <2>4, <2>5, <2>6, <2>7, <2>8 DEF QueueInv
<1> QED BY <1>2, <1>3 DEF Enqueue

\* Time passing keeps the queue.
LEMMA IdleStep ==
  ASSUME QueueInv, Tick \/ UNCHANGED vars
  PROVE  QueueInv'
<1>1. UNCHANGED <<row, queue, req, wk, copies, faults>> BY DEF Tick, vars
<1> QED BY <1>1 DEF QueueInv, Typed, Adding, Owning, Paying, Sending, SentOnce, SentTwice,
           Unsent, On, Settled, Exists

--------------------------------------------------------------------------------
(* Workers: a step concerns the worker's own entry.                        *)

QueueType == [Job -> [state : {"absent", "waiting", "active", "completed", "failed"},
                      tries : Nat, stalls : Nat]]

\* What QueueInv says of one entry.
JobInv(j) ==
  /\ queue[j].state = "absent" => copies[j] = 0 /\ \A w \in Worker : ~On(w, j)
  /\ \A w, v \in Worker : On(w, j) /\ wk[w].owner =>
       queue[j].state = "active" /\ (On(v, j) /\ wk[v].owner => v = w)
  /\ \A w \in Worker : On(w, j) /\ ~wk[w].owner => queue[j].stalls >= 1
  /\ queue[j].stalls = 1 =>
       \A w, v \in Worker : On(w, j) /\ ~wk[w].owner /\ On(v, j) /\ ~wk[v].owner => v = w
  /\ queue[j].stalls <= faults
  /\ \A w \in Worker : On(w, j) /\ wk[w].pc = "error" => queue[j].stalls + 1 <= faults
  /\ faults <= 1 => /\ queue[j].stalls = 0 => SentOnce(j)
                    /\ queue[j].stalls = 1 => SentTwice(j)

\* The invariant, job by job.
LEMMA EveryJob == QueueInv => \A j \in Job : JobInv(j)
  BY DEF QueueInv, Adding, Owning, Paying, Sending, JobInv

\* The worker's record becomes e, and only entry j and its row may change.
OwnEntry(w, j, e) ==
  /\ UNCHANGED req
  /\ wk' = [wk EXCEPT ![w] = e] /\ e \in Execution /\ (e.pc = "idle" \/ e.j = j)
  /\ DOMAIN row' = Job /\ IsRow(row'[j]) /\ Exists(j)'
  /\ queue' \in QueueType /\ queue'[j].state # "absent"
  /\ copies' \in [Job -> Nat]
  /\ faults' = faults \/ faults' = faults + 1
  /\ \A i \in Job : i # j => row'[i] = row[i] /\ queue'[i] = queue[i] /\ copies'[i] = copies[i]

\* A worker's step on one job leaves the others.
LEMMA OtherJobs ==
  ASSUME QueueInv, NEW w \in Worker, NEW j \in Job, NEW e, OwnEntry(w, j, e),
         On(w, j) \/ wk[w].pc = "idle", NEW i \in Job, i # j
  PROVE  JobInv(i)'
<1>1. JobInv(i) BY EveryJob
<1>2. \A v \in Worker : v # w => wk'[v] = wk[v] BY DEF OwnEntry, QueueInv, Typed
<1>3. wk'[w] = e BY DEF OwnEntry, QueueInv, Typed
<1>4. ~On(w, i) /\ ~On(w, i)' BY <1>3 DEF OwnEntry, On
<1>5. \A v \in Worker : On(v, i)' => v # w /\ On(v, i) /\ wk'[v] = wk[v] BY <1>2, <1>4 DEF On
<1>6. queue'[i] = queue[i] /\ copies'[i] = copies[i] /\ row'[i] = row[i] BY DEF OwnEntry
<1>7. faults \in Nat /\ queue[i].stalls \in Nat /\ copies[i] \in Nat
      /\ (faults' = faults \/ faults' = faults + 1)
  BY DEF OwnEntry, QueueInv, Typed
<1>8. /\ (queue[i].state = "absent" => copies[i] = 0 /\ \A v \in Worker : ~On(v, i))'
      /\ (\A v, u \in Worker : On(v, i) /\ wk[v].owner =>
            queue[i].state = "active" /\ (On(u, i) /\ wk[u].owner => u = v))'
      /\ (\A v \in Worker : On(v, i) /\ ~wk[v].owner => queue[i].stalls >= 1)'
      /\ (queue[i].stalls = 1 =>
            \A v, u \in Worker : On(v, i) /\ ~wk[v].owner /\ On(u, i) /\ ~wk[u].owner => u = v)'
  BY <1>1, <1>5, <1>6 DEF JobInv
<1>9. (queue[i].stalls <= faults)' BY <1>1, <1>6, <1>7 DEF JobInv
<1>10. (\A v \in Worker : On(v, i) /\ wk[v].pc = "error" => queue[i].stalls + 1 <= faults)'
  BY <1>1, <1>5, <1>6, <1>7 DEF JobInv
<1>11. ASSUME faults' <= 1, (queue[i].stalls = 0)' PROVE SentOnce(i)'
  <2>1. SentOnce(i) BY <1>1, <1>6, <1>7, <1>11 DEF JobInv
  <2> QED BY <1>5, <1>6, <1>7, <1>11, <2>1 DEF SentOnce, Unsent, Settled, On
<1>12. ASSUME faults' <= 1, (queue[i].stalls = 1)' PROVE SentTwice(i)'
  <2>1. SentTwice(i) BY <1>1, <1>6, <1>7, <1>12 DEF JobInv
  <2>2. \A v \in Worker : Unsent(v, i)' => Unsent(v, i) /\ wk'[v] = wk[v]
    BY <1>5 DEF Unsent
  <2> QED BY <1>6, <2>1, <2>2 DEF SentTwice
<1> QED BY <1>8, <1>9, <1>10, <1>11, <1>12 DEF JobInv

\* The invariant again, from that of the worker's own job.
LEMMA Assemble ==
  ASSUME QueueInv, NEW w \in Worker, NEW j \in Job, NEW e, OwnEntry(w, j, e),
         On(w, j) \/ wk[w].pc = "idle", queue[j].state # "absent",
         e.pc # "idle" => e.j \in Job, JobInv(j)'
  PROVE  QueueInv'
<1>1. \A i \in Job : JobInv(i)' BY OtherJobs
<1>2. Typed'
  <2>1. wk' \in [Worker -> Execution] /\ \A v \in Worker : wk'[v].pc # "idle" => wk'[v].j \in Job
    BY DEF OwnEntry, QueueInv, Typed
  <2>2. \A i \in Job : IsRow(row'[i]) BY DEF OwnEntry, QueueInv, Typed
  <2>3. faults' \in Nat BY DEF OwnEntry, QueueInv, Typed
  <2> QED BY <2>1, <2>2, <2>3 DEF OwnEntry, QueueInv, Typed, QueueType
<1>3. Adding'
  <2>1. \A i \in Job : (~Exists(i))' => i # j /\ ~Exists(i) BY DEF OwnEntry, Exists
  <2>2. \A i \in Job : i # j => queue'[i] = queue[i] BY DEF OwnEntry
  <2>3. \A r \in Req : req[r].pc = "add" => req[r].j # j BY DEF QueueInv, Adding
  <2>4. (\A i \in Job : ~Exists(i) => queue[i].state = "absent")'
    BY <2>1, <2>2 DEF QueueInv, Adding
  <2>5. (\A r \in Req : req[r].pc = "add" =>
          /\ req[r].j \in Job /\ Exists(req[r].j) /\ queue[req[r].j].state = "absent"
          /\ \A q \in Req : req[q].pc = "add" /\ req[q].j = req[r].j => q = r)'
    BY <2>3 DEF QueueInv, Adding, OwnEntry, Exists
  <2>6. (\A i \in Job : queue[i].state = "absent" => copies[i] = 0 /\ \A v \in Worker : ~On(v, i))'
    BY <1>1 DEF JobInv
  <2> QED BY <2>4, <2>5, <2>6 DEF Adding
<1>4. Owning' /\ Paying' /\ Sending' BY <1>1 DEF JobInv, Owning, Paying, Sending
<1> QED BY <1>2, <1>3, <1>4 DEF QueueInv

\* A worker at work has an entry that was queued.
LEMMA AtWork ==
  ASSUME QueueInv, NEW w \in Worker, wk[w].pc # "idle"
  PROVE  /\ wk[w].j \in Job /\ On(w, wk[w].j) /\ queue[wk[w].j].state # "absent"
         /\ Exists(wk[w].j) /\ JobInv(wk[w].j) /\ wk[w] \in Execution
         /\ queue[wk[w].j].stalls \in Nat /\ copies[wk[w].j] \in Nat /\ faults \in Nat
<1>1. wk[w].j \in Job /\ wk[w] \in Execution BY DEF QueueInv, Typed
<1>2. On(w, wk[w].j) BY DEF On
<1>3. JobInv(wk[w].j) BY <1>1, EveryJob
<1>4. queue[wk[w].j].state # "absent" BY <1>1, <1>2, <1>3 DEF JobInv
<1>5. Exists(wk[w].j) BY <1>1, <1>4 DEF QueueInv, Adding
<1> QED BY <1>1, <1>2, <1>3, <1>4, <1>5 DEF QueueInv, Typed

\* What may become of the rows: that of the worker stays one.
OwnRow(j) ==
  /\ DOMAIN row' = Job /\ IsRow(row'[j]) /\ Exists(j)'
  /\ \A i \in Job : i # j => row'[i] = row[i]

\* A worker that writes no row keeps its own.
LEMMA SameRow ==
  ASSUME QueueInv, NEW w \in Worker, wk[w].pc # "idle", NEW j, wk[w].j = j, UNCHANGED row
  PROVE  OwnRow(j)
<1>1. j \in Job /\ Exists(j) BY AtWork
<1>2. DOMAIN row = Job /\ IsRow(row[j]) BY <1>1 DEF QueueInv, Typed
<1> QED BY <1>1, <1>2 DEF OwnRow, Exists

\* A worker that sets a status keeps the row its own.
LEMMA StatusStep ==
  ASSUME QueueInv, NEW w \in Worker, wk[w].pc # "idle", NEW j, wk[w].j = j,
         NEW s, s # "NONE", SetStatus(w, s)
  PROVE  OwnRow(j) /\ row'[j].status = s
<1> DEFINE r == row[j]
           x == [r EXCEPT !.status = s]
<1>1. j \in Job /\ DOMAIN row = Job /\ IsRow(r) BY DEF QueueInv, Typed
<1>2. row' = [row EXCEPT ![j] = x] BY DEF SetStatus
<1> HIDE DEF r
<1>3. IsRow(x) /\ x.status = s BY <1>1 DEF IsRow
<1> HIDE DEF x
<1>4. DOMAIN row' = Job /\ row'[j] = x /\ \A i \in Job : i # j => row'[i] = row[i]
  BY <1>1, <1>2
<1>5. row'[j].status # "NONE" BY <1>3, <1>4
<1> QED BY <1>3, <1>4, <1>5 DEF OwnRow, Exists

\* A worker that has not sent its message, and has not found it settled, can be
\* the first to send it.
LEMMA Fresh ==
  ASSUME QueueInv, NEW w \in Worker, Unsent(w, wk[w].j),
         wk[w].pc # "read" \/ ~Settled(wk[w].j) \/ faults = 0,
         faults <= 1, queue[wk[w].j].stalls = 0
  PROVE  copies[wk[w].j] = 0
<1>1. wk[w].pc # "idle" BY DEF Unsent, On
<1>2. SentOnce(wk[w].j) /\ copies[wk[w].j] \in Nat BY <1>1, AtWork DEF JobInv
<1> QED BY <1>2 DEF SentOnce

\* While nobody has stalled with the entry, whoever runs it is alone.
LEMMA Alone ==
  ASSUME QueueInv, NEW w \in Worker, wk[w].pc # "idle", queue[wk[w].j].stalls = 0
  PROVE  wk[w].owner /\ \A v \in Worker : On(v, wk[w].j) => v = w
<1>1. On(w, wk[w].j) /\ JobInv(wk[w].j) /\ wk[w] \in Execution BY AtWork
<1>2. \A v \in Worker : wk[v] \in Execution BY DEF QueueInv, Typed
<1>3. \A v \in Worker : On(v, wk[w].j) => wk[v].owner BY <1>1, <1>2 DEF JobInv
<1> QED BY <1>1, <1>3 DEF JobInv

\* The worker goes on with its entry.
LEMMA MoveStep ==
  ASSUME QueueInv, NEW w \in Worker, wk[w].pc # "idle", NEW l \in WorkerPc, l # "idle",
         NEW j, wk[w].j = j,
         Step(w, l), UNCHANGED <<req, queue>>, OwnRow(j),
         \/ UNCHANGED copies
         \/ /\ copies' = [copies EXCEPT ![j] = @ + 1]
            /\ wk[w].pc = "send" /\ l = "complete" /\ UNCHANGED faults,
         \/ /\ UNCHANGED faults /\ l # "error" /\ Unsent(w, j)
            /\ wk[w].pc # "read" \/ ~Settled(j)
         \/ faults' = faults + 1 /\ l = "error"
  PROVE  QueueInv'
<1> DEFINE e == [wk[w] EXCEPT !.pc = l]
<1>1. /\ j \in Job /\ On(w, j) /\ queue[j].state # "absent" /\ Exists(j) /\ JobInv(j)
      /\ wk[w] \in Execution /\ queue[j].stalls \in Nat /\ copies[j] \in Nat /\ faults \in Nat
  BY AtWork
<1>2. e \in Execution /\ e.pc = l /\ e.j = j /\ e.owner = wk[w].owner BY <1>1 DEF Execution
<1>3. /\ copies' \in [Job -> Nat] /\ \A i \in Job : i # j => copies'[i] = copies[i]
      /\ \/ copies'[j] = copies[j]
         \/ copies'[j] = copies[j] + 1 /\ wk[w].pc = "send" /\ l = "complete" /\ UNCHANGED faults
  BY <1>1 DEF QueueInv, Typed
<1>4. OwnEntry(w, j, e)
  BY <1>1, <1>2, <1>3 DEF OwnEntry, OwnRow, Step, QueueInv, Typed, QueueType
<1>5. wk'[w] = e /\ \A v \in Worker : v # w => wk'[v] = wk[v]
  BY <1>4 DEF OwnEntry, QueueInv, Typed
<1> HIDE DEF e
<1>6. /\ \A v \in Worker : wk'[v].owner = wk[v].owner /\ (On(v, j)' <=> On(v, j))
      /\ \A v \in Worker : Unsent(v, j)' /\ v # w => Unsent(v, j)
  <2>1. On(w, j)' BY <1>2, <1>5 DEF On
  <2> QED BY <1>1, <1>2, <1>5, <2>1 DEF On, Unsent
<1>7. ASSUME faults' <= 1, queue[j].stalls = 0 PROVE SentOnce(j)'
  <2>1. queue[j].state = "active" /\ \A v \in Worker : On(v, j) => v = w
    BY <1>1, <1>7, Alone DEF JobInv
  <2>2. faults <= 1 BY <1>1, <1>7
  <2>3. SentOnce(j) BY <1>1, <1>7, <2>2 DEF JobInv
  <2>4. CASE l = "error"
    BY <1>2, <1>3, <1>5, <1>6, <2>1, <2>3, <2>4 DEF SentOnce, Unsent, On
  <2>5. CASE l # "error"
    <3>1. copies[j] = 0 BY <1>7, <2>2, <2>5, Fresh
    <3>2. CASE copies'[j] = copies[j] BY <3>1, <3>2 DEF SentOnce
    <3>3. CASE copies'[j] = 1 /\ l = "complete"
      BY <1>2, <1>5, <1>6, <2>1, <3>3 DEF SentOnce, Unsent, On
    <3> QED BY <1>3, <3>1, <3>2, <3>3
  <2> QED BY <2>4, <2>5
<1>8. ASSUME faults' <= 1, queue[j].stalls = 1 PROVE SentTwice(j)'
  <2>1. l # "error" /\ UNCHANGED faults /\ Unsent(w, j) BY <1>1, <1>8 DEF JobInv
  <2>2. SentTwice(j) BY <1>1, <1>8, <2>1 DEF JobInv
  <2>3. \A v \in Worker : Unsent(v, j)' => Unsent(v, j) BY <1>6, <2>1
  <2>4. CASE copies'[j] = copies[j]
    BY <1>6, <2>2, <2>3, <2>4 DEF SentTwice
  <2>5. CASE copies'[j] = copies[j] + 1 /\ l = "complete"
    <3>1. ~Unsent(w, j)' BY <1>2, <1>5, <2>5 DEF Unsent
    <3>2. copies[j] <= 1 BY <2>1, <2>2 DEF SentTwice
    <3>3. queue[j].state = "waiting" => ~wk[w].owner /\ copies[j] = 0
      BY <1>1, <2>1, <2>2 DEF SentTwice, JobInv
    <3>4. ASSUME NEW v \in Worker, Unsent(v, j)'
          PROVE  /\ v # w /\ copies[j] = 0
                 /\ ~(~wk[v].owner /\ queue[j].state = "waiting")
                 /\ \A u \in Worker : Unsent(u, j)' => u = v
      <4>1. v # w /\ Unsent(v, j) /\ On(v, j) BY <2>3, <3>1, <3>4 DEF Unsent
      <4>2. copies[j] = 0 BY <2>1, <2>2, <4>1 DEF SentTwice
      <4>3. queue[j].state = "waiting" => ~wk[w].owner BY <3>3
      <4>4. ~(~wk[v].owner /\ ~wk[w].owner) /\ ~(wk[v].owner /\ wk[w].owner)
        BY <1>1, <1>8, <4>1 DEF JobInv
      <4>5. ASSUME NEW u \in Worker, Unsent(u, j)', u # v PROVE FALSE
        <5>1. u # w /\ On(u, j) BY <2>3, <3>1, <4>5 DEF Unsent
        <5>2. \A x \in Worker : wk[x].owner \in BOOLEAN BY DEF QueueInv, Typed, Execution
        <5>3. ~(~wk[u].owner /\ ~wk[w].owner) /\ ~(wk[u].owner /\ wk[w].owner)
          BY <1>1, <1>8, <5>1 DEF JobInv
        <5>4. ~(~wk[u].owner /\ ~wk[v].owner) /\ ~(wk[u].owner /\ wk[v].owner)
          BY <1>1, <1>8, <4>1, <4>5, <5>1 DEF JobInv
        <5> QED BY <4>4, <5>2, <5>3, <5>4
      <4> QED BY <4>1, <4>2, <4>3, <4>4, <4>5
    <3>5. copies'[j] <= 2 /\ (queue[j].state = "waiting" => copies'[j] <= 1)
      BY <1>1, <2>5, <3>2, <3>3
    <3>6. copies[j] = 0 => copies'[j] <= 1 BY <2>5
    <3> QED BY <1>6, <3>4, <3>5, <3>6 DEF SentTwice
  <2> QED BY <1>3, <2>4, <2>5
<1>9. (\A v \in Worker : On(v, j) /\ wk[v].pc = "error" => queue[j].stalls + 1 <= faults)'
  <2> SUFFICES ASSUME NEW v \in Worker, On(v, j)', wk'[v].pc = "error"
               PROVE  queue[j].stalls + 1 <= faults'
    OBVIOUS
  <2>1. CASE v = w BY <1>1, <1>2, <1>5, <2>1 DEF JobInv
  <2>2. CASE v # w
    <3>1. queue[j].stalls + 1 <= faults BY <1>1, <1>5, <1>6, <2>2 DEF JobInv
    <3> QED BY <1>1, <3>1
  <2> QED BY <2>1, <2>2
<1>10. JobInv(j)'
  <2>1. (queue[j].stalls <= faults)' BY <1>1 DEF JobInv
  <2> QED BY <1>1, <1>6, <1>7, <1>8, <1>9, <2>1 DEF JobInv
<1> QED BY <1>1, <1>2, <1>4, <1>10, Assemble

\* No execution is an execution at rest.
LEMMA NoExecutionType == NoExecution \in Execution /\ NoExecution.pc = "idle"
BY DEF NoExecution, Execution, WorkerPc

\* The worker lets its entry go: what others may do with it is unchanged.
LEMMA LetGo ==
  ASSUME QueueInv, NEW w \in Worker, wk[w].pc # "idle", NEW j, wk[w].j = j,
         wk' = [wk EXCEPT ![w] = NoExecution], UNCHANGED <<req, copies>>, OwnRow(j),
         queue' \in QueueType, \A i \in Job : i # j => queue'[i] = queue[i],
         queue'[j].state # "absent", queue'[j].stalls = queue[j].stalls,
         wk[w].owner \/ queue'[j].state = queue[j].state,
         faults' = faults \/ faults' = faults + 1,
         faults' <= 1 /\ queue[j].stalls = 0 => SentOnce(j)',
         faults' <= 1 /\ queue[j].stalls = 1 => SentTwice(j)'
  PROVE  QueueInv'
<1>1. /\ j \in Job /\ On(w, j) /\ JobInv(j) /\ queue[j].stalls \in Nat /\ faults \in Nat
      /\ queue[j].state # "absent"
  BY AtWork
<1>2. OwnEntry(w, j, NoExecution)
  BY <1>1, NoExecutionType DEF OwnEntry, OwnRow, QueueInv, Typed
<1>3. wk'[w] = NoExecution /\ \A v \in Worker : v # w => wk'[v] = wk[v]
  BY <1>2 DEF OwnEntry, QueueInv, Typed
<1>4. \A v \in Worker : On(v, j)' => v # w /\ On(v, j) /\ wk'[v] = wk[v]
  BY <1>3, NoExecutionType DEF On
<1>5. (\A v, u \in Worker : On(v, j) /\ wk[v].owner =>
         queue[j].state = "active" /\ (On(u, j) /\ wk[u].owner => u = v))'
  BY <1>1, <1>4 DEF JobInv
<1>6. /\ (\A v \in Worker : On(v, j) /\ ~wk[v].owner => queue[j].stalls >= 1)'
      /\ (queue[j].stalls = 1 =>
            \A v, u \in Worker : On(v, j) /\ ~wk[v].owner /\ On(u, j) /\ ~wk[u].owner => u = v)'
  BY <1>1, <1>4 DEF JobInv
<1>7. (queue[j].stalls <= faults)' BY <1>1 DEF JobInv
<1>8. (\A v \in Worker : On(v, j) /\ wk[v].pc = "error" => queue[j].stalls + 1 <= faults)'
  BY <1>1, <1>4 DEF JobInv
<1>9. JobInv(j)' BY <1>5, <1>6, <1>7, <1>8 DEF JobInv
<1> QED BY <1>1, <1>2, <1>9, NoExecutionType, Assemble

\* The processor returns.
LEMMA ReturnStep ==
  ASSUME QueueInv, NEW w \in Worker, wk[w].pc # "idle", NEW j, wk[w].j = j,
         Return(w), UNCHANGED <<req, copies, faults>>, OwnRow(j),
         UNCHANGED row \/ Settled(j)'
  PROVE  QueueInv'
<1>1. /\ j \in Job /\ On(w, j) /\ JobInv(j) /\ queue[j].stalls \in Nat /\ faults \in Nat
      /\ queue[j].state # "absent" /\ wk[w] \in Execution
  BY AtWork
<1>2. wk' = [wk EXCEPT ![w] = NoExecution] BY DEF Return
<1>3. wk'[w] = NoExecution /\ \A v \in Worker : v # w => wk'[v] = wk[v]
  BY <1>2 DEF QueueInv, Typed
<1>4. \A v \in Worker : Unsent(v, j)' => v # w /\ Unsent(v, j) /\ wk'[v] = wk[v]
  BY <1>3, NoExecutionType DEF Unsent, On
<1>5. /\ queue' \in QueueType /\ \A i \in Job : i # j => queue'[i] = queue[i]
      /\ queue'[j].state # "absent" /\ queue'[j].stalls = queue[j].stalls
      /\ IF wk[w].owner THEN queue'[j].state = "completed" ELSE queue'[j] = queue[j]
  <2>1. queue \in QueueType BY DEF QueueInv, Typed, QueueType
  <2>2. CASE wk[w].owner
    <3>1. queue' = [queue EXCEPT ![j].state = "completed"] BY <2>2 DEF Return
    <3> QED BY <1>1, <2>1, <2>2, <3>1 DEF QueueType
  <2>3. CASE ~wk[w].owner
    <3>1. queue' = queue BY <2>3 DEF Return
    <3> QED BY <1>1, <2>1, <2>3, <3>1
  <2> QED BY <2>2, <2>3
<1>6. ASSUME faults' <= 1, queue[j].stalls = 0 PROVE SentOnce(j)'
  <2>1. wk[w].owner /\ \A v \in Worker : On(v, j) => v = w BY <1>6, Alone
  <2>2. SentOnce(j) BY <1>1, <1>6 DEF JobInv
  <2>3. \A v \in Worker : ~Unsent(v, j)' BY <1>4, <2>1 DEF Unsent
  <2> QED BY <1>5, <2>1, <2>2, <2>3 DEF SentOnce
<1>7. ASSUME faults' <= 1, queue[j].stalls = 1 PROVE SentTwice(j)'
  <2>1. SentTwice(j) BY <1>1, <1>7 DEF JobInv
  <2>2. queue'[j].state = "waiting" => queue[j].state = "waiting" BY <1>5
  <2> QED BY <1>4, <2>1, <2>2 DEF SentTwice
<1> QED BY <1>1, <1>2, <1>5, <1>6, <1>7, LetGo

\* The processor throws: after an error that has settled the row, or because of
\* a failure of its own.
LEMMA ThrowStep ==
  ASSUME QueueInv, NEW w \in Worker, wk[w].pc # "idle", NEW j, wk[w].j = j,
         Throw(w), UNCHANGED <<req, copies>>, OwnRow(j),
         \/ wk[w].pc = "error" /\ UNCHANGED faults /\ Settled(j)'
         \/ wk[w].pc # "complete" /\ faults' = faults + 1
  PROVE  QueueInv'
<1>1. /\ j \in Job /\ On(w, j) /\ JobInv(j) /\ queue[j].stalls \in Nat /\ faults \in Nat
      /\ queue[j].state # "absent" /\ wk[w] \in Execution /\ copies[j] \in Nat
  BY AtWork
<1>2. wk' = [wk EXCEPT ![w] = NoExecution] BY DEF Throw
<1>3. wk'[w] = NoExecution /\ \A v \in Worker : v # w => wk'[v] = wk[v]
  BY <1>2 DEF QueueInv, Typed
<1>4. \A v \in Worker : Unsent(v, j)' => v # w /\ Unsent(v, j) /\ wk'[v] = wk[v]
  BY <1>3, NoExecutionType DEF Unsent, On
<1>5. /\ queue' \in QueueType /\ \A i \in Job : i # j => queue'[i] = queue[i]
      /\ queue'[j].state # "absent" /\ queue'[j].stalls = queue[j].stalls
      /\ wk[w].owner \/ queue'[j] = queue[j]
  <2>1. queue \in QueueType BY DEF QueueInv, Typed, QueueType
  <2>2. CASE wk[w].owner
    <3> DEFINE tries == queue[j].tries + 1
               state == IF tries < MaxTries THEN "waiting" ELSE "failed"
    <3>1. queue' = [queue EXCEPT ![j].tries = tries, ![j].state = state]
      BY <2>2 DEF Throw
    <3>2. tries \in Nat /\ state \in {"waiting", "failed"}
      BY <1>1, <2>1 DEF QueueType
    <3> HIDE DEF tries, state
    <3> QED BY <1>1, <2>1, <2>2, <3>1, <3>2 DEF QueueType
  <2>3. CASE ~wk[w].owner
    <3>1. queue' = queue BY <2>3 DEF Throw
    <3> QED BY <1>1, <2>1, <2>3, <3>1
  <2> QED BY <2>2, <2>3
<1>6. faults' <= 1 => queue[j].stalls = 0 BY <1>1 DEF JobInv
<1>7. ASSUME faults' <= 1, queue[j].stalls = 0 PROVE SentOnce(j)'
  <2>1. wk[w].owner /\ \A v \in Worker : On(v, j) => v = w BY <1>7, Alone
  <2>2. \A v \in Worker : ~Unsent(v, j)' BY <1>4, <2>1 DEF Unsent
  <2>3. CASE wk[w].pc = "error" /\ UNCHANGED faults /\ Settled(j)'
    <3>1. SentOnce(j) /\ faults = 1 BY <1>1, <1>7, <2>3 DEF JobInv
    <3> QED BY <2>2, <2>3, <3>1 DEF SentOnce
  <2>4. CASE wk[w].pc # "complete" /\ faults' = faults + 1
    <3>1. faults = 0 BY <1>1, <1>7, <2>4
    <3>2. Unsent(w, j) BY <1>1, <2>4, <3>1 DEF Unsent, JobInv
    <3>3. copies[j] = 0 BY <1>7, <3>1, <3>2, Fresh
    <3> QED BY <3>3 DEF SentOnce
  <2> QED BY <2>3, <2>4
<1>8. faults' <= 1 /\ queue[j].stalls = 1 => SentTwice(j)' BY <1>6
<1>9. faults' = faults \/ faults' = faults + 1 OBVIOUS
<1>10. wk[w].owner \/ queue'[j].state = queue[j].state BY <1>5
<1>11. /\ queue' \in QueueType /\ \A i \in Job : i # j => queue'[i] = queue[i]
       /\ queue'[j].state # "absent" /\ queue'[j].stalls = queue[j].stalls
  BY <1>5
<1> HIDE DEF QueueType
<1> QED BY <1>2, <1>7, <1>8, <1>9, <1>10, <1>11, LetGo

\* An entry that waits is given to one worker: nobody else owns it.
LEMMA TakeStep ==
  ASSUME QueueInv, NEW w \in Worker, NEW j \in Job, Take(w, j)
  PROVE  QueueInv'
<1> DEFINE e == [pc |-> "read", j |-> j, owner |-> TRUE]
<1>1. /\ wk[w].pc = "idle" /\ queue[j].state = "waiting"
      /\ wk' = [wk EXCEPT ![w] = e] /\ queue' = [queue EXCEPT ![j].state = "active"]
      /\ UNCHANGED <<req, row, copies, faults>>
  BY DEF Take, At, quiet
<1>2. e \in Execution /\ e.pc = "read" /\ e.j = j /\ e.owner = TRUE
  BY DEF Execution, WorkerPc
<1> HIDE DEF e
<1>3. JobInv(j) /\ queue \in QueueType /\ queue[j].stalls \in Nat
  BY EveryJob DEF QueueInv, Typed, QueueType
<1>4. /\ queue' \in QueueType /\ \A i \in Job : i # j => queue'[i] = queue[i]
      /\ queue'[j].state = "active" /\ queue'[j].stalls = queue[j].stalls
  BY <1>1, <1>3 DEF QueueType
<1>5. Exists(j) BY <1>1 DEF QueueInv, Adding
<1>6. OwnEntry(w, j, e)
  BY <1>1, <1>2, <1>4, <1>5 DEF OwnEntry, QueueInv, Typed, Exists
<1>7. wk'[w] = e /\ \A v \in Worker : v # w => wk'[v] = wk[v]
  BY <1>1 DEF QueueInv, Typed
<1>8. /\ \A v \in Worker : v # w => wk'[v] = wk[v] /\ (On(v, j)' <=> On(v, j))
                                    /\ (Unsent(v, j)' <=> Unsent(v, j))
      /\ ~On(w, j) /\ On(w, j)'
  BY <1>1, <1>2, <1>7 DEF On, Unsent
<1>9. \A v \in Worker : On(v, j) => ~wk[v].owner BY <1>1, <1>3 DEF JobInv
<1>10. (\A v, u \in Worker : On(v, j) /\ wk[v].owner =>
          queue[j].state = "active" /\ (On(u, j) /\ wk[u].owner => u = v))'
  BY <1>4, <1>8, <1>9
<1>11. /\ (\A v \in Worker : On(v, j) /\ ~wk[v].owner => queue[j].stalls >= 1)'
       /\ (queue[j].stalls = 1 =>
             \A v, u \in Worker : On(v, j) /\ ~wk[v].owner /\ On(u, j) /\ ~wk[u].owner => u = v)'
  BY <1>2, <1>3, <1>4, <1>7, <1>8 DEF JobInv
<1>12. (queue[j].stalls <= faults)' BY <1>1, <1>3, <1>4 DEF JobInv
<1>13. (\A v \in Worker : On(v, j) /\ wk[v].pc = "error" => queue[j].stalls + 1 <= faults)'
  BY <1>1, <1>2, <1>3, <1>4, <1>7, <1>8 DEF JobInv
<1>14. ASSUME faults <= 1, queue[j].stalls = 0 PROVE SentOnce(j)'
  <2>1. SentOnce(j) BY <1>3, <1>14 DEF JobInv
  <2>2. Settled(j)' = Settled(j) BY <1>1 DEF Settled
  <2>3. \A v \in Worker : v # w /\ Unsent(v, j)' => Unsent(v, j) /\ wk'[v] = wk[v] BY <1>8
  <2> QED BY <1>1, <1>2, <1>4, <1>7, <2>1, <2>2, <2>3 DEF SentOnce
<1>15. ASSUME faults <= 1, queue[j].stalls = 1 PROVE SentTwice(j)'
  <2>1. SentTwice(j) /\ copies[j] <= 1 BY <1>1, <1>3, <1>15 DEF JobInv, SentTwice
  <2>2. \A v \in Worker : Unsent(v, j)' /\ v # w => copies[j] = 0
    BY <1>1, <1>8, <1>9, <2>1 DEF SentTwice, Unsent
  <2> QED BY <1>1, <1>4, <2>1, <2>2 DEF SentTwice
<1>16. JobInv(j)' BY <1>1, <1>4, <1>10, <1>11, <1>12, <1>13, <1>14, <1>15 DEF JobInv
<1> QED BY <1>1, <1>2, <1>6, <1>16, Assemble

\* A worker stalls, dead or alive, and its entry waits for another or fails.
LEMMA StallStep ==
  ASSUME QueueInv, NEW w \in Worker, NEW dead \in BOOLEAN, Stall(w, dead)
  PROVE  QueueInv'
<1> SUFFICES ASSUME NEW j, wk[w].j = j PROVE QueueInv'
  OBVIOUS
<1> DEFINE e == IF dead THEN NoExecution ELSE [wk[w] EXCEPT !.owner = FALSE]
<1>1. /\ wk[w].pc # "idle" /\ wk[w].owner /\ faults' = faults + 1
      /\ UNCHANGED <<req, row, copies>>
  BY DEF Stall, At, Fault, quiet
<1>2. /\ j \in Job /\ On(w, j) /\ JobInv(j) /\ queue[j].stalls \in Nat /\ faults \in Nat
      /\ queue[j].state # "absent" /\ wk[w] \in Execution /\ copies[j] \in Nat
  BY <1>1, AtWork
<1>3. wk' = [wk EXCEPT ![w] = e]
  <2>1. CASE dead BY <2>1 DEF Stall
  <2>2. CASE ~dead BY <2>2 DEF Stall
  <2> QED BY <2>1, <2>2
<1>4. /\ e \in Execution
      /\ e.pc # "idle" => e.j = j /\ e.pc = wk[w].pc /\ ~e.owner
  <2>1. CASE dead BY <2>1, NoExecutionType
  <2>2. CASE ~dead BY <1>1, <1>2, <2>2 DEF Execution
  <2> QED BY <2>1, <2>2
<1> HIDE DEF e
<1>5. wk'[w] = e /\ \A v \in Worker : v # w => wk'[v] = wk[v]
  BY <1>3 DEF QueueInv, Typed
<1>6. /\ queue' \in QueueType /\ \A i \in Job : i # j => queue'[i] = queue[i]
      /\ queue'[j].state \in {"waiting", "failed"} /\ queue'[j].stalls = queue[j].stalls + 1
  <2> DEFINE state == IF queue[j].stalls = 0 THEN "waiting" ELSE "failed"
             stalls == queue[j].stalls + 1
  <2>1. queue' = [queue EXCEPT ![j].stalls = stalls, ![j].state = state] BY DEF Stall
  <2>2. queue \in QueueType /\ state \in {"waiting", "failed"}
        /\ stalls \in Nat /\ stalls = queue[j].stalls + 1
    BY <1>2 DEF QueueInv, Typed, QueueType
  <2> HIDE DEF state, stalls
  <2> DEFINE q == [queue[j] EXCEPT !.stalls = stalls, !.state = state]
  <2>3. queue' = [queue EXCEPT ![j] = q] BY <2>1
  <2>4. /\ q \in [state : {"absent", "waiting", "active", "completed", "failed"},
                  tries : Nat, stalls : Nat]
        /\ q.state = state /\ q.stalls = stalls
    BY <1>2, <2>2 DEF QueueType
  <2> HIDE DEF q
  <2> QED BY <1>2, <2>2, <2>3, <2>4 DEF QueueType
<1>7. OwnEntry(w, j, e)
  <2>1. OwnRow(j) BY <1>1, SameRow
  <2> QED BY <1>1, <1>2, <1>3, <1>4, <1>6, <2>1 DEF OwnEntry, OwnRow, QueueInv, Typed
<1>8. \A v \in Worker : v # w /\ On(v, j) => ~wk[v].owner BY <1>1, <1>2 DEF JobInv
<1>9. \A v \in Worker : On(v, j)' => On(v, j) /\ ~wk'[v].owner /\ wk'[v].pc = wk[v].pc
  BY <1>2, <1>4, <1>5, <1>8 DEF On
<1>10. queue[j].stalls = 0 => \A v \in Worker : On(v, j) => v = w BY <1>1, Alone
<1>11. \A v \in Worker : Unsent(v, j)' => Unsent(v, j) BY <1>9 DEF Unsent
<1>12. (queue[j].stalls = 1 =>
          \A v, u \in Worker : On(v, j) /\ ~wk[v].owner /\ On(u, j) /\ ~wk[u].owner => u = v)'
  BY <1>2, <1>6, <1>9, <1>10
<1>13. (queue[j].stalls <= faults)' BY <1>1, <1>2, <1>6 DEF JobInv
<1>14. (\A v \in Worker : On(v, j) /\ wk[v].pc = "error" => queue[j].stalls + 1 <= faults)'
  BY <1>1, <1>2, <1>6, <1>9 DEF JobInv
<1>15. ASSUME faults' <= 1 PROVE queue'[j].stalls = 1 /\ SentTwice(j)'
  <2>1. faults = 0 /\ queue[j].stalls = 0 BY <1>1, <1>2, <1>15 DEF JobInv
  <2>2. SentOnce(j) BY <1>2, <2>1 DEF JobInv
  <2>3. \A v \in Worker : Unsent(v, j)' => v = w /\ copies[j] = 0
    BY <1>2, <1>10, <1>11, <2>1, <2>2 DEF SentOnce, Unsent
  <2> QED BY <1>1, <1>2, <1>6, <2>1, <2>2, <2>3 DEF SentOnce, SentTwice
<1>16. JobInv(j)'
  BY <1>2, <1>6, <1>9, <1>12, <1>13, <1>14, <1>15 DEF JobInv
<1> QED BY <1>2, <1>4, <1>7, <1>16, Assemble

\* The worker's entry was given out again: its death is the second failure.
LEMMA StalledDiesStep ==
  ASSUME QueueInv, NEW w \in Worker, StalledDies(w)
  PROVE  QueueInv'
<1> SUFFICES ASSUME NEW j, wk[w].j = j PROVE QueueInv'
  OBVIOUS
<1>1. /\ wk[w].pc # "idle" /\ ~wk[w].owner /\ faults' = faults + 1
      /\ wk' = [wk EXCEPT ![w] = NoExecution] /\ UNCHANGED <<req, row, queue, copies>>
  BY DEF StalledDies, At, Fault, quiet
<1>2. /\ j \in Job /\ On(w, j) /\ JobInv(j) /\ queue[j].stalls \in Nat /\ faults \in Nat
      /\ queue[j].state # "absent" /\ OwnRow(j)
  BY <1>1, AtWork, SameRow
<1>3. ~(faults' <= 1) BY <1>1, <1>2 DEF JobInv
<1>4. queue' \in QueueType BY <1>1 DEF QueueInv, Typed, QueueType
<1> QED BY <1>1, <1>2, <1>3, <1>4, LetGo

\* Every step of a worker, its crashes included, keeps the queue.
LEMMA WorkerSteps ==
  ASSUME QueueInv, NEW w \in Worker,
         WorkerStep(w) \/ StatementFails(w) \/ StatementCaught(w)
         \/ WorkerDies(w) \/ LockLost(w) \/ StalledDies(w)
  PROVE  QueueInv'
<1> SUFFICES ASSUME NEW j, wk[w].j = j PROVE QueueInv'
  OBVIOUS
<1> USE DEF quiet, At
<1>1. CASE \E i \in Job : Take(w, i) BY <1>1, TakeStep
<1>2. CASE ReadRow(w)
  <2>1. wk[w].pc = "read" /\ UNCHANGED <<req, row, copies, faults>> BY <1>2 DEF ReadRow
  <2>2. OwnRow(j) /\ Unsent(w, j) BY <2>1, SameRow DEF Unsent, On
  <2>3. CASE Settled(j)
    BY <1>2, <2>1, <2>2, <2>3, ReturnStep DEF ReadRow, Settled
  <2>4. CASE ~Settled(j)
    <3>1. PICK l \in {"precheck", "claim"} : Step(w, l) /\ UNCHANGED queue
      BY <1>2, <2>4 DEF ReadRow, Settled
    <3> QED BY <2>1, <2>2, <2>4, <3>1, MoveStep DEF WorkerPc
  <2> QED BY <2>3, <2>4
<1>3. CASE PreCheck(w)
  <2>1. wk[w].pc = "precheck" /\ UNCHANGED <<req, row, queue, copies, faults>>
    BY <1>3 DEF PreCheck
  <2>2. OwnRow(j) /\ Unsent(w, j) BY <2>1, SameRow DEF Unsent, On
  <2>3. PICK l \in {"claim", "void"} : Step(w, l) BY <1>3 DEF PreCheck
  <2> QED BY <2>1, <2>2, <2>3, MoveStep DEF WorkerPc
<1>4. CASE Claim(w)
  <2>1. wk[w].pc = "claim" /\ UNCHANGED <<req, queue, copies, faults>>
        /\ Step(w, "latest") /\ SetStatus(w, "PROCESSING")
    BY <1>4 DEF Claim
  <2>2. OwnRow(j) /\ Unsent(w, j) BY <2>1, StatusStep DEF Unsent, On
  <2> QED BY <2>1, <2>2, MoveStep DEF WorkerPc
<1>5. CASE ReadLatest(w)
  <2>1. wk[w].pc = "latest" /\ UNCHANGED <<req, row, copies, faults>> BY <1>5 DEF ReadLatest
  <2>2. OwnRow(j) /\ Unsent(w, j) BY <2>1, SameRow DEF Unsent, On
  <2>3. CASE row[j].status = "FAILED"
    BY <1>5, <2>1, <2>2, <2>3, ReturnStep DEF ReadLatest
  <2>4. CASE row[j].status # "FAILED"
    <3>1. PICK l \in {"recheck", "send"} : Step(w, l) /\ UNCHANGED queue
      BY <1>5, <2>4 DEF ReadLatest
    <3> QED BY <2>1, <2>2, <3>1, MoveStep DEF WorkerPc
  <2> QED BY <2>3, <2>4
<1>6. CASE ReCheck(w)
  <2>1. wk[w].pc = "recheck" /\ UNCHANGED <<req, row, queue, copies, faults>>
    BY <1>6 DEF ReCheck
  <2>2. OwnRow(j) /\ Unsent(w, j) BY <2>1, SameRow DEF Unsent, On
  <2>3. PICK l \in {"send", "revoid"} : Step(w, l) BY <1>6 DEF ReCheck
  <2> QED BY <2>1, <2>2, <2>3, MoveStep DEF WorkerPc
<1>7. CASE InvalidateRow(w)
  <2>1. wk[w].pc # "idle" /\ SetStatus(w, "FAILED") /\ Return(w)
        /\ UNCHANGED <<req, copies, faults>>
    BY <1>7 DEF InvalidateRow
  <2>2. OwnRow(j) /\ row'[j].status = "FAILED" BY <2>1, StatusStep
  <2> QED BY <2>1, <2>2, ReturnStep DEF Settled
<1>8. CASE sendEmail(w) \/ sendText(w)
  <2>1. wk[w].pc = "send" /\ UNCHANGED <<req, row, queue>>
        /\ (Sent(w) \/ OnlyLogged(w) \/ NotSent(w))
    BY <1>8 DEF sendEmail, sendText
  <2>2. OwnRow(j) /\ Unsent(w, j) BY <2>1, SameRow DEF Unsent, On
  <2>3. CASE Sent(w) BY <2>1, <2>2, <2>3, MoveStep DEF Sent, WorkerPc
  <2>4. CASE OnlyLogged(w) BY <2>1, <2>2, <2>4, MoveStep DEF OnlyLogged, WorkerPc
  <2>5. CASE NotSent(w) BY <2>1, <2>2, <2>5, MoveStep DEF NotSent, Fault, WorkerPc
  <2> QED BY <2>1, <2>3, <2>4, <2>5
<1>9. CASE Complete(w)
  <2>1. wk[w].pc = "complete" /\ UNCHANGED <<req, copies>> BY <1>9 DEF Complete
  <2>2. CASE SetStatus(w, "COMPLETED") /\ Return(w) /\ UNCHANGED faults
    <3>1. OwnRow(j) /\ row'[j].status = "COMPLETED" BY <2>1, <2>2, StatusStep
    <3> QED BY <2>1, <2>2, <3>1, ReturnStep DEF Settled
  <2>3. CASE Fault /\ Step(w, "error") /\ UNCHANGED <<row, queue, current>>
    <3>1. OwnRow(j) BY <2>1, <2>3, SameRow
    <3> QED BY <2>1, <2>3, <3>1, MoveStep DEF Fault, WorkerPc
  <2> QED BY <1>9, <2>2, <2>3 DEF Complete
<1>10. CASE FailRow(w)
  <2>1. wk[w].pc = "error" /\ SetStatus(w, "FAILED") /\ Throw(w)
        /\ UNCHANGED <<req, copies, faults>>
    BY <1>10 DEF FailRow
  <2>2. OwnRow(j) /\ row'[j].status = "FAILED" BY <2>1, StatusStep
  <2> QED BY <2>1, <2>2, ThrowStep DEF Settled
<1>11. CASE StatementFails(w)
  <2>1. wk[w].pc \notin {"idle", "complete"} /\ Throw(w) /\ faults' = faults + 1
        /\ UNCHANGED <<req, row, copies>>
    BY <1>11 DEF StatementFails, Fault
  <2>2. OwnRow(j) BY <2>1, SameRow
  <2> QED BY <2>1, <2>2, ThrowStep
<1>12. CASE StatementCaught(w)
  <2>1. wk[w].pc # "idle" /\ Step(w, "error") /\ faults' = faults + 1
        /\ UNCHANGED <<req, row, queue, copies>>
    BY <1>12 DEF StatementCaught, Fault
  <2>2. OwnRow(j) BY <2>1, SameRow
  <2> QED BY <2>1, <2>2, MoveStep DEF WorkerPc
<1>13. CASE WorkerDies(w) BY <1>13, StallStep DEF WorkerDies
<1>14. CASE LockLost(w) BY <1>14, StallStep DEF LockLost
<1>15. CASE StalledDies(w) BY <1>15, StalledDiesStep
<1> QED BY <1>1, <1>2, <1>3, <1>4, <1>5, <1>6, <1>7, <1>8, <1>9, <1>10, <1>11, <1>12,
           <1>13, <1>14, <1>15 DEF WorkerStep

--------------------------------------------------------------------------------
\* Every step keeps the queue's invariant.
LEMMA NextStep ==
  ASSUME QueueInv, [Next]_vars
  PROVE  QueueInv'
<1>1. ASSUME NEW r \in Req,
             \/ HandlerStep(r) \/ HandlerDies(r) \/ enqueueWaitlistSlotOpen(r)
             \/ \E a \in Appt, s \in Start : Book(r, a, s)
             \/ \E a \in Appt, op \in Operations, s \in Start \cup {0} : Decide(r, a, op, s)
      PROVE  QueueInv'
  <2>1. CASE cancelPendingForAppointment(r) BY <2>1, VoidStep
  <2>2. CASE CreateRow(r) BY <2>2, CreateStep
  <2>3. CASE Enqueue(r) BY <2>3, EnqueueStep
  <2>4. CASE ~(cancelPendingForAppointment(r) \/ CreateRow(r) \/ Enqueue(r))
    <3>1. HandlerAlone(r) BY <1>1, <2>4, AloneSteps DEF HandlerStep
    <3> QED BY <3>1, AloneStep
  <2> QED BY <2>1, <2>2, <2>3, <2>4
<1>2. ASSUME NEW w \in Worker,
             \/ WorkerStep(w) \/ StatementFails(w) \/ StatementCaught(w)
             \/ WorkerDies(w) \/ LockLost(w) \/ StalledDies(w)
      PROVE  QueueInv'
  BY <1>2, WorkerSteps
<1>3. CASE Tick \/ UNCHANGED vars BY <1>3, IdleStep
<1> QED BY <1>1, <1>2, <1>3 DEF Next

\* For any number of workers, handlers and rows: while at most one thing has
\* failed, no message has gone out more often than once, and once more if a worker
\* stalled with it; any other retry of processJob finds the row settled or unsent.
THEOREM NoRepeatedMessage == Spec => []OneCopyPerWorker
<1>1. Init => QueueInv BY InitQueue
<1>2. QueueInv /\ [Next]_vars => QueueInv' BY NextStep
<1>3. QueueInv => OneCopyPerWorker BY QueueInvSuffices
<1> QED BY <1>1, <1>2, <1>3, PTL DEF Spec

--------------------------------------------------------------------------------
(* The rows and the messages have their types.                             *)

\* A finite set in some order: a sequence of its elements, and of all of them.
LEMMA OrderOf ==
  ASSUME NEW S, IsFiniteSet(S)
  PROVE  /\ SetToSeq(S) \in Seq(S) /\ Len(SetToSeq(S)) = Cardinality(S)
         /\ \A e \in S : \E i \in 1 .. Len(SetToSeq(S)) : SetToSeq(S)[i] = e
<1> DEFINE n == Cardinality(S)
           order == SetToSeq(S)
<1>1. n \in Nat /\ ExistsBijection(1 .. n, S) BY FS_CardinalityType
<1>2. PICK f \in Bijection(1 .. n, S) : TRUE BY <1>1 DEF ExistsBijection
<1>3. f \in [1 .. n -> S] /\ IsInjective(f) BY <1>2 DEF Bijection, Injection
<1>4. order \in [1 .. n -> S] /\ IsInjective(order) BY <1>3, Zenon DEF SetToSeq
<1> HIDE DEF order
<1>5. order \in Seq(S) /\ Len(order) = n BY <1>1, <1>4
<1>6. IsFiniteSet(1 .. n) /\ Cardinality(1 .. n) = n BY <1>1, FS_Interval
<1>7. order \in Injection(1 .. n, S) BY <1>4 DEF Injection
<1>8. order \in Surjection(1 .. n, S) BY <1>6, <1>7, FS_Injection
<1>9. \A e \in S : \E i \in 1 .. n : order[i] = e BY <1>8 DEF Surjection
<1> QED BY <1>5, <1>9 DEF order

\* There are two channels.
LEMMA FewContacts ==
  ASSUME limits \in Limits
  PROVE  IsFiniteSet(limits.contacts)
<1>1. limits.contacts \subseteq Channels BY LimitsAssumption
<1>2. IsFiniteSet(Channels)
  <2>1. IsFiniteSet({}) BY FS_EmptySet
  <2>2. IsFiniteSet({} \cup {"EMAIL"}) BY <2>1, FS_AddElement
  <2>3. IsFiniteSet(({} \cup {"EMAIL"}) \cup {"WHATSAPP"}) BY <2>2, FS_AddElement
  <2>4. Channels = ({} \cup {"EMAIL"}) \cup {"WHATSAPP"} BY DEF Channels
  <2> QED BY <2>3, <2>4
<1> QED BY <1>1, <1>2, FS_Subset

\* There are finitely many reminders to create.
LEMMA FewReminders ==
  ASSUME limits \in Limits, NEW a, NEW at
  PROVE  IsFiniteSet(Reminders(a, at))
<1>3. IsFiniteSet(limits.contacts) BY FewContacts
<1>4. IsFiniteSet(Leads \X limits.contacts) BY <1>3, FS_Product, TimeAssumption
<1> DEFINE f == [p \in Leads \X limits.contacts |-> Reminder(a, at, p[1], p[2])]
<1>5. f \in Surjection(Leads \X limits.contacts, Reminders(a, at))
  <2>1. f \in [Leads \X limits.contacts -> Reminders(a, at)] BY DEF Reminders
  <2>2. ASSUME NEW m \in Reminders(a, at) PROVE \E p \in Leads \X limits.contacts : f[p] = m
    <3>1. PICK lead \in Leads, c \in limits.contacts : m = Reminder(a, at, lead, c)
      BY DEF Reminders
    <3>2. <<lead, c>> \in Leads \X limits.contacts /\ f[<<lead, c>>] = m BY <3>1
    <3> QED BY <3>2
  <2> HIDE DEF f
  <2> QED BY <2>1, <2>2 DEF Surjection
<1> HIDE DEF f
<1> QED BY <1>4, <1>5, FS_Surjection

\* Those that the appointments booked at the start wait for.
Booked(booked) == {a \in Appt : booked[a] # 0}
Awaited(booked) == UNION {Reminders(a, booked[a]) : a \in Booked(booked)}

\* They are finitely many too.
LEMMA FewAwaited ==
  ASSUME limits \in Limits, NEW booked
  PROVE  IsFiniteSet(Awaited(booked))
<1> DEFINE A == Booked(booked)
           f == [a \in A |-> Reminders(a, booked[a])]
           R == {Reminders(a, booked[a]) : a \in A}
<1>1. IsFiniteSet(A)
  <2>1. A \subseteq Appt BY DEF Booked
  <2> QED BY <2>1, FS_Subset, NamesAssumption
<1>2. f \in Surjection(A, R) BY DEF Surjection
<1>3. IsFiniteSet(R) BY <1>1, <1>2, FS_Surjection
<1>4. \A T \in R : IsFiniteSet(T) BY FewReminders
<1> HIDE DEF R
<1>5. IsFiniteSet(UNION R) BY <1>3, <1>4, FS_UNION
<1> QED BY <1>5 DEF R, Awaited

\* Reminders are about appointments.
Proper(m) == m \in Message /\ (m.type = "BOOKING_REMINDER" => m.appt \in Appt)

\* A handler that will write or read an appointment has one.
Carries(h) ==
  /\ h \in Handler
  /\ h.pc \in {"write", "void", "read"} => h.a \in Appt
  /\ \A i \in DOMAIN h.todo : Proper(h.todo[i])

\* An entry that is not done with has a try and a stall left.
Bounded ==
  \A j \in Job :
    /\ queue[j] \in Entry
    /\ queue[j].state \in {"absent", "waiting", "active"} =>
         queue[j].tries < MaxTries /\ queue[j].stalls <= 1

\* The inductive strengthening of TypeOK.
TypeInv ==
  /\ QueueInv /\ TypeOK /\ Bounded
  /\ \A r \in Req : Carries(req[r])
  /\ \A j \in Job : Exists(j) => Proper(row[j].msg)

\* Starts and lead times are numbers.
LEMMA TimesAreNumbers == (\A s \in Start \cup {0} : s \in Nat) /\ \A lead \in Leads : lead \in Nat
<1>1. Start \subseteq Nat /\ Leads \subseteq Nat BY TimeAssumption
<1> QED BY <1>1

\* The reminders of an appointment are proper messages.
LEMMA ReminderType ==
  ASSUME limits \in Limits, NEW a \in Appt, NEW at \in Start \cup {0}, NEW m \in Reminders(a, at)
  PROVE  Proper(m)
<1>1. PICK lead \in Leads, c \in limits.contacts : m = Reminder(a, at, lead, c)
  BY DEF Reminders
<1>2. c \in Channels BY LimitsAssumption
<1>3. at \in Nat /\ lead \in Nat BY TimesAreNumbers
<1>4. at - lead \in Int BY <1>3
<1> QED BY <1>1, <1>2, <1>4 DEF Reminder, Proper, Message, JobType

\* A message by e-mail is one.
LEMMA MailType ==
  ASSUME NEW type \in JobType, type # "BOOKING_REMINDER", NEW a \in Appt \cup {NoAppt}
  PROVE  Proper(Mail(type, a))
BY DEF Mail, Proper, Message, Channels

\* A sequence of proper messages.
Sound(todo) == todo \in Seq(Message) /\ \A i \in DOMAIN todo : Proper(todo[i])

\* An order of proper messages is a sequence of them.
LEMMA SoundOrder ==
  ASSUME NEW S, IsFiniteSet(S), \A m \in S : Proper(m)
  PROVE  Sound(SetToSeq(S))
<1> DEFINE todo == SetToSeq(S)
<1>1. todo \in Seq(S) BY OrderOf
<1>2. S \subseteq Message BY DEF Proper
<1> HIDE DEF todo
<1>3. todo \in Seq(Message) BY <1>1, <1>2, SeqMonotonic
<1>4. \A i \in DOMAIN todo : todo[i] \in S BY <1>1
<1> QED BY <1>3, <1>4 DEF Sound, todo

\* One message before the others.
LEMMA SoundConcat ==
  ASSUME NEW m, Proper(m), NEW todo, Sound(todo)
  PROVE  /\ Sound(<<m>> \o todo) /\ Sound(<<m>>)
         /\ \A i \in DOMAIN todo : \E k \in DOMAIN (<<m>> \o todo) : (<<m>> \o todo)[k] = todo[i]
<1> DEFINE one == <<m>>
           all == one \o todo
<1>1. one \in Seq(Message) /\ Len(one) = 1 /\ one[1] = m BY DEF Proper
<1>2. todo \in Seq(Message) BY DEF Sound
<1> HIDE DEF one
<1>3. /\ all \in Seq(Message) /\ Len(all) = Len(one) + Len(todo)
      /\ \A i \in 1 .. Len(one) + Len(todo) :
           all[i] = IF i <= Len(one) THEN one[i] ELSE todo[i - Len(one)]
  BY <1>1, <1>2, ConcatProperties
<1> HIDE DEF all
<1>4. Len(todo) \in Nat /\ DOMAIN todo = 1 .. Len(todo) /\ DOMAIN all = 1 .. 1 + Len(todo)
      /\ DOMAIN one = 1 .. 1
  BY <1>1, <1>2, <1>3, LenProperties
<1>5. ASSUME NEW i \in DOMAIN all PROVE Proper(all[i])
  <2>1. CASE i = 1 BY <1>1, <1>3, <1>4, <2>1
  <2>2. CASE i # 1
    <3>1. i - 1 \in DOMAIN todo /\ all[i] = todo[i - 1] BY <1>1, <1>3, <1>4, <1>5, <2>2
    <3> QED BY <3>1 DEF Sound
  <2> QED BY <2>1, <2>2
<1>6. ASSUME NEW i \in DOMAIN todo PROVE i + 1 \in DOMAIN all /\ all[i + 1] = todo[i]
  BY <1>1, <1>3, <1>4, <1>6
<1>7. Sound(all) BY <1>3, <1>5 DEF Sound
<1>8. Sound(one)
  <2>1. \A i \in DOMAIN one : one[i] = m BY <1>1, <1>4
  <2> QED BY <1>1, <2>1 DEF Sound
<1>9. \A i \in DOMAIN todo : \E k \in DOMAIN all : all[k] = todo[i] BY <1>6
<1> QED BY <1>7, <1>8, <1>9 DEF all, one

\* The messages after the first.
LEMMA SoundTail ==
  ASSUME NEW todo, Sound(todo), todo # <<>>
  PROVE  /\ Proper(Head(todo)) /\ Sound(Tail(todo))
         /\ \A i \in DOMAIN todo :
              todo[i] = Head(todo) \/ \E k \in DOMAIN Tail(todo) : Tail(todo)[k] = todo[i]
<1>1. todo \in Seq(Message) BY DEF Sound
<1>2. /\ Tail(todo) \in Seq(Message) /\ Len(Tail(todo)) = Len(todo) - 1
      /\ \A i \in 1 .. Len(Tail(todo)) : Tail(todo)[i] = todo[i + 1]
  BY <1>1, HeadTailProperties
<1>3. Len(todo) \in Nat \ {0} BY <1>1, EmptySeq
<1>4. DOMAIN todo = 1 .. Len(todo) /\ DOMAIN Tail(todo) = 1 .. Len(todo) - 1
  BY <1>1, <1>2, LenProperties
<1>5. Head(todo) = todo[1] /\ 1 \in DOMAIN todo BY <1>1, <1>3, <1>4
<1>6. ASSUME NEW i \in DOMAIN Tail(todo) PROVE Proper(Tail(todo)[i])
  <2>1. i + 1 \in DOMAIN todo /\ Tail(todo)[i] = todo[i + 1] BY <1>2, <1>3, <1>4, <1>6
  <2> QED BY <2>1 DEF Sound
<1>7. ASSUME NEW i \in DOMAIN todo, i # 1
      PROVE  i - 1 \in DOMAIN Tail(todo) /\ Tail(todo)[i - 1] = todo[i]
  BY <1>2, <1>3, <1>4, <1>7
<1> QED BY <1>2, <1>5, <1>6, <1>7 DEF Sound

\* What Init says, with the awaited reminders by name.
LEMMA InitRows ==
  ASSUME Init
  PROVE  \E booked \in [Appt -> Start \cup {0}] :
           LET old == SetToSeq(Awaited(booked)) IN
           /\ appt = [a \in Appt |-> [status |-> IF booked[a] = 0 THEN "NONE" ELSE "CONFIRMED",
                                      startsAt |-> booked[a]]]
           /\ row = [j \in Job |-> IF j <= Len(old) THEN [msg |-> old[j], status |-> "PENDING"]
                                    ELSE NoRow]
           /\ queue = [j \in Job |-> [state |-> IF j <= Len(old) THEN "waiting" ELSE "absent",
                                      tries |-> 0, stalls |-> 0]]
           /\ Len(old) <= limits.rows
           /\ spare = limits.rows - Len(old)
BY Zenon DEF Init, Awaited, Booked

\* An idle handler has its type.
LEMMA IdleHandler == NoHandler \in Handler /\ NoHandler.pc = "idle" /\ Carries(NoHandler)
<1>1. <<>> \in Seq(Message) /\ DOMAIN <<>> = {} BY EmptySeq
<1>2. NoHandler \in Handler BY <1>1 DEF NoHandler, Handler, HandlerPc, Operations
<1> QED BY <1>1, <1>2 DEF Carries, NoHandler

\* The rows of the start have their types.
LEMMA TypesInit ==
  ASSUME Init
  PROVE  TypeInv
<1>1. PICK booked \in [Appt -> Start \cup {0}] :
        LET old == SetToSeq(Awaited(booked)) IN
        /\ appt = [a \in Appt |-> [status |-> IF booked[a] = 0 THEN "NONE" ELSE "CONFIRMED",
                                   startsAt |-> booked[a]]]
        /\ row = [j \in Job |-> IF j <= Len(old) THEN [msg |-> old[j], status |-> "PENDING"]
                                 ELSE NoRow]
        /\ queue = [j \in Job |-> [state |-> IF j <= Len(old) THEN "waiting" ELSE "absent",
                                   tries |-> 0, stalls |-> 0]]
        /\ Len(old) <= limits.rows
        /\ spare = limits.rows - Len(old)
  BY InitRows
<1> DEFINE old == SetToSeq(Awaited(booked))
<1>2. limits \in Limits /\ clock = 0 /\ faults = 0 /\ dropped = {}
      /\ req = [r \in Req |-> NoHandler] /\ wk = [w \in Worker |-> NoExecution]
      /\ copies = [j \in Job |-> 0] /\ current = [w \in Worker |-> FALSE]
  BY DEF Init
<1>3. limits.rows \in Nat /\ limits.faults \in 0 .. 3
  BY <1>2, LimitsAssumption, JobAssumption, FS_CardinalityType
<1>4. Sound(old)
  <2>1. ASSUME NEW m \in Awaited(booked) PROVE Proper(m)
    <3>1. PICK a \in Appt : m \in Reminders(a, booked[a]) BY <2>1 DEF Awaited, Booked
    <3> QED BY <1>2, <3>1, ReminderType
  <2> QED BY <1>2, <2>1, FewAwaited, SoundOrder
<1> HIDE DEF old
<1>5. Len(old) \in Nat /\ DOMAIN old = 1 .. Len(old) BY <1>4, LenProperties DEF Sound
<1>6. Job \subseteq Nat \ {0} BY JobAssumption, FS_CardinalityType
<1>7. appt \in [Appt -> [status : {"NONE", "CONFIRMED", "CANCELLED", "NO_SHOW"},
                         startsAt : Start \cup {0}]]
  BY <1>1
<1>8. ASSUME NEW j \in Job
      PROVE  row[j] \in Row \cup {NoRow} /\ (Exists(j) => Proper(row[j].msg))
  <2>1. CASE j <= Len(old)
    <3>1. row[j] = [msg |-> old[j], status |-> "PENDING"] BY <1>1, <2>1 DEF old
    <3>2. Proper(old[j]) BY <1>4, <1>5, <1>6, <2>1 DEF Sound
    <3> QED BY <3>1, <3>2 DEF Row, Proper, JobStatus
  <2>2. CASE ~(j <= Len(old))
    <3>1. row[j] = NoRow BY <1>1, <2>2 DEF old
    <3> QED BY <3>1 DEF NoRow, Exists
  <2> QED BY <2>1, <2>2
<1>9. row \in [Job -> Row \cup {NoRow}] BY <1>1, <1>8 DEF old
<1>10. Bounded /\ queue \in [Job -> Entry]
  BY <1>1, TriesAssumption DEF Bounded, Entry
<1>11. spare \in 0 .. limits.rows BY <1>1, <1>3, <1>5 DEF old
<1>12. TypeOK
  BY <1>2, <1>3, <1>7, <1>9, <1>10, <1>11, IdleHandler, NoExecutionType, TimeAssumption DEF TypeOK
<1>13. \A r \in Req : Carries(req[r]) BY <1>2, IdleHandler
<1> QED BY <1>8, <1>10, <1>12, <1>13, InitQueue DEF TypeInv

--------------------------------------------------------------------------------
\* Requests: one handler's record becomes h.
HandlerTo(r, h) ==
  /\ req' = [req EXCEPT ![r] = h] /\ Carries(h)

\* A handler's own record.
LEMMA OwnRecord ==
  ASSUME TypeInv, NEW r \in Req
  PROVE  Carries(req[r]) /\ DOMAIN req = Req /\ req[r] \in Handler /\ Sound(req[r].todo)
<1>1. Carries(req[r]) /\ DOMAIN req = Req /\ req[r] \in Handler BY DEF TypeInv, TypeOK
<1> QED BY <1>1 DEF Carries, Sound, Handler

\* A field or two of a handler's record change.
LEMMA HandlerFields ==
  ASSUME TypeInv, NEW r \in Req, NEW l \in HandlerPc, NEW todo, NEW j \in Job \cup {NoJob},
         Sound(todo), l \notin {"write", "void", "read"} \/ req[r].a \in Appt
  PROVE  /\ Carries([req[r] EXCEPT !.pc = l])
         /\ Carries([req[r] EXCEPT !.pc = l, !.todo = todo])
         /\ Carries([req[r] EXCEPT !.pc = l, !.j = j])
         /\ Carries([req[r] EXCEPT !.pc = l, !.j = j, !.todo = todo])
<1>1. Carries(req[r]) /\ DOMAIN req = Req /\ req[r] \in Handler /\ Sound(req[r].todo)
  BY OwnRecord
<1>2. Carries([req[r] EXCEPT !.pc = l]) BY <1>1 DEF Carries, Sound, Handler
<1>3. Carries([req[r] EXCEPT !.pc = l, !.todo = todo]) BY <1>1 DEF Carries, Sound, Handler
<1>4. Carries([req[r] EXCEPT !.pc = l, !.j = j]) BY <1>1 DEF Carries, Sound, Handler
<1>5. Carries([req[r] EXCEPT !.pc = l, !.j = j, !.todo = todo])
  BY <1>1 DEF Carries, Sound, Handler
<1> QED BY <1>2, <1>3, <1>4, <1>5

\* What a handler's step makes of its record.
LEMMA HandlerSteps ==
  ASSUME TypeInv, NEW r \in Req,
         \/ HandlerStep(r) \/ HandlerDies(r) \/ enqueueWaitlistSlotOpen(r)
         \/ \E a \in Appt, s \in Start : Book(r, a, s)
         \/ \E a \in Appt, op \in Operations, s \in Start \cup {0} : Decide(r, a, op, s)
  PROVE  \E h : HandlerTo(r, h)
<1>1. Carries(req[r]) /\ DOMAIN req = Req /\ req[r] \in Handler /\ Sound(req[r].todo)
  BY OwnRecord
<1>2. limits \in Limits BY DEF TypeInv, TypeOK
<1>3. ASSUME NEW l \in HandlerPc, l \notin {"write", "void", "read"} \/ req[r].a \in Appt,
             Goto(r, l)
      PROVE  \E h : HandlerTo(r, h)
  <2>1. Carries([req[r] EXCEPT !.pc = l]) BY <1>1, <1>3, HandlerFields
  <2> QED BY <1>3, <2>1 DEF HandlerTo, Goto
<1>4. Finish(r) => \E h : HandlerTo(r, h) BY IdleHandler DEF Finish, HandlerTo
<1>5. CASE Write(r)
  <2>1. req[r].a \in Appt BY <1>1, <1>5 DEF Write, Carries
  <2>2. CASE req[r].op = "absent" BY <1>4, <1>5, <2>2 DEF Write
  <2>3. CASE req[r].op # "absent"
    <3>1. Goto(r, "void")
      BY <1>5, <2>3 DEF Write, TypeInv, QueueInv, Typed
    <3> QED BY <1>3, <2>1, <3>1 DEF HandlerPc
  <2> QED BY <2>2, <2>3
<1>6. CASE cancelPendingForAppointment(r)
  <2>1. req[r].a \in Appt BY <1>1, <1>6 DEF cancelPendingForAppointment, Carries
  <2> QED BY <1>3, <1>6, <2>1 DEF cancelPendingForAppointment, HandlerPc
<1>7. CASE ReadAppointment(r)
  <2>1. req[r].a \in Appt BY <1>1, <1>7 DEF ReadAppointment, Carries
  <2> DEFINE a == req[r].a
             at == appt[a].startsAt
             todo == IF req[r].op = "cancel"
                     THEN IF "EMAIL" \in limits.contacts THEN <<Mail("BOOKING_CANCELLED", a)>> ELSE <<>>
                     ELSE <<Mail("BOOKING_CONFIRMATION", a)>> \o AllReminders(a, at)
  <2>2. req' = [req EXCEPT ![r].pc = "create", ![r].todo = todo] BY <1>7 DEF ReadAppointment
  <2>3. Sound(todo)
    <3>1. at \in Start \cup {0} BY <2>1 DEF TypeInv, TypeOK
    <3>2. Sound(AllReminders(a, at))
      BY <1>2, <2>1, <3>1, ReminderType, FewReminders, SoundOrder DEF AllReminders
    <3>3. Proper(Mail("BOOKING_CANCELLED", a)) /\ Proper(Mail("BOOKING_CONFIRMATION", a))
      BY <2>1, MailType DEF JobType
    <3>4. Sound(<<>>) BY EmptySeq DEF Sound
    <3>5. Sound(<<Mail("BOOKING_CANCELLED", a)>>) BY <3>3, <3>4, SoundConcat
    <3>6. Sound(<<Mail("BOOKING_CONFIRMATION", a)>> \o AllReminders(a, at))
      BY <3>2, <3>3, SoundConcat
    <3> QED BY <3>4, <3>5, <3>6
  <2> HIDE DEF todo
  <2>4. Carries([req[r] EXCEPT !.pc = "create", !.todo = todo])
    BY <2>3, HandlerFields DEF HandlerPc
  <2> QED BY <2>2, <2>4 DEF HandlerTo
<1>8. CASE Skip(r)
  <2>1. CASE Finish(r) BY <1>4, <2>1
  <2>2. CASE ~Finish(r)
    <3>1. req[r].todo # <<>> /\ req' = [req EXCEPT ![r].todo = Tail(@)] /\ req[r].pc = "create"
      BY <1>8, <2>2 DEF Skip
    <3>2. Sound(Tail(req[r].todo)) BY <1>1, <3>1, SoundTail
    <3>3. Carries([req[r] EXCEPT !.todo = Tail(@)]) BY <1>1, <3>1, <3>2 DEF Carries, Sound, Handler
    <3> QED BY <3>1, <3>3 DEF HandlerTo
  <2> QED BY <2>1, <2>2
<1>9. CASE CreateRow(r)
  <2>1. PICK j \in Job : req' = [req EXCEPT ![r].pc = "add", ![r].j = j, ![r].todo = Tail(@)]
    BY <1>9 DEF CreateRow
  <2>2. req[r].todo # <<>> BY <1>9 DEF CreateRow
  <2>3. Sound(Tail(req[r].todo)) BY <1>1, <2>2, SoundTail
  <2>4. Carries([req[r] EXCEPT !.pc = "add", !.j = j, !.todo = Tail(req[r].todo)])
    BY <2>3, HandlerFields DEF HandlerPc
  <2> QED BY <2>1, <2>4 DEF HandlerTo
<1>10. CASE Enqueue(r)
  <2>1. req' = [req EXCEPT ![r].pc = "create", ![r].j = NoJob] BY <1>10 DEF Enqueue
  <2>2. Carries([req[r] EXCEPT !.pc = "create", !.j = NoJob])
    BY <1>1, HandlerFields DEF HandlerPc
  <2> QED BY <2>1, <2>2 DEF HandlerTo
<1>11. CASE HandlerDies(r) BY <1>4, <1>11 DEF HandlerDies
<1>12. CASE enqueueWaitlistSlotOpen(r)
  <2> DEFINE S == {[Mail("WAITLIST_SLOT_OPEN", NoAppt) EXCEPT !.channel = c] : c \in limits.contacts}
             todo == SetToSeq(S)
             h == [NoHandler EXCEPT !.pc = "create", !.todo = todo]
  <2>1. limits.contacts \subseteq Channels BY <1>2, LimitsAssumption
  <2>2. IsFiniteSet(S)
    <3> DEFINE f == [c \in limits.contacts |-> [Mail("WAITLIST_SLOT_OPEN", NoAppt) EXCEPT !.channel = c]]
    <3>1. f \in Surjection(limits.contacts, S) BY DEF Surjection
    <3>2. IsFiniteSet(limits.contacts) BY <1>2, FewContacts
    <3> HIDE DEF f
    <3> QED BY <3>1, <3>2, FS_Surjection
  <2>3. \A m \in S : Proper(m)
    BY <2>1 DEF Mail, Proper, Message, JobType
  <2> HIDE DEF S
  <2>4. Sound(todo) BY <2>2, <2>3, SoundOrder
  <2>5. req' = [req EXCEPT ![r] = h] BY <1>12 DEF enqueueWaitlistSlotOpen, Serve, S
  <2> HIDE DEF todo
  <2>6. Carries(h) BY <2>4 DEF Carries, Sound, NoHandler, Handler, HandlerPc, Operations
  <2> QED BY <2>5, <2>6 DEF HandlerTo
<1>13. ASSUME NEW a \in Appt, NEW s \in Start, Book(r, a, s) PROVE \E h : HandlerTo(r, h)
  <2> DEFINE h == [NoHandler EXCEPT !.pc = "read", !.op = "book", !.a = a]
  <2>1. req' = [req EXCEPT ![r] = h] BY <1>13 DEF Book, Serve
  <2>2. Carries(h) BY IdleHandler DEF Carries, NoHandler, Handler, HandlerPc, Operations
  <2> QED BY <2>1, <2>2 DEF HandlerTo
<1>14. ASSUME NEW a \in Appt, NEW op \in Operations, NEW s \in Start \cup {0}, Decide(r, a, op, s)
       PROVE  \E h : HandlerTo(r, h)
  <2> DEFINE h == [NoHandler EXCEPT !.pc = "write", !.op = op, !.a = a, !.at = s]
  <2>1. req' = [req EXCEPT ![r] = h] BY <1>14 DEF Decide, Serve
  <2>2. Carries(h) BY IdleHandler DEF Carries, NoHandler, Handler, HandlerPc
  <2> QED BY <2>1, <2>2 DEF HandlerTo
<1> QED BY <1>5, <1>6, <1>7, <1>8, <1>9, <1>10, <1>11, <1>12, <1>13, <1>14 DEF HandlerStep

\* What a handler's step makes of the other variables.
LEMMA HandlerTypes ==
  ASSUME TypeInv, NEW r \in Req,
         \/ HandlerStep(r) \/ HandlerDies(r) \/ enqueueWaitlistSlotOpen(r)
         \/ \E a \in Appt, s \in Start : Book(r, a, s)
         \/ \E a \in Appt, op \in Operations, s \in Start \cup {0} : Decide(r, a, op, s)
  PROVE  /\ appt' \in [Appt -> [status : {"NONE", "CONFIRMED", "CANCELLED", "NO_SHOW"},
                                startsAt : Start \cup {0}]]
         /\ current' \in [Worker -> BOOLEAN]
         /\ dropped' \subseteq Appt \cup {NoAppt}
         /\ spare' \in 0 .. limits.rows
         /\ faults' \in 0 .. limits.faults
         /\ UNCHANGED <<wk, clock, limits, copies>>
<1>1. Carries(req[r]) /\ req[r] \in Handler BY OwnRecord
<1>2. /\ appt \in [Appt -> [status : {"NONE", "CONFIRMED", "CANCELLED", "NO_SHOW"},
                            startsAt : Start \cup {0}]]
      /\ current \in [Worker -> BOOLEAN] /\ dropped \subseteq Appt \cup {NoAppt}
      /\ spare \in 0 .. limits.rows /\ faults \in 0 .. limits.faults /\ limits \in Limits
  BY DEF TypeInv, TypeOK
<1>3. limits.rows \in Nat /\ limits.faults \in 0 .. 3
  BY <1>2, LimitsAssumption, JobAssumption, FS_CardinalityType
<1>4. ASSUME NEW a \in Appt,
             NEW rec \in [status : {"NONE", "CONFIRMED", "CANCELLED", "NO_SHOW"}, startsAt : Start \cup {0}],
             SetAppt(a, rec)
      PROVE  /\ appt' \in [Appt -> [status : {"NONE", "CONFIRMED", "CANCELLED", "NO_SHOW"},
                                    startsAt : Start \cup {0}]]
             /\ current' \in [Worker -> BOOLEAN]
  <2>1. appt' = [appt EXCEPT ![a] = rec] BY <1>4 DEF SetAppt
  <2>2. current' = [w \in Worker |-> current[w] \/ Right(w, a, rec)] BY <1>4 DEF SetAppt
  <2>3. \A w \in Worker : (current[w] \/ Right(w, a, rec)) \in BOOLEAN OBVIOUS
  <2> QED BY <1>2, <2>1, <2>2, <2>3
<1>5. Fault => faults' \in 0 .. limits.faults BY <1>2, <1>3 DEF Fault
<1>6. \A op \in Operations : Rows(op) \in Nat
  <2>1. Cardinality(Leads) \in Nat BY FS_CardinalityType, TimeAssumption
  <2>2. IsFiniteSet(limits.contacts) BY <1>2, FewContacts
  <2>3. Cardinality(limits.contacts) \in Nat BY <2>2, FS_CardinalityType
  <2>4. Cardinality(limits.contacts \cap {"EMAIL"}) \in Nat
    BY <2>2, FS_Intersection, FS_CardinalityType
  <2>5. Cardinality(Leads) * Cardinality(limits.contacts) \in Nat BY <2>1, <2>3
  <2> QED BY <2>3, <2>4, <2>5 DEF Rows, Operations
<1>7. ASSUME NEW h, h.op \in Operations, Serve(r, h) PROVE spare' \in 0 .. limits.rows
  BY <1>2, <1>3, <1>6, <1>7 DEF Serve
<1>8. CASE Write(r)
  <2>1. req[r].a \in Appt /\ req[r].at \in Start \cup {0} BY <1>1, <1>8 DEF Write, Carries, Handler
  <2>2. \E rec \in [status : {"NONE", "CONFIRMED", "CANCELLED", "NO_SHOW"}, startsAt : Start \cup {0}] :
          SetAppt(req[r].a, rec)
    <3>1. CASE req[r].op = "move" BY <1>8, <2>1, <3>1 DEF Write
    <3>2. CASE req[r].op = "cancel"
      <4>1. [appt[req[r].a] EXCEPT !.status = "CANCELLED"]
              \in [status : {"NONE", "CONFIRMED", "CANCELLED", "NO_SHOW"}, startsAt : Start \cup {0}]
        BY <1>2, <2>1
      <4> QED BY <1>8, <3>2, <4>1 DEF Write
    <3>3. CASE req[r].op = "absent"
      <4>1. [appt[req[r].a] EXCEPT !.status = "NO_SHOW"]
              \in [status : {"NONE", "CONFIRMED", "CANCELLED", "NO_SHOW"}, startsAt : Start \cup {0}]
        BY <1>2, <2>1
      <4> QED BY <1>8, <3>3, <4>1 DEF Write
    <3> QED BY <1>8, <3>1, <3>2, <3>3 DEF Write, TypeInv, QueueInv, Typed
  <2> QED BY <1>2, <1>4, <1>8, <2>1, <2>2 DEF Write, serviceVars
<1>9. CASE \/ cancelPendingForAppointment(r) \/ ReadAppointment(r) \/ Skip(r) \/ CreateRow(r)
           \/ Enqueue(r)
  BY <1>2, <1>5, <1>9 DEF cancelPendingForAppointment, ReadAppointment, Skip, CreateRow, Enqueue,
     serviceVars
<1>10. CASE HandlerDies(r)
  <2>1. req[r].a \in Appt \cup {NoAppt} BY <1>1 DEF Handler
  <2> QED BY <1>2, <1>5, <1>10, <2>1 DEF HandlerDies, serviceVars
<1>11. CASE enqueueWaitlistSlotOpen(r)
  <2> DEFINE todo == SetToSeq({[Mail("WAITLIST_SLOT_OPEN", NoAppt) EXCEPT !.channel = c]
                                 : c \in limits.contacts})
             h == [NoHandler EXCEPT !.pc = "create", !.todo = todo]
  <2>1. Serve(r, h) BY <1>11 DEF enqueueWaitlistSlotOpen
  <2> HIDE DEF todo
  <2>2. h.op \in Operations BY DEF NoHandler, Operations
  <2> HIDE DEF h
  <2>3. spare' \in 0 .. limits.rows BY <1>7, <2>1, <2>2
  <2> QED BY <1>2, <1>11, <2>3 DEF enqueueWaitlistSlotOpen, serviceVars
<1>12. ASSUME NEW a \in Appt, NEW s \in Start, Book(r, a, s)
       PROVE  /\ appt' \in [Appt -> [status : {"NONE", "CONFIRMED", "CANCELLED", "NO_SHOW"},
                                     startsAt : Start \cup {0}]]
              /\ current' \in [Worker -> BOOLEAN] /\ spare' \in 0 .. limits.rows
              /\ UNCHANGED <<wk, clock, limits, copies, faults, dropped>>
  <2> DEFINE h == [NoHandler EXCEPT !.pc = "read", !.op = "book", !.a = a]
  <2>1. Serve(r, h) /\ SetAppt(a, [status |-> "CONFIRMED", startsAt |-> s]) BY <1>12 DEF Book
  <2>2. h.op \in Operations BY DEF NoHandler, Operations
  <2> HIDE DEF h
  <2>3. spare' \in 0 .. limits.rows BY <1>7, <2>1, <2>2
  <2> QED BY <1>4, <1>12, <2>1, <2>3 DEF Book, serviceVars
<1>13. ASSUME NEW a \in Appt, NEW op \in Operations, NEW s \in Start \cup {0}, Decide(r, a, op, s)
       PROVE  /\ spare' \in 0 .. limits.rows /\ dropped' \subseteq Appt \cup {NoAppt}
              /\ UNCHANGED <<appt, wk, clock, limits, copies, faults, current>>
  <2> DEFINE h == [NoHandler EXCEPT !.pc = "write", !.op = op, !.a = a, !.at = s]
  <2>1. Serve(r, h) BY <1>13 DEF Decide
  <2>2. h.op \in Operations BY DEF NoHandler
  <2> HIDE DEF h
  <2>3. spare' \in 0 .. limits.rows BY <1>7, <2>1, <2>2
  <2> QED BY <1>2, <1>13, <2>3 DEF Decide, serviceVars
<1> QED BY <1>2, <1>8, <1>9, <1>10, <1>11, <1>12, <1>13 DEF HandlerStep

\* What a handler's step makes of the rows and the queue.
LEMMA HandlerRows ==
  ASSUME TypeInv, NEW r \in Req,
         \/ HandlerStep(r) \/ HandlerDies(r) \/ enqueueWaitlistSlotOpen(r)
         \/ \E a \in Appt, s \in Start : Book(r, a, s)
         \/ \E a \in Appt, op \in Operations, s \in Start \cup {0} : Decide(r, a, op, s)
  PROVE  /\ row' \in [Job -> Row \cup {NoRow}]
         /\ \A j \in Job : Exists(j)' => Proper(row'[j].msg)
         /\ \A j \in Job : Exists(j) => Exists(j)' /\ row'[j].msg = row[j].msg
         /\ Bounded'
<1>1. row \in [Job -> Row \cup {NoRow}] /\ Bounded /\ \A j \in Job : Exists(j) => Proper(row[j].msg)
  BY DEF TypeInv, TypeOK
<1>2. \A j \in Job : Exists(j) => row[j] \in Row BY <1>1 DEF Exists, NoRow
<1>3. CASE cancelPendingForAppointment(r)
  <2>1. ASSUME NEW j \in Job
        PROVE  /\ row'[j] \in Row \cup {NoRow} /\ (Exists(j)' => Proper(row'[j].msg))
               /\ Exists(j) => Exists(j)' /\ row'[j].msg = row[j].msg
    <3>1. row'[j] = row[j] \/ (Exists(j) /\ row'[j] = [row[j] EXCEPT !.status = "FAILED"])
      BY <1>3 DEF cancelPendingForAppointment
    <3>2. CASE row'[j] = row[j] BY <1>1, <3>2 DEF Exists
    <3>3. CASE Exists(j) /\ row'[j] = [row[j] EXCEPT !.status = "FAILED"]
      BY <1>1, <1>2, <3>3 DEF Exists, Row, JobStatus
    <3> QED BY <3>1, <3>2, <3>3
  <2>2. DOMAIN row' = Job /\ row' = [j \in Job |-> row'[j]] BY <1>3 DEF cancelPendingForAppointment
  <2>3. row' \in [Job -> Row \cup {NoRow}] BY <2>1, <2>2
  <2>4. UNCHANGED queue BY <1>3 DEF cancelPendingForAppointment
  <2> QED BY <1>1, <2>1, <2>3, <2>4 DEF Bounded
<1>4. CASE CreateRow(r)
  <2>1. PICK j \in Job :
          ~Exists(j) /\ row' = [row EXCEPT ![j] = [msg |-> Head(req[r].todo), status |-> "PENDING"]]
    BY <1>4 DEF CreateRow
  <2>2. Proper(Head(req[r].todo))
    <3>1. Sound(req[r].todo) /\ req[r].todo # <<>> BY <1>4, OwnRecord DEF CreateRow
    <3> QED BY <3>1, SoundTail
  <2>3. [msg |-> Head(req[r].todo), status |-> "PENDING"] \in Row BY <2>2 DEF Row, Proper, JobStatus
  <2>4. row' \in [Job -> Row \cup {NoRow}] BY <1>1, <2>1, <2>3
  <2>5. \A i \in Job : IF i = j THEN row'[i] = [msg |-> Head(req[r].todo), status |-> "PENDING"]
                                 ELSE row'[i] = row[i]
    BY <1>1, <2>1
  <2>6. UNCHANGED queue BY <1>4 DEF CreateRow
  <2> QED BY <1>1, <2>1, <2>2, <2>4, <2>5, <2>6 DEF Exists, Bounded
<1>5. CASE Enqueue(r)
  <2>1. UNCHANGED row BY <1>5 DEF Enqueue
  <2>2. Bounded'
    <3>1. CASE UNCHANGED queue BY <1>1, <3>1 DEF Bounded
    <3>2. CASE queue' = [queue EXCEPT ![req[r].j].state = "waiting"]
      <4> DEFINE j == req[r].j
      <4>1. j \in Job /\ queue[j].state = "absent" /\ DOMAIN queue = Job
        BY <1>5 DEF Enqueue, TypeInv, QueueInv, Adding, TypeOK
      <4> DEFINE q == [queue[j] EXCEPT !.state = "waiting"]
      <4>2. queue' = [queue EXCEPT ![j] = q] BY <3>2
      <4> HIDE DEF j
      <4>3. q \in Entry /\ q.tries < MaxTries /\ q.stalls <= 1 BY <1>1, <4>1 DEF Bounded, Entry
      <4> HIDE DEF q
      <4> QED BY <1>1, <4>1, <4>2, <4>3 DEF Bounded
    <3> QED BY <1>5, <3>1, <3>2 DEF Enqueue
  <2> QED BY <1>1, <2>1, <2>2 DEF Exists
<1>6. CASE ~(cancelPendingForAppointment(r) \/ CreateRow(r) \/ Enqueue(r))
  <2>1. UNCHANGED <<row, queue>>
    BY <1>6 DEF HandlerStep, Write, ReadAppointment, Skip, HandlerDies, enqueueWaitlistSlotOpen,
       Book, Decide, serviceVars
  <2> QED BY <1>1, <2>1 DEF Exists, Bounded
<1> QED BY <1>3, <1>4, <1>5, <1>6

\* The owner of an entry has an active one.
LEMMA OwnerActive ==
  ASSUME TypeInv, NEW w \in Worker, wk[w].pc # "idle", NEW j, wk[w].j = j
  PROVE  /\ j \in Job /\ DOMAIN queue = Job /\ queue[j] \in Entry
         /\ wk[w].owner => queue[j].tries < MaxTries /\ queue[j].stalls <= 1
<1>1. QueueInv /\ Bounded /\ TypeOK BY DEF TypeInv
<1>2. j \in Job /\ On(w, j) /\ JobInv(j) BY <1>1, AtWork
<1>3. wk[w].owner => queue[j].state = "active" BY <1>2 DEF JobInv
<1> QED BY <1>1, <1>2, <1>3 DEF Bounded, TypeOK

\* One entry of the queue changes.
LEMMA QueueStep ==
  ASSUME TypeInv, NEW j \in Job, NEW q \in Entry, queue' = [queue EXCEPT ![j] = q],
         q.state \in {"absent", "waiting", "active"} => q.tries < MaxTries /\ q.stalls <= 1
  PROVE  Bounded'
<1>1. Bounded /\ DOMAIN queue = Job BY DEF TypeInv, TypeOK
<1> QED BY <1>1 DEF Bounded

\* The worker's entry, however it lets it go, stays within its tries and stalls.
LEMMA LetGoBounded ==
  ASSUME TypeInv, NEW w \in Worker, wk[w].pc # "idle",
         Return(w) \/ Throw(w) \/ \E dead \in BOOLEAN : Stall(w, dead)
  PROVE  Bounded'
<1> DEFINE j == wk[w].j
<1>1. /\ j \in Job /\ DOMAIN queue = Job /\ queue[j] \in Entry
      /\ wk[w].owner => queue[j].tries < MaxTries /\ queue[j].stalls <= 1
  BY OwnerActive
<1>2. CASE UNCHANGED queue BY <1>2 DEF TypeInv, Bounded
<1>3. CASE Return(w) /\ wk[w].owner
  <2> DEFINE q == [queue[j] EXCEPT !.state = "completed"]
  <2>1. queue' = [queue EXCEPT ![j] = q] BY <1>3 DEF Return
  <2> HIDE DEF j
  <2>2. q \in Entry /\ q.state = "completed" BY <1>1 DEF Entry
  <2> HIDE DEF q
  <2> QED BY <1>1, <2>1, <2>2, QueueStep
<1>4. CASE Throw(w) /\ wk[w].owner
  <2> DEFINE tries == queue[j].tries + 1
             state == IF tries < MaxTries THEN "waiting" ELSE "failed"
             q == [queue[j] EXCEPT !.tries = tries, !.state = state]
  <2>1. queue' = [queue EXCEPT ![j] = q] BY <1>4 DEF Throw
  <2>2. tries \in 0 .. MaxTries /\ (state = "waiting" => tries < MaxTries)
        /\ state \in {"waiting", "failed"}
    BY <1>1, <1>4, TriesAssumption DEF Entry
  <2> HIDE DEF j, tries, state
  <2>3. q \in Entry /\ q.state = state /\ q.tries = tries /\ q.stalls = queue[j].stalls
    BY <1>1, <2>2 DEF Entry
  <2> HIDE DEF q
  <2> QED BY <1>1, <1>4, <2>1, <2>2, <2>3, QueueStep
<1>5. ASSUME NEW dead \in BOOLEAN, Stall(w, dead) PROVE Bounded'
  <2> DEFINE state == IF queue[j].stalls = 0 THEN "waiting" ELSE "failed"
             stalls == queue[j].stalls + 1
             q == [queue[j] EXCEPT !.stalls = stalls, !.state = state]
  <2>1. queue' = [queue EXCEPT ![j] = q] /\ wk[w].owner BY <1>5 DEF Stall
  <2>2. stalls \in 0 .. 2 /\ (state = "waiting" => stalls = 1) /\ state \in {"waiting", "failed"}
    BY <1>1, <2>1 DEF Entry
  <2> HIDE DEF j, stalls, state
  <2>3. q \in Entry /\ q.state = state /\ q.stalls = stalls /\ q.tries = queue[j].tries
    BY <1>1, <2>2 DEF Entry
  <2> HIDE DEF q
  <2>4. q.state \in {"absent", "waiting", "active"} => q.tries < MaxTries /\ q.stalls <= 1
    BY <1>1, <2>1, <2>2, <2>3
  <2>5. j \in Job /\ q \in Entry /\ queue' = [queue EXCEPT ![j] = q] BY <1>1, <2>1, <2>3
  <2> QED BY <2>4, <2>5, QueueStep
<1> QED BY <1>2, <1>3, <1>4, <1>5 DEF Return, Throw

\* What a worker's step makes of the rows: a status of its own.
RowsKept ==
  /\ row' \in [Job -> Row \cup {NoRow}]
  /\ \A j \in Job : (Exists(j)' <=> Exists(j)) /\ row'[j].msg = row[j].msg

\* A worker writes statuses only.
LEMMA StatusKept ==
  ASSUME TypeInv, NEW w \in Worker, wk[w].pc # "idle", NEW s \in JobStatus, SetStatus(w, s)
  PROVE  RowsKept
<1>1. wk[w].j \in Job /\ Exists(wk[w].j) BY AtWork DEF TypeInv
<1>2. row \in [Job -> Row \cup {NoRow}] BY DEF TypeInv, TypeOK
<1>3. row[wk[w].j] \in Row BY <1>1, <1>2 DEF Exists, NoRow
<1> DEFINE x == [row[wk[w].j] EXCEPT !.status = s]
<1>4. row' = [row EXCEPT ![wk[w].j] = x] BY DEF SetStatus
<1>5. x \in Row /\ x.msg = row[wk[w].j].msg /\ x.status # "NONE" BY <1>3 DEF Row, JobStatus
<1> HIDE DEF x
<1> QED BY <1>1, <1>2, <1>4, <1>5 DEF RowsKept, Exists

\* What a worker's step makes of everything but its own record.
LEMMA WorkerTypes ==
  ASSUME TypeInv, NEW w \in Worker,
         WorkerStep(w) \/ StatementFails(w) \/ StatementCaught(w)
         \/ WorkerDies(w) \/ LockLost(w) \/ StalledDies(w)
  PROVE  /\ RowsKept /\ Bounded'
         /\ current' \in [Worker -> BOOLEAN] /\ faults' \in 0 .. limits.faults
         /\ UNCHANGED quiet
<1> USE DEF At
<1>1. current \in [Worker -> BOOLEAN] /\ faults \in 0 .. limits.faults /\ limits.faults \in 0 .. 3
  BY LimitsAssumption DEF TypeInv, TypeOK
<1>2. Fault => faults' \in 0 .. limits.faults BY <1>1 DEF Fault
<1>3. UNCHANGED row => RowsKept BY DEF RowsKept, TypeInv, TypeOK, Exists
<1>4. UNCHANGED queue => Bounded' BY DEF TypeInv, Bounded
<1>5. wk[w].pc # "idle" /\ (Return(w) \/ Throw(w)) => Bounded' /\ current' \in [Worker -> BOOLEAN]
  BY <1>1, LetGoBounded DEF Return, Throw
<1>6. \A s \in JobStatus : wk[w].pc # "idle" /\ SetStatus(w, s) => RowsKept BY StatusKept
<1>7. ASSUME NEW j \in Job, Take(w, j) PROVE Bounded' /\ UNCHANGED <<quiet, row, faults, current>>
  <2> DEFINE q == [queue[j] EXCEPT !.state = "active"]
  <2>1. queue' = [queue EXCEPT ![j] = q] /\ queue[j].state = "waiting" BY <1>7 DEF Take
  <2>2. q \in Entry /\ q.tries = queue[j].tries /\ q.stalls = queue[j].stalls
        /\ queue[j].tries < MaxTries /\ queue[j].stalls <= 1
    BY <2>1 DEF TypeInv, Bounded, Entry
  <2> HIDE DEF q
  <2>3. Bounded' BY <2>1, <2>2, QueueStep
  <2> QED BY <1>7, <2>3 DEF Take
<1>8. CASE \E j \in Job : Take(w, j) BY <1>1, <1>3, <1>7, <1>8
<1>9. CASE ReadRow(w) BY <1>1, <1>3, <1>4, <1>5, <1>9 DEF ReadRow
<1>10. CASE PreCheck(w) BY <1>1, <1>3, <1>4, <1>10 DEF PreCheck
<1>11. CASE Claim(w)
  <2> DEFINE b == IsReminder(wk[w].j) /\ isBookingReminderStillValid(row[wk[w].j].msg)
  <2>1. current' = [current EXCEPT ![w] = b] BY <1>11 DEF Claim
  <2>2. b \in BOOLEAN OBVIOUS
  <2> HIDE DEF b
  <2>3. current' \in [Worker -> BOOLEAN] BY <1>1, <2>1, <2>2
  <2> QED BY <1>1, <1>4, <1>6, <1>11, <2>3 DEF Claim, JobStatus
<1>12. CASE ReadLatest(w) BY <1>1, <1>3, <1>4, <1>5, <1>12 DEF ReadLatest
<1>13. CASE ReCheck(w) BY <1>1, <1>3, <1>4, <1>13 DEF ReCheck
<1>14. CASE InvalidateRow(w) BY <1>1, <1>5, <1>6, <1>14 DEF InvalidateRow, JobStatus
<1>15. CASE sendEmail(w) \/ sendText(w)
  BY <1>1, <1>2, <1>3, <1>4, <1>15 DEF sendEmail, sendText, Sent, OnlyLogged, NotSent
<1>16. CASE Complete(w) BY <1>1, <1>2, <1>3, <1>4, <1>5, <1>6, <1>16 DEF Complete, JobStatus
<1>17. CASE FailRow(w) BY <1>1, <1>5, <1>6, <1>17 DEF FailRow, JobStatus
<1>18. CASE StatementFails(w) BY <1>2, <1>3, <1>5, <1>18 DEF StatementFails
<1>19. CASE StatementCaught(w) BY <1>1, <1>2, <1>3, <1>4, <1>19 DEF StatementCaught
<1>20. ASSUME NEW dead \in BOOLEAN, Stall(w, dead)
       PROVE  /\ RowsKept /\ Bounded' /\ UNCHANGED quiet
              /\ current' \in [Worker -> BOOLEAN] /\ faults' \in 0 .. limits.faults
  <2>1. Bounded' BY <1>20, LetGoBounded DEF Stall
  <2>2. current' \in [Worker -> BOOLEAN] BY <1>1, <1>20 DEF Stall
  <2> QED BY <1>2, <1>3, <1>20, <2>1, <2>2 DEF Stall
<1>21. CASE WorkerDies(w) \/ LockLost(w) BY <1>20, <1>21 DEF WorkerDies, LockLost
<1>22. CASE StalledDies(w) BY <1>1, <1>2, <1>3, <1>4, <1>22 DEF StalledDies
<1> QED BY <1>8, <1>9, <1>10, <1>11, <1>12, <1>13, <1>14, <1>15, <1>16, <1>17, <1>18, <1>19,
           <1>21, <1>22 DEF WorkerStep

\* Every step keeps the types.
LEMMA TypesStep ==
  ASSUME TypeInv, [Next]_vars
  PROVE  TypeInv'
<1>1. QueueInv' BY NextStep DEF TypeInv
<1>2. wk' \in [Worker -> Execution] /\ copies' \in [Job -> Nat] BY <1>1 DEF QueueInv, Typed
<1>3. ASSUME NEW r \in Req,
             \/ HandlerStep(r) \/ HandlerDies(r) \/ enqueueWaitlistSlotOpen(r)
             \/ \E a \in Appt, s \in Start : Book(r, a, s)
             \/ \E a \in Appt, op \in Operations, s \in Start \cup {0} : Decide(r, a, op, s)
      PROVE  TypeInv'
  <2>1. PICK h : HandlerTo(r, h) BY <1>3, HandlerSteps
  <2>2. \A q \in Req : Carries(req'[q])
    <3> TAKE q \in Req
    <3>1. CASE q = r BY <2>1, <3>1, OwnRecord DEF HandlerTo
    <3>2. CASE q # r
      <4>1. req'[q] = req[q] BY <2>1, <3>2, OwnRecord DEF HandlerTo
      <4> QED BY <4>1, OwnRecord
    <3> QED BY <3>1, <3>2
  <2>3. req' \in [Req -> Handler]
    <3>1. h \in Handler /\ req \in [Req -> Handler] BY <2>1 DEF HandlerTo, Carries, TypeInv, TypeOK
    <3> QED BY <2>1, <3>1 DEF HandlerTo
  <2>4. /\ appt' \in [Appt -> [status : {"NONE", "CONFIRMED", "CANCELLED", "NO_SHOW"},
                               startsAt : Start \cup {0}]]
        /\ current' \in [Worker -> BOOLEAN] /\ dropped' \subseteq Appt \cup {NoAppt}
        /\ spare' \in 0 .. limits.rows /\ faults' \in 0 .. limits.faults
        /\ UNCHANGED <<wk, clock, limits, copies>>
    BY <1>3, HandlerTypes
  <2>5. /\ row' \in [Job -> Row \cup {NoRow}]
        /\ \A j \in Job : Exists(j)' => Proper(row'[j].msg)
        /\ Bounded'
    BY <1>3, HandlerRows
  <2>6. queue' \in [Job -> Entry] BY <1>1, <2>5 DEF Bounded, QueueInv, Typed
  <2>7. clock \in 0 .. MaxClock /\ limits \in Limits BY DEF TypeInv, TypeOK
  <2>8. TypeOK' BY <1>2, <2>3, <2>4, <2>5, <2>6, <2>7 DEF TypeOK
  <2> QED BY <1>1, <2>2, <2>5, <2>8 DEF TypeInv
<1>4. ASSUME NEW w \in Worker,
             \/ WorkerStep(w) \/ StatementFails(w) \/ StatementCaught(w)
             \/ WorkerDies(w) \/ LockLost(w) \/ StalledDies(w)
      PROVE  TypeInv'
  <2>1. /\ RowsKept /\ Bounded' /\ UNCHANGED quiet
        /\ current' \in [Worker -> BOOLEAN] /\ faults' \in 0 .. limits.faults
    BY <1>4, WorkerTypes
  <2>2. queue' \in [Job -> Entry] BY <1>1, <2>1 DEF Bounded, QueueInv, Typed
  <2>3. TypeOK' BY <1>2, <2>1, <2>2 DEF TypeOK, TypeInv, RowsKept, quiet
  <2>4. \A j \in Job : Exists(j)' => Proper(row'[j].msg) BY <2>1 DEF RowsKept, TypeInv
  <2> QED BY <1>1, <2>1, <2>3, <2>4 DEF TypeInv, quiet
<1>5. CASE Tick
  <2>1. clock' \in 0 .. MaxClock BY <1>5, TimeAssumption DEF Tick, TypeInv, TypeOK
  <2> QED BY <1>1, <1>5, <2>1 DEF Tick, TypeInv, TypeOK, Bounded, Exists
<1>6. CASE UNCHANGED vars BY <1>1, <1>6 DEF vars, TypeInv, TypeOK, Bounded, Exists
<1> QED BY <1>3, <1>4, <1>5, <1>6 DEF Next

\* Rows, queue entries, handlers, workers and their messages have their types.
THEOREM NotificationTypes == Spec => []TypeOK
<1>1. TypeInv => TypeOK BY DEF TypeInv
<1> QED BY <1>1, TypesInit, TypesStep, PTL DEF Spec

--------------------------------------------------------------------------------
(* Reminders that go out were right after their claim.                     *)

\* The worker has claimed a reminder: if it is right now, it was right since; and
\* what is about to be sent was found right.
Stands(w) ==
  wk[w].pc \in Claimed /\ IsReminder(wk[w].j) =>
    /\ isBookingReminderStillValid(row[wk[w].j].msg) => current[w]
    /\ wk[w].pc = "send" => current[w]

\* A change of an appointment is noted by the workers that wait for it.
LEMMA ChangeNoted ==
  ASSUME TypeInv, NEW w \in Worker, Stands(w), UNCHANGED wk,
         \A j \in Job : Exists(j) => row'[j].msg = row[j].msg,
         \/ UNCHANGED <<appt, current>>
         \/ \E a \in Appt : \E rec : SetAppt(a, rec)
  PROVE  Stands(w)'
<1> SUFFICES ASSUME wk[w].pc \in Claimed, NEW j, wk[w].j = j, (row[j].msg.type = "BOOKING_REMINDER")'
             PROVE  /\ Matches(row'[j].msg, appt'[row'[j].msg.appt]) => current'[w]
                    /\ wk[w].pc = "send" => current'[w]
  BY DEF Stands, IsReminder, isBookingReminderStillValid
<1>1. j \in Job /\ Exists(j) BY AtWork DEF TypeInv, Claimed
<1> DEFINE m == row[j].msg
<1>2. row'[j].msg = m /\ m.type = "BOOKING_REMINDER" /\ m.appt \in Appt
  BY <1>1 DEF TypeInv, Proper
<1>3. /\ Matches(m, appt[m.appt]) => current[w]
      /\ wk[w].pc = "send" => current[w]
  BY <1>2 DEF Stands, IsReminder, isBookingReminderStillValid
<1>4. CASE UNCHANGED <<appt, current>> BY <1>2, <1>3, <1>4
<1>5. ASSUME NEW a \in Appt, NEW rec, SetAppt(a, rec)
      PROVE  /\ Matches(m, appt'[m.appt]) => current'[w]
             /\ wk[w].pc = "send" => current'[w]
  <2>1. appt' = [appt EXCEPT ![a] = rec] /\ DOMAIN appt = Appt BY <1>5 DEF SetAppt, TypeInv, TypeOK
  <2>2. current'[w] = (current[w] \/ Right(w, a, rec)) BY <1>5 DEF SetAppt
  <2>3. CASE m.appt = a
    <3>1. appt'[m.appt] = rec BY <2>1, <2>3
    <3>2. Matches(m, rec) => Right(w, a, rec) BY <1>2, <2>3 DEF Right, IsReminder
    <3> QED BY <1>3, <2>2, <3>1, <3>2
  <2>4. CASE m.appt # a
    <3>1. appt'[m.appt] = appt[m.appt] BY <1>2, <2>1, <2>4
    <3> QED BY <1>3, <2>2, <3>1
  <2> QED BY <2>3, <2>4
<1> HIDE DEF m
<1> QED BY <1>2, <1>4, <1>5

\* A handler changes an appointment with a note, or not at all.
LEMMA HandlerNotes ==
  ASSUME TypeInv, NEW r \in Req,
         \/ HandlerStep(r) \/ HandlerDies(r) \/ enqueueWaitlistSlotOpen(r)
         \/ \E a \in Appt, s \in Start : Book(r, a, s)
         \/ \E a \in Appt, op \in Operations, s \in Start \cup {0} : Decide(r, a, op, s)
  PROVE  \/ UNCHANGED <<appt, current>>
         \/ \E a \in Appt : \E rec : SetAppt(a, rec)
<1>1. CASE Write(r)
  <2>1. req[r].a \in Appt BY <1>1, OwnRecord DEF Write, Carries
  <2>2. \E rec : SetAppt(req[r].a, rec) BY <1>1, Zenon DEF Write, TypeInv, QueueInv, Typed
  <2> QED BY <2>1, <2>2
<1>2. ASSUME NEW a \in Appt, NEW s \in Start, Book(r, a, s) PROVE \E rec : SetAppt(a, rec)
  BY <1>2, Zenon DEF Book
<1>3. CASE ~(Write(r) \/ \E a \in Appt, s \in Start : Book(r, a, s))
  BY <1>3 DEF HandlerStep, cancelPendingForAppointment, ReadAppointment, Skip, CreateRow, Enqueue,
     HandlerDies, enqueueWaitlistSlotOpen, Decide
<1> QED BY <1>1, <1>2, <1>3

\* The worker's own step: it lets go of its entry, claims it, goes on with what it
\* knows, or has found a reminder right.
LEMMA WorkerNotes ==
  ASSUME TypeInv, NEW w \in Worker,
         WorkerStep(w) \/ StatementFails(w) \/ StatementCaught(w)
         \/ WorkerDies(w) \/ LockLost(w) \/ StalledDies(w)
  PROVE  /\ \A v \in Worker : v # w => wk'[v] = wk[v] /\ current'[v] = current[v]
         /\ \/ wk'[w].pc \notin Claimed
            \/ current'[w] = (IsReminder(wk[w].j) /\ isBookingReminderStillValid(row[wk[w].j].msg))
               /\ wk'[w].j = wk[w].j /\ wk'[w].pc = "latest" /\ wk[w].pc # "idle"
            \/ /\ wk[w].pc \in Claimed /\ wk'[w].j = wk[w].j /\ current'[w] = current[w]
               /\ wk'[w].pc = "send" =>
                    \/ wk[w].pc = "send" \/ ~IsReminder(wk[w].j)
                    \/ isBookingReminderStillValid(row[wk[w].j].msg)
<1> USE DEF At
<1>1. /\ DOMAIN wk = Worker /\ DOMAIN current = Worker /\ wk[w] \in Execution
  BY DEF TypeInv, TypeOK
<1>2. ASSUME NEW l, Step(w, l)
      PROVE  (\A v \in Worker : v # w => wk'[v] = wk[v]) /\ wk'[w].j = wk[w].j /\ wk'[w].pc = l
  <2>1. wk[w] \in [pc : WorkerPc, j : Job \cup {NoJob}, owner : BOOLEAN] BY <1>1 DEF Execution
  <2> QED BY <1>1, <1>2, <2>1 DEF Step
<1>3. ASSUME wk' = [wk EXCEPT ![w] = NoExecution], current' = [current EXCEPT ![w] = FALSE]
      PROVE  /\ \A v \in Worker : v # w => wk'[v] = wk[v] /\ current'[v] = current[v]
             /\ wk'[w].pc \notin Claimed
  BY <1>1, <1>3 DEF NoExecution, Claimed
<1>4. CASE \E j \in Job : Take(w, j)
  BY <1>1, <1>4 DEF Take, Claimed
<1>5. CASE ReadRow(w)
  <2>1. CASE Return(w) BY <1>3, <2>1 DEF Return
  <2>2. CASE ~Return(w)
    <3>1. PICK l \in {"precheck", "claim"} : Step(w, l) /\ UNCHANGED current
      BY <1>5, <2>2 DEF ReadRow
    <3> QED BY <1>2, <3>1 DEF Claimed
  <2> QED BY <2>1, <2>2
<1>6. CASE PreCheck(w)
  <2>1. PICK l \in {"claim", "void"} : Step(w, l) /\ UNCHANGED current BY <1>6 DEF PreCheck
  <2> QED BY <1>2, <2>1 DEF Claimed
<1>7. CASE Claim(w)
  <2> DEFINE b == IsReminder(wk[w].j) /\ isBookingReminderStillValid(row[wk[w].j].msg)
  <2>1. current' = [current EXCEPT ![w] = b] /\ Step(w, "latest") /\ wk[w].pc = "claim"
    BY <1>7 DEF Claim
  <2>2. current'[w] = b /\ \A v \in Worker : v # w => current'[v] = current[v] BY <1>1, <2>1
  <2> HIDE DEF b
  <2>3. (\A v \in Worker : v # w => wk'[v] = wk[v]) /\ wk'[w].j = wk[w].j /\ wk'[w].pc = "latest"
    BY <1>2, <2>1
  <2> QED BY <2>1, <2>2, <2>3 DEF b
<1>8. CASE ReadLatest(w)
  <2>1. CASE Return(w) BY <1>3, <2>1 DEF Return
  <2>2. CASE ~Return(w)
    <3>1. Step(w, IF IsReminder(wk[w].j) THEN "recheck" ELSE "send") /\ UNCHANGED current
          /\ wk[w].pc = "latest"
      BY <1>8, <2>2 DEF ReadLatest
    <3> QED BY <1>2, <3>1 DEF Claimed
  <2> QED BY <2>1, <2>2
<1>9. CASE ReCheck(w)
  <2>1. /\ Step(w, IF isBookingReminderStillValid(row[wk[w].j].msg) THEN "send" ELSE "revoid")
        /\ UNCHANGED current /\ wk[w].pc = "recheck"
    BY <1>9 DEF ReCheck
  <2> QED BY <1>2, <2>1 DEF Claimed
<1>10. CASE InvalidateRow(w) BY <1>3, <1>10 DEF InvalidateRow, Return
<1>11. CASE sendEmail(w) \/ sendText(w)
  <2>1. PICK l \in {"complete", "error"} : Step(w, l) /\ UNCHANGED current /\ wk[w].pc = "send"
    BY <1>11 DEF sendEmail, sendText, Sent, OnlyLogged, NotSent
  <2> QED BY <1>2, <2>1 DEF Claimed
<1>12. CASE Complete(w)
  <2>1. CASE Return(w) BY <1>3, <2>1 DEF Return
  <2>2. CASE ~Return(w)
    <3>1. Step(w, "error") /\ UNCHANGED current /\ wk[w].pc = "complete"
      BY <1>12, <2>2 DEF Complete
    <3> QED BY <1>2, <3>1 DEF Claimed
  <2> QED BY <2>1, <2>2
<1>13. CASE FailRow(w) BY <1>3, <1>13 DEF FailRow, Throw
<1>14. CASE StatementFails(w) BY <1>3, <1>14 DEF StatementFails, Throw
<1>15. CASE StatementCaught(w)
  <2>1. Step(w, "error") /\ UNCHANGED current /\ wk[w].pc \in Claimed
    BY <1>15 DEF StatementCaught, Claimed
  <2> QED BY <1>2, <2>1
<1>16. CASE WorkerDies(w) BY <1>3, <1>16 DEF WorkerDies, Stall
<1>17. CASE LockLost(w)
  <2>1. wk' = [wk EXCEPT ![w].owner = FALSE] /\ UNCHANGED current BY <1>17 DEF LockLost, Stall
  <2>2. /\ \A v \in Worker : v # w => wk'[v] = wk[v]
        /\ wk'[w].j = wk[w].j /\ wk'[w].pc = wk[w].pc
    BY <1>1, <2>1 DEF Execution
  <2> QED BY <2>1, <2>2
<1>18. CASE StalledDies(w) BY <1>3, <1>18 DEF StalledDies
<1> QED BY <1>4, <1>5, <1>6, <1>7, <1>8, <1>9, <1>10, <1>11, <1>12, <1>13, <1>14, <1>15, <1>16,
           <1>17, <1>18 DEF WorkerStep

\* Every step keeps what the workers know.
LEMMA StandsStep ==
  ASSUME TypeInv, \A w \in Worker : Stands(w), [Next]_vars
  PROVE  \A w \in Worker : Stands(w)'
<1> TAKE v \in Worker
<1>1. ASSUME NEW r \in Req,
             \/ HandlerStep(r) \/ HandlerDies(r) \/ enqueueWaitlistSlotOpen(r)
             \/ \E a \in Appt, s \in Start : Book(r, a, s)
             \/ \E a \in Appt, op \in Operations, s \in Start \cup {0} : Decide(r, a, op, s)
      PROVE  Stands(v)'
  <2>1. UNCHANGED wk BY <1>1, HandlerTypes
  <2>2. \A j \in Job : Exists(j) => row'[j].msg = row[j].msg BY <1>1, HandlerRows
  <2>3. UNCHANGED <<appt, current>> \/ \E a \in Appt : \E rec : SetAppt(a, rec) BY <1>1, HandlerNotes
  <2> QED BY <2>1, <2>2, <2>3, ChangeNoted
<1>2. ASSUME NEW w \in Worker,
             \/ WorkerStep(w) \/ StatementFails(w) \/ StatementCaught(w)
             \/ WorkerDies(w) \/ LockLost(w) \/ StalledDies(w)
      PROVE  Stands(v)'
  <2>1. UNCHANGED appt /\ \A j \in Job : row'[j].msg = row[j].msg
    BY <1>2, WorkerTypes DEF quiet, RowsKept
  <2>2. \A u \in Worker : wk[u].pc # "idle" => wk[u].j \in Job BY DEF TypeInv, QueueInv, Typed
  <2>3. wk'[v].pc \in Claimed => wk'[v].j = wk[v].j /\ wk[v].j \in Job
    BY <1>2, <2>2, WorkerNotes DEF Claimed
  <2>4. wk'[v].pc \in Claimed => row'[wk'[v].j].msg = row[wk[v].j].msg BY <2>1, <2>3
  <2>5. CASE v # w
    <3>1. wk'[v] = wk[v] /\ current'[v] = current[v] BY <1>2, <2>5, WorkerNotes
    <3> QED BY <2>1, <2>4, <3>1 DEF Stands, IsReminder, isBookingReminderStillValid
  <2>6. CASE v = w
    BY <1>2, <2>1, <2>3, <2>4, <2>6, WorkerNotes DEF Stands, IsReminder, isBookingReminderStillValid
  <2> QED BY <2>5, <2>6
<1>3. CASE Tick \/ UNCHANGED vars
  <2>1. UNCHANGED <<wk, row, appt, current>> BY <1>3 DEF Tick, vars
  <2> QED BY <2>1 DEF Stands, IsReminder, isBookingReminderStillValid
<1> QED BY <1>1, <1>2, <1>3 DEF Next

\* A reminder goes out only if it was right at some instant after its worker had
\* claimed it: processJob checks again what a cancellation or a move has changed.
THEOREM RemindersWereRight == Spec => RemindersAreCurrent
<1> DEFINE Inv == TypeInv /\ \A w \in Worker : Stands(w)
           Sends == \A w \in Worker :
                      At(w, "send") /\ copies' # copies /\ wk'[w].pc = "complete" /\ IsReminder(wk[w].j)
                        => current[w]
<1>1. Init => Inv
  <2> SUFFICES ASSUME Init PROVE Inv OBVIOUS
  <2>1. \A w \in Worker : wk[w].pc = "idle" BY DEF Init, NoExecution
  <2> QED BY <2>1, TypesInit DEF Stands, Claimed
<1>2. Inv /\ [Next]_vars => Inv' BY TypesStep, StandsStep
<1>3. Inv /\ [Next]_vars => [Sends]_vars BY DEF Stands, At, Claimed
<1>4. RemindersAreCurrent <=> [][Sends]_vars BY DEF RemindersAreCurrent
<1> HIDE DEF Inv, Sends
<1> QED BY <1>1, <1>2, <1>3, <1>4, PTL DEF Spec

--------------------------------------------------------------------------------
(* Active appointments keep their reminders.                               *)

\* Workers only have entries that are due.
InTime == \A w \in Worker : wk[w].pc # "idle" => row[wk[w].j].msg.due <= clock

\* Who cancels an appointment has meant to.
Meant ==
  \A r \in Req : req[r].pc # "idle" /\ req[r].op \in {"cancel", "absent"} => req[r].a \in dropped

\* A handler is about to create the reminders of a; has this message to create; has
\* created its row, which waits in the queue or is about to.
Renewing(a) == \E r \in Req : req[r].pc \in {"void", "read"} /\ req[r].a = a
InTodo(m) ==
  \E r \in Req : req[r].pc \in {"create", "add"} /\ \E i \in DOMAIN req[r].todo : req[r].todo[i] = m
Added(j) == queue[j].state = "waiting" \/ \E r \in Req : req[r].pc = "add" /\ req[r].j = j
Alive(m) == \E j \in Job : Exists(j) /\ row[j].msg = m /\ row[j].status = "PENDING" /\ Added(j)
Cared(a, m) == Renewing(a) \/ InTodo(m) \/ Alive(m)

\* An appointment that nobody tried to cancel, and a reminder of it still ahead.
Awaits(a, lead) ==
  appt[a].status = "CONFIRMED" /\ a \notin dropped /\ appt[a].startsAt - lead > clock
Due(a, lead, c) == Reminder(a, appt[a].startsAt, lead, c)

Renewed ==
  faults = 0 =>
    \A a \in Appt, lead \in Leads, c \in limits.contacts :
      Awaits(a, lead) => Cared(a, Due(a, lead, c))

\* The inductive strengthening of ActiveIsReminded.
RemindInv == InTime /\ Meant /\ Renewed

\* Without handlers under way, a reminder that is cared for waits in the queue.
LEMMA RemindInvSuffices ==
  ASSUME RemindInv
  PROVE  ActiveIsReminded
<1> SUFFICES ASSUME faults = 0, \A r \in Req : req[r].pc = "idle",
                    NEW a \in Appt, NEW lead \in Leads, NEW c \in limits.contacts, Awaits(a, lead)
             PROVE  \E j \in Job :
                      /\ Exists(j)
                      /\ row[j].msg = Reminder(a, appt[a].startsAt, lead, c)
                      /\ row[j].status = "PENDING" /\ queue[j].state = "waiting"
  BY DEF ActiveIsReminded, Awaits
<1>1. Cared(a, Due(a, lead, c)) BY DEF RemindInv, Renewed
<1>2. Alive(Due(a, lead, c)) BY <1>1 DEF Cared, Renewing, InTodo
<1>3. PICK j \in Job : Exists(j) /\ row[j].msg = Due(a, lead, c) /\ row[j].status = "PENDING" /\ Added(j)
  BY <1>2 DEF Alive
<1>4. queue[j].state = "waiting" BY <1>3 DEF Added
<1> QED BY <1>3, <1>4 DEF Due

\* The reminders of the appointments booked at the start wait in the queue.
LEMMA RemindInit ==
  ASSUME Init
  PROVE  RemindInv
<1>1. PICK booked \in [Appt -> Start \cup {0}] :
        LET old == SetToSeq(Awaited(booked)) IN
        /\ appt = [a \in Appt |-> [status |-> IF booked[a] = 0 THEN "NONE" ELSE "CONFIRMED",
                                   startsAt |-> booked[a]]]
        /\ row = [j \in Job |-> IF j <= Len(old) THEN [msg |-> old[j], status |-> "PENDING"]
                                 ELSE NoRow]
        /\ queue = [j \in Job |-> [state |-> IF j <= Len(old) THEN "waiting" ELSE "absent",
                                   tries |-> 0, stalls |-> 0]]
        /\ Len(old) <= limits.rows
        /\ spare = limits.rows - Len(old)
  BY InitRows
<1> DEFINE old == SetToSeq(Awaited(booked))
<1>2. (\A w \in Worker : wk[w].pc = "idle") /\ (\A r \in Req : req[r].pc = "idle") /\ limits \in Limits
  BY DEF Init, NoExecution, NoHandler
<1>3. ASSUME NEW a \in Appt, NEW lead \in Leads, NEW c \in limits.contacts, Awaits(a, lead)
      PROVE  Alive(Due(a, lead, c))
  <2>1. booked[a] # 0 /\ appt[a].startsAt = booked[a] BY <1>1, <1>3 DEF Awaits
  <2>2. Due(a, lead, c) \in Awaited(booked) BY <2>1 DEF Due, Awaited, Booked, Reminders
  <2>3. PICK i \in 1 .. Len(old) : old[i] = Due(a, lead, c) BY <1>2, <2>2, FewAwaited, OrderOf
  <2>4. Len(old) \in Nat BY <1>2, FewAwaited, OrderOf, FS_CardinalityType
  <2> HIDE DEF old
  <2>5. limits.rows <= Cardinality(Job) /\ limits.rows \in Nat /\ Cardinality(Job) \in Nat
    BY <1>2, LimitsAssumption, JobAssumption, FS_CardinalityType
  <2>6. Len(old) <= limits.rows BY <1>1 DEF old
  <2>7. i \in Job BY <2>4, <2>5, <2>6, JobAssumption
  <2>8. row[i] = [msg |-> old[i], status |-> "PENDING"] BY <1>1, <2>7 DEF old
  <2>9. queue[i].state = "waiting" BY <1>1, <2>7 DEF old
  <2> QED BY <2>3, <2>7, <2>8, <2>9 DEF Alive, Exists, Added
<1> QED BY <1>2, <1>3 DEF RemindInv, InTime, Meant, Renewed, Cared

\* Who is under way about something else stays what it is for the others.
LEMMA StillCared ==
  ASSUME TypeInv, NEW r \in Req, NEW h, HandlerTo(r, h), NEW a, NEW m, Cared(a, m),
         req[r].pc \in {"idle", "write"} \/ (req[r].pc \in {"void", "read"} /\ req[r].a # a),
         UNCHANGED queue,
         \A j \in Job : Exists(j) /\ row[j].msg = m /\ row[j].status = "PENDING" => row'[j] = row[j]
  PROVE  Cared(a, m)'
<1>1. \A q \in Req : q # r => req'[q] = req[q] BY OwnRecord DEF HandlerTo
<1>2. CASE Renewing(a)
  <2>1. PICK q \in Req : req[q].pc \in {"void", "read"} /\ req[q].a = a BY <1>2 DEF Renewing
  <2> QED BY <1>1, <2>1 DEF Renewing, Cared
<1>3. CASE InTodo(m)
  <2>1. PICK q \in Req : req[q].pc \in {"create", "add"}
                         /\ \E i \in DOMAIN req[q].todo : req[q].todo[i] = m
    BY <1>3 DEF InTodo
  <2>2. req'[q] = req[q] BY <1>1, <2>1
  <2> QED BY <2>1, <2>2 DEF InTodo, Cared
<1>4. CASE Alive(m)
  <2>1. PICK j \in Job : Exists(j) /\ row[j].msg = m /\ row[j].status = "PENDING" /\ Added(j)
    BY <1>4 DEF Alive
  <2>2. row'[j] = row[j] BY <2>1
  <2>3. Added(j)' BY <1>1, <2>1 DEF Added
  <2> QED BY <2>1, <2>2, <2>3 DEF Alive, Exists, Cared
<1> QED BY <1>2, <1>3, <1>4 DEF Cared

\* A handler that has read the appointment creates every reminder.
LEMMA ReadCares ==
  ASSUME TypeInv, NEW r \in Req, ReadAppointment(r), req[r].op # "cancel",
         NEW lead \in Leads, NEW c \in limits.contacts, NEW m, m = Due(req[r].a, lead, c)
  PROVE  InTodo(m)'
<1> DEFINE a == req[r].a
           all == AllReminders(a, appt[a].startsAt)
           todo == <<Mail("BOOKING_CONFIRMATION", a)>> \o all
<1>1. limits \in Limits /\ a \in Appt /\ appt[a].startsAt \in Start \cup {0}
  <2>1. req[r].pc = "read" /\ Carries(req[r]) BY OwnRecord DEF ReadAppointment
  <2> QED BY <2>1 DEF Carries, TypeInv, TypeOK
<1>2. Sound(all) BY <1>1, ReminderType, FewReminders, SoundOrder DEF AllReminders
<1>3. m \in Reminders(a, appt[a].startsAt) BY DEF Due, Reminders
<1>4. PICK i \in DOMAIN all : all[i] = m
  <2>1. IsFiniteSet(Reminders(a, appt[a].startsAt)) BY <1>1, FewReminders
  <2>2. \E i \in 1 .. Len(all) : all[i] = m BY <1>3, <2>1, OrderOf DEF AllReminders
  <2>3. DOMAIN all = 1 .. Len(all) BY <1>2, LenProperties DEF Sound
  <2> QED BY <2>2, <2>3
<1>5. Proper(Mail("BOOKING_CONFIRMATION", a)) BY <1>1, MailType DEF JobType
<1> HIDE DEF all
<1>6. PICK k \in DOMAIN todo : todo[k] = m BY <1>2, <1>4, <1>5, SoundConcat
<1>7. req' = [req EXCEPT ![r].pc = "create", ![r].todo = todo] BY DEF ReadAppointment, all
<1> HIDE DEF todo
<1>8. req'[r].pc = "create" /\ req'[r].todo = todo BY <1>7, OwnRecord DEF Handler
<1> QED BY <1>6, <1>8 DEF InTodo

\* Who invalidates the rows of an appointment goes on to renew them.
LEMMA VoidCares ==
  ASSUME TypeInv, NEW r \in Req, cancelPendingForAppointment(r),
         NEW a, NEW m, m.appt = a, Cared(a, m)
  PROVE  Cared(a, m)'
<1>1. req[r].pc = "void" /\ UNCHANGED queue BY DEF cancelPendingForAppointment
<1>2. PICK h : HandlerTo(r, h) BY HandlerSteps DEF HandlerStep
<1>3. CASE req[r].a = a
  <2>1. req' = [req EXCEPT ![r].pc = "read"] BY DEF cancelPendingForAppointment, Goto
  <2>2. req'[r].pc = "read" /\ req'[r].a = a BY <1>3, <2>1, OwnRecord DEF Handler
  <2> QED BY <2>2 DEF Cared, Renewing
<1>4. CASE req[r].a # a
  <2>1. \A j \in Job : row[j].msg = m => row'[j] = row[j] BY <1>4 DEF cancelPendingForAppointment
  <2> QED BY <1>1, <1>2, <1>4, <2>1, StillCared
<1> QED BY <1>3, <1>4

\* A handler at work on its messages: the others, and the rows, go on.
LEMMA OthersCare ==
  ASSUME TypeInv, NEW r \in Req, NEW h, HandlerTo(r, h), req[r].pc \in {"create", "add"},
         NEW a, NEW m, Cared(a, m),
         \A i \in DOMAIN req[r].todo : req[r].todo[i] = m => InTodo(m)' \/ Alive(m)',
         \A j \in Job : Exists(j) => row'[j] = row[j] /\ (queue[j].state = "waiting" => Added(j)'),
         \A j \in Job : req[r].pc = "add" /\ req[r].j = j => Added(j)'
  PROVE  Cared(a, m)'
<1>1. \A q \in Req : q # r => req'[q] = req[q] BY OwnRecord DEF HandlerTo
<1>2. CASE Renewing(a)
  <2>1. PICK q \in Req : req[q].pc \in {"void", "read"} /\ req[q].a = a BY <1>2 DEF Renewing
  <2> QED BY <1>1, <2>1 DEF Renewing, Cared
<1>3. CASE InTodo(m)
  <2>1. PICK q \in Req : req[q].pc \in {"create", "add"}
                         /\ \E i \in DOMAIN req[q].todo : req[q].todo[i] = m
    BY <1>3 DEF InTodo
  <2>2. CASE q = r BY <2>1, <2>2 DEF Cared
  <2>3. CASE q # r
    <3>1. req'[q] = req[q] BY <1>1, <2>3
    <3> QED BY <2>1, <3>1 DEF InTodo, Cared
  <2> QED BY <2>2, <2>3
<1>4. CASE Alive(m)
  <2>1. PICK j \in Job : Exists(j) /\ row[j].msg = m /\ row[j].status = "PENDING" /\ Added(j)
    BY <1>4 DEF Alive
  <2>2. row'[j] = row[j] BY <2>1
  <2>3. Added(j)'
    <3>1. CASE queue[j].state = "waiting" BY <2>1, <3>1
    <3>2. CASE \E q \in Req : req[q].pc = "add" /\ req[q].j = j
      <4>1. PICK q \in Req : req[q].pc = "add" /\ req[q].j = j BY <3>2
      <4>2. CASE q = r BY <2>1, <4>1, <4>2
      <4>3. CASE q # r
        <5>1. req'[q] = req[q] BY <1>1, <4>3
        <5> QED BY <4>1, <5>1 DEF Added
      <4> QED BY <4>2, <4>3
    <3> QED BY <2>1, <3>1, <3>2 DEF Added
  <2> QED BY <2>1, <2>2, <2>3 DEF Alive, Exists, Cared
<1> QED BY <1>2, <1>3, <1>4 DEF Cared

\* A reminder whose time has not come is not skipped.
LEMMA SkipCares ==
  ASSUME TypeInv, NEW r \in Req, Skip(r), NEW a, NEW m, Cared(a, m),
         m.type = "BOOKING_REMINDER", ~(m.due <= clock)
  PROVE  Cared(a, m)'
<1>1. PICK h : HandlerTo(r, h) BY HandlerSteps DEF HandlerStep
<1>2. req[r].pc = "create" /\ UNCHANGED <<row, queue>> BY DEF Skip, serviceVars
<1>3. ASSUME NEW i \in DOMAIN req[r].todo, req[r].todo[i] = m
      PROVE  InTodo(m)'
  <2>1. Sound(req[r].todo) BY OwnRecord
  <2>2. req[r].todo # <<>> BY <1>3, EmptySeq
  <2>3. TooLate(Head(req[r].todo)) /\ req' = [req EXCEPT ![r].todo = Tail(@)] BY <2>2 DEF Skip
  <2>4. Head(req[r].todo) # m BY <2>3 DEF TooLate
  <2>5. \E k \in DOMAIN Tail(req[r].todo) : Tail(req[r].todo)[k] = m
    BY <1>3, <2>1, <2>2, <2>4, SoundTail
  <2>6. req'[r].pc = "create" /\ req'[r].todo = Tail(req[r].todo)
    BY <1>2, <2>3, OwnRecord DEF Handler
  <2> QED BY <2>5, <2>6 DEF InTodo
<1>4. \A j \in Job : queue[j].state = "waiting" => Added(j)' BY <1>2 DEF Added
<1> QED BY <1>1, <1>2, <1>3, <1>4, OthersCare

\* The message becomes a row.
LEMMA CreateCares ==
  ASSUME TypeInv, NEW r \in Req, CreateRow(r), NEW a, NEW m, Cared(a, m)
  PROVE  Cared(a, m)'
<1>1. PICK h : HandlerTo(r, h) BY HandlerSteps DEF HandlerStep
<1>2. PICK j \in Job :
        /\ ~Exists(j)
        /\ row' = [row EXCEPT ![j] = [msg |-> Head(req[r].todo), status |-> "PENDING"]]
        /\ req' = [req EXCEPT ![r].pc = "add", ![r].j = j, ![r].todo = Tail(@)]
  BY DEF CreateRow
<1>3. req[r].pc = "create" /\ req[r].todo # <<>> /\ UNCHANGED queue BY DEF CreateRow
<1>4. req'[r].pc = "add" /\ req'[r].j = j /\ req'[r].todo = Tail(req[r].todo)
  BY <1>2, OwnRecord DEF Handler
<1>5. /\ row'[j] = [msg |-> Head(req[r].todo), status |-> "PENDING"]
      /\ \A i \in Job : Exists(i) => row'[i] = row[i]
  BY <1>2 DEF TypeInv, TypeOK
<1>6. ASSUME NEW i \in DOMAIN req[r].todo, req[r].todo[i] = m
      PROVE  InTodo(m)' \/ Alive(m)'
  <2>1. Sound(req[r].todo) BY OwnRecord
  <2>2. CASE Head(req[r].todo) = m
    <3>1. Added(j)' BY <1>4 DEF Added
    <3>2. Exists(j)' /\ row'[j].msg = m /\ row'[j].status = "PENDING" BY <1>5, <2>2 DEF Exists
    <3> QED BY <3>1, <3>2 DEF Alive
  <2>3. CASE Head(req[r].todo) # m
    <3>1. \E k \in DOMAIN Tail(req[r].todo) : Tail(req[r].todo)[k] = m
      BY <1>3, <1>6, <2>1, <2>3, SoundTail
    <3> QED BY <1>4, <3>1 DEF InTodo
  <2> QED BY <2>2, <2>3
<1>7. \A i \in Job : queue[i].state = "waiting" => Added(i)' BY <1>3 DEF Added
<1> QED BY <1>1, <1>3, <1>5, <1>6, <1>7, OthersCare

\* The row reaches the queue.
LEMMA EnqueueCares ==
  ASSUME TypeInv, NEW r \in Req, Enqueue(r), faults' = faults, NEW a, NEW m, Cared(a, m)
  PROVE  Cared(a, m)'
<1>1. PICK h : HandlerTo(r, h) BY HandlerSteps DEF HandlerStep
<1>2. req[r].pc = "add" /\ UNCHANGED row BY DEF Enqueue
<1>3. queue' = [queue EXCEPT ![req[r].j].state = "waiting"]
  BY DEF Enqueue, Fault, TypeInv, QueueInv, Typed
<1>4. req[r].j \in Job BY <1>2 DEF TypeInv, QueueInv, Adding
<1>5. /\ queue'[req[r].j].state = "waiting"
      /\ \A j \in Job : queue[j].state = "waiting" => queue'[j].state = "waiting"
  <2>1. queue \in [Job -> Entry] BY DEF TypeInv, TypeOK
  <2> QED BY <1>3, <1>4, <2>1 DEF Entry
<1>6. req'[r].pc = "create" /\ req'[r].todo = req[r].todo
  <2>1. req' = [req EXCEPT ![r].pc = "create", ![r].j = NoJob] BY DEF Enqueue
  <2> QED BY <2>1, OwnRecord DEF Handler
<1>7. \A i \in DOMAIN req[r].todo : req[r].todo[i] = m => InTodo(m)' BY <1>6 DEF InTodo
<1>8. \A j \in Job : req[r].j = j => Added(j)' BY <1>5 DEF Added
<1>9. \A j \in Job : queue[j].state = "waiting" => Added(j)' BY <1>5 DEF Added
<1> QED BY <1>1, <1>2, <1>7, <1>8, <1>9, OthersCare

\* What a handler's step makes of what was meant.
LEMMA HandlerMeans ==
  ASSUME TypeInv, NEW r \in Req,
         \/ HandlerStep(r) \/ HandlerDies(r) \/ enqueueWaitlistSlotOpen(r)
         \/ \E a \in Appt, s \in Start : Book(r, a, s)
         \/ \E a \in Appt, op \in Operations, s \in Start \cup {0} : Decide(r, a, op, s)
  PROVE  /\ dropped \subseteq dropped' /\ (faults' = 0 => faults = 0)
         /\ \/ req'[r].pc = "idle" \/ req'[r].op \notin {"cancel", "absent"}
            \/ req'[r].a \in dropped'
            \/ req[r].pc # "idle" /\ req'[r].op = req[r].op /\ req'[r].a = req[r].a
<1>1. DOMAIN req = Req /\ req[r] \in Handler /\ faults \in Nat
  BY OwnRecord DEF TypeInv, QueueInv, Typed
<1>2. ASSUME NEW l, Goto(r, l) PROVE req'[r].op = req[r].op /\ req'[r].a = req[r].a
  BY <1>1, <1>2 DEF Goto, Handler
<1>3. Finish(r) => req'[r].pc = "idle" BY <1>1 DEF Finish, NoHandler
<1>4. Fault => faults' # 0 BY <1>1 DEF Fault
<1>5. CASE Write(r)
  <2>1. UNCHANGED <<dropped, faults>> /\ req[r].pc # "idle" BY <1>5 DEF Write
  <2>2. Goto(r, "void") \/ Finish(r) BY <1>5 DEF Write, TypeInv, QueueInv, Typed
  <2> QED BY <1>2, <1>3, <2>1, <2>2
<1>6. CASE cancelPendingForAppointment(r) BY <1>2, <1>6 DEF cancelPendingForAppointment
<1>7. CASE ReadAppointment(r)
  <2>1. PICK todo : req' = [req EXCEPT ![r].pc = "create", ![r].todo = todo]
    BY <1>7, Zenon DEF ReadAppointment
  <2>2. req'[r].op = req[r].op /\ req'[r].a = req[r].a BY <1>1, <2>1 DEF Handler
  <2>3. UNCHANGED <<dropped, faults>> /\ req[r].pc # "idle" BY <1>7 DEF ReadAppointment
  <2> QED BY <2>2, <2>3
<1>8. CASE Skip(r)
  <2>1. UNCHANGED <<dropped, faults>> /\ req[r].pc # "idle" BY <1>8 DEF Skip
  <2>2. Finish(r) \/ req' = [req EXCEPT ![r].todo = Tail(@)] BY <1>8 DEF Skip
  <2>3. req' = [req EXCEPT ![r].todo = Tail(@)] => req'[r].op = req[r].op /\ req'[r].a = req[r].a
    BY <1>1 DEF Handler
  <2> QED BY <1>3, <2>1, <2>2, <2>3
<1>9. CASE CreateRow(r)
  <2>1. PICK j \in Job : req' = [req EXCEPT ![r].pc = "add", ![r].j = j, ![r].todo = Tail(@)]
    BY <1>9 DEF CreateRow
  <2>2. req'[r].op = req[r].op /\ req'[r].a = req[r].a BY <1>1, <2>1 DEF Handler
  <2> QED BY <1>9, <2>2 DEF CreateRow
<1>10. CASE Enqueue(r)
  <2>1. req' = [req EXCEPT ![r].pc = "create", ![r].j = NoJob] BY <1>10 DEF Enqueue
  <2>2. req'[r].op = req[r].op /\ req'[r].a = req[r].a BY <1>1, <2>1 DEF Handler
  <2> QED BY <1>4, <1>10, <2>2 DEF Enqueue
<1>11. CASE HandlerDies(r) BY <1>3, <1>4, <1>11 DEF HandlerDies
<1>12. CASE enqueueWaitlistSlotOpen(r)
  <2>1. PICK todo : req' = [req EXCEPT ![r] = [NoHandler EXCEPT !.pc = "create", !.todo = todo]]
    BY <1>12, Zenon DEF enqueueWaitlistSlotOpen, Serve
  <2>2. req'[r].op = "call" BY <1>1, <2>1 DEF NoHandler
  <2> QED BY <1>12, <2>2 DEF enqueueWaitlistSlotOpen
<1>13. ASSUME NEW a \in Appt, NEW s \in Start, Book(r, a, s)
       PROVE  req'[r].op = "book" /\ UNCHANGED <<dropped, faults>>
  BY <1>1, <1>13 DEF Book, Serve, NoHandler
<1>14. ASSUME NEW a \in Appt, NEW op \in Operations, NEW s \in Start \cup {0}, Decide(r, a, op, s)
       PROVE  /\ dropped \subseteq dropped' /\ UNCHANGED faults
              /\ req'[r].op \in {"cancel", "absent"} => req'[r].a \in dropped'
  <2>1. req'[r].op = op /\ req'[r].a = a BY <1>1, <1>14 DEF Decide, Serve, NoHandler
  <2> QED BY <1>14, <2>1 DEF Decide
<1> QED BY <1>5, <1>6, <1>7, <1>8, <1>9, <1>10, <1>11, <1>12, <1>13, <1>14 DEF HandlerStep

\* An appointment that awaits a reminder after a handler's step has it cared for.
LEMMA HandlerRenews ==
  ASSUME TypeInv, RemindInv, NEW r \in Req,
         \/ HandlerStep(r) \/ HandlerDies(r) \/ enqueueWaitlistSlotOpen(r)
         \/ \E a \in Appt, s \in Start : Book(r, a, s)
         \/ \E a \in Appt, op \in Operations, s \in Start \cup {0} : Decide(r, a, op, s),
         faults' = 0,
         NEW a \in Appt, NEW lead \in Leads, NEW c \in limits.contacts, NEW m,
         Awaits(a, lead)', m = Due(a, lead, c)'
  PROVE  Cared(a, m)'
<1>1. faults = 0 /\ dropped \subseteq dropped' BY HandlerMeans
<1>2. UNCHANGED <<clock, limits>> BY HandlerTypes
<1>3. PICK h : HandlerTo(r, h) BY HandlerSteps
<1>4. ASSUME appt'[a] = appt[a]
      PROVE  Awaits(a, lead) /\ m = Due(a, lead, c) /\ Cared(a, m)
  <2>1. Awaits(a, lead) /\ m = Due(a, lead, c) BY <1>1, <1>2, <1>4 DEF Awaits, Due, Reminder
  <2> QED BY <1>1, <2>1 DEF RemindInv, Renewed
<1>5. m.appt = a /\ m.type = "BOOKING_REMINDER" BY DEF Due, Reminder
<1>6. ~(m.due <= clock)
  <2>1. m.due = appt'[a].startsAt - lead BY DEF Due, Reminder
  <2>2. appt'[a].startsAt \in Start \cup {0} BY HandlerTypes
  <2>3. appt'[a].startsAt \in Nat /\ lead \in Nat BY <2>2, TimesAreNumbers
  <2>4. clock \in Nat BY TimeAssumption DEF TypeInv, TypeOK
  <2>5. appt'[a].startsAt - lead > clock BY <1>2 DEF Awaits
  <2> QED BY <2>1, <2>3, <2>4, <2>5
<1>7. a \notin dropped /\ a \notin dropped' BY <1>1 DEF Awaits
<1>8. DOMAIN req = Req /\ req[r] \in Handler /\ DOMAIN appt = Appt
  BY OwnRecord DEF TypeInv, TypeOK
<1>9. CASE Write(r)
  <2>1. req[r].pc = "write" /\ UNCHANGED <<row, queue>> BY <1>9 DEF Write, serviceVars
  <2>2. CASE req[r].a = a
    <3>1. req[r].op \notin {"cancel", "absent"} BY <1>7, <2>1, <2>2 DEF RemindInv, Meant
    <3>2. Goto(r, "void") BY <1>9, <3>1 DEF Write, TypeInv, QueueInv, Typed
    <3>3. req'[r].pc = "void" /\ req'[r].a = a BY <1>8, <2>2, <3>2 DEF Goto, Handler
    <3> QED BY <3>3 DEF Cared, Renewing
  <2>3. CASE req[r].a # a
    <3>1. PICK rec : appt' = [appt EXCEPT ![req[r].a] = rec]
      BY <1>9, Zenon DEF Write, SetAppt, TypeInv, QueueInv, Typed
    <3>2. appt'[a] = appt[a] BY <1>8, <2>3, <3>1
    <3> QED BY <1>3, <1>4, <2>1, <3>2, StillCared
  <2> QED BY <2>2, <2>3
<1>10. ASSUME NEW b \in Appt, NEW s \in Start, Book(r, b, s) PROVE Cared(a, m)'
  <2>1. req[r].pc = "idle" /\ UNCHANGED <<row, queue>> BY <1>10 DEF Book, Serve, serviceVars
  <2>2. CASE b = a
    <3>1. req'[r].pc = "read" /\ req'[r].a = a BY <1>8, <1>10, <2>2 DEF Book, Serve, NoHandler
    <3> QED BY <3>1 DEF Cared, Renewing
  <2>3. CASE b # a
    <3>1. PICK rec : appt' = [appt EXCEPT ![b] = rec] BY <1>10, Zenon DEF Book, SetAppt
    <3>2. appt'[a] = appt[a] BY <1>8, <2>3, <3>1
    <3> QED BY <1>3, <1>4, <2>1, <3>2, StillCared
  <2> QED BY <2>2, <2>3
<1>11. CASE enqueueWaitlistSlotOpen(r) \/ \E b \in Appt, op \in Operations, s \in Start \cup {0} :
                                            Decide(r, b, op, s)
  <2>1. req[r].pc = "idle" /\ UNCHANGED <<row, queue, appt>>
    BY <1>11, Zenon DEF enqueueWaitlistSlotOpen, Decide, Serve, serviceVars
  <2> QED BY <1>3, <1>4, <2>1, StillCared
<1>12. CASE cancelPendingForAppointment(r)
  <2>1. UNCHANGED appt BY <1>12 DEF cancelPendingForAppointment
  <2> QED BY <1>4, <1>5, <1>12, <2>1, VoidCares
<1>13. CASE ReadAppointment(r)
  <2>1. UNCHANGED <<appt, row, queue>> /\ req[r].pc = "read" BY <1>13 DEF ReadAppointment, serviceVars
  <2>2. CASE req[r].a = a
    <3>1. req[r].op # "cancel" BY <1>7, <2>1, <2>2 DEF RemindInv, Meant
    <3>2. m = Due(req[r].a, lead, c) BY <1>4, <2>1, <2>2
    <3> QED BY <1>13, <3>1, <3>2, ReadCares DEF Cared
  <2>3. CASE req[r].a # a BY <1>3, <1>4, <2>1, <2>3, StillCared
  <2> QED BY <2>2, <2>3
<1>14. CASE Skip(r)
  <2>1. UNCHANGED appt BY <1>14 DEF Skip
  <2> QED BY <1>4, <1>5, <1>6, <1>14, <2>1, SkipCares
<1>15. CASE CreateRow(r)
  <2>1. UNCHANGED appt BY <1>15 DEF CreateRow
  <2> QED BY <1>4, <1>15, <2>1, CreateCares
<1>16. CASE Enqueue(r)
  <2>1. UNCHANGED appt BY <1>16 DEF Enqueue
  <2> QED BY <1>1, <1>4, <1>16, <2>1, EnqueueCares
<1>17. CASE HandlerDies(r)
  <2>1. faults' = faults + 1 BY <1>17 DEF HandlerDies, Fault
  <2> QED BY <1>1, <2>1
<1> QED BY <1>9, <1>10, <1>11, <1>12, <1>13, <1>14, <1>15, <1>16, <1>17 DEF HandlerStep

\* Every handler keeps the reminders.
LEMMA HandlerReminds ==
  ASSUME TypeInv, RemindInv, NEW r \in Req,
         \/ HandlerStep(r) \/ HandlerDies(r) \/ enqueueWaitlistSlotOpen(r)
         \/ \E a \in Appt, s \in Start : Book(r, a, s)
         \/ \E a \in Appt, op \in Operations, s \in Start \cup {0} : Decide(r, a, op, s)
  PROVE  RemindInv'
<1>1. UNCHANGED <<wk, clock, limits>> BY HandlerTypes
<1>2. \A j \in Job : Exists(j) => row'[j].msg = row[j].msg BY HandlerRows
<1>3. InTime'
  <2>1. \A w \in Worker : wk[w].pc # "idle" => wk[w].j \in Job /\ Exists(wk[w].j)
    BY AtWork DEF TypeInv
  <2> QED BY <1>1, <1>2, <2>1 DEF RemindInv, InTime
<1>4. Meant'
  <2> SUFFICES ASSUME NEW q \in Req, req'[q].pc # "idle", req'[q].op \in {"cancel", "absent"}
               PROVE  req'[q].a \in dropped'
    BY DEF Meant
  <2>1. PICK h : HandlerTo(r, h) BY HandlerSteps
  <2>2. CASE q = r BY <2>2, HandlerMeans DEF RemindInv, Meant
  <2>3. CASE q # r
    <3>1. req'[q] = req[q] BY <2>1, <2>3, OwnRecord DEF HandlerTo
    <3> QED BY <3>1, HandlerMeans DEF RemindInv, Meant
  <2> QED BY <2>2, <2>3
<1>5. Renewed'
  <2> SUFFICES ASSUME faults' = 0, NEW a \in Appt, NEW lead \in Leads, NEW c \in limits'.contacts,
                      Awaits(a, lead)'
               PROVE  Cared(a, Due(a, lead, c))'
    BY DEF Renewed
  <2>1. PICK m : m = Due(a, lead, c)' OBVIOUS
  <2>2. c \in limits.contacts BY <1>1
  <2>3. Cared(a, m)' BY <2>1, <2>2, HandlerRenews
  <2> QED BY <2>1, <2>3 DEF Cared, InTodo, Alive
<1> QED BY <1>3, <1>4, <1>5 DEF RemindInv

\* A worker touches the row and the entry it has, or takes an entry that is due.
LEMMA WorkerOwn ==
  ASSUME TypeInv, NEW w \in Worker,
         WorkerStep(w) \/ StatementFails(w) \/ StatementCaught(w)
         \/ WorkerDies(w) \/ LockLost(w) \/ StalledDies(w)
  PROVE  /\ \A v \in Worker : v # w => wk'[v] = wk[v]
         /\ \/ \E i \in Job :
                 /\ row[i].msg.due <= clock /\ wk'[w].j = i
                 /\ \A j \in Job : row'[j] = row[j] /\ (j # i => queue'[j] = queue[j])
            \/ /\ wk[w].pc # "idle" /\ (wk'[w].pc = "idle" \/ wk'[w].j = wk[w].j)
               /\ \A j \in Job : j # wk[w].j => row'[j] = row[j] /\ queue'[j] = queue[j]
<1> USE DEF At
<1>1. /\ DOMAIN wk = Worker /\ wk[w] \in Execution /\ DOMAIN row = Job /\ DOMAIN queue = Job
  BY DEF TypeInv, TypeOK
<1>2. ASSUME NEW l, Step(w, l) PROVE wk'[w].j = wk[w].j
  BY <1>1, <1>2 DEF Step, Execution
<1>3. ASSUME wk' = [wk EXCEPT ![w] = NoExecution] PROVE wk'[w].pc = "idle"
  BY <1>1, <1>3 DEF NoExecution
<1>4. Return(w) \/ Throw(w) =>
        wk'[w].pc = "idle" /\ \A j \in Job : j # wk[w].j => queue'[j] = queue[j]
  BY <1>1, <1>3 DEF Return, Throw
<1>5. ASSUME NEW s, SetStatus(w, s) PROVE \A j \in Job : j # wk[w].j => row'[j] = row[j]
  BY <1>1, <1>5 DEF SetStatus
<1>6. \A v \in Worker : v # w => wk'[v] = wk[v] BY WorkerNotes
<1>7. ASSUME NEW i \in Job, Take(w, i)
      PROVE  /\ row[i].msg.due <= clock /\ wk'[w].j = i
             /\ \A j \in Job : row'[j] = row[j] /\ (j # i => queue'[j] = queue[j])
  <2>1. Exists(i) BY <1>7 DEF Take, TypeInv, QueueInv, Adding
  <2>2. row[i].msg.due \in Int /\ clock \in Int
    BY <2>1, TimeAssumption DEF TypeInv, TypeOK, Proper, Message
  <2> QED BY <1>1, <1>7, <2>2 DEF Take
<1>8. CASE ReadRow(w) BY <1>2, <1>4, <1>6, <1>8 DEF ReadRow
<1>9. CASE PreCheck(w) BY <1>2, <1>6, <1>9 DEF PreCheck
<1>10. CASE Claim(w) BY <1>2, <1>5, <1>6, <1>10 DEF Claim
<1>11. CASE ReadLatest(w) BY <1>2, <1>4, <1>6, <1>11 DEF ReadLatest
<1>12. CASE ReCheck(w) BY <1>2, <1>6, <1>12 DEF ReCheck
<1>13. CASE InvalidateRow(w) BY <1>4, <1>5, <1>6, <1>13 DEF InvalidateRow
<1>14. CASE sendEmail(w) \/ sendText(w)
  BY <1>2, <1>6, <1>14 DEF sendEmail, sendText, Sent, OnlyLogged, NotSent
<1>15. CASE Complete(w) BY <1>2, <1>4, <1>5, <1>6, <1>15 DEF Complete
<1>16. CASE FailRow(w) BY <1>4, <1>5, <1>6, <1>16 DEF FailRow
<1>17. CASE StatementFails(w) BY <1>4, <1>6, <1>17 DEF StatementFails
<1>18. CASE StatementCaught(w) BY <1>2, <1>6, <1>18 DEF StatementCaught
<1>19. ASSUME NEW dead \in BOOLEAN, Stall(w, dead)
       PROVE  /\ wk[w].pc # "idle" /\ (wk'[w].pc = "idle" \/ wk'[w].j = wk[w].j)
              /\ \A j \in Job : j # wk[w].j => row'[j] = row[j] /\ queue'[j] = queue[j]
  <2>1. wk' = [wk EXCEPT ![w].owner = FALSE] => wk'[w].j = wk[w].j BY <1>1 DEF Execution
  <2>2. wk'[w].pc = "idle" \/ wk'[w].j = wk[w].j BY <1>3, <1>19, <2>1 DEF Stall
  <2> QED BY <1>1, <1>19, <2>2 DEF Stall
<1>20. CASE WorkerDies(w) \/ LockLost(w) BY <1>6, <1>19, <1>20 DEF WorkerDies, LockLost
<1>21. CASE StalledDies(w) BY <1>3, <1>6, <1>21 DEF StalledDies
<1> QED BY <1>6, <1>7, <1>8, <1>9, <1>10, <1>11, <1>12, <1>13, <1>14, <1>15, <1>16, <1>17, <1>18,
           <1>20, <1>21 DEF WorkerStep

\* A worker's step fails once or not at all.
LEMMA WorkerFaults ==
  ASSUME NEW w \in Worker,
         WorkerStep(w) \/ StatementFails(w) \/ StatementCaught(w)
         \/ WorkerDies(w) \/ LockLost(w) \/ StalledDies(w)
  PROVE  faults' = faults \/ faults' = faults + 1
BY DEF WorkerStep, Take, ReadRow, PreCheck, Claim, ReadLatest, ReCheck, InvalidateRow, sendEmail,
   sendText, Sent, OnlyLogged, NotSent, Complete, FailRow, StatementFails, StatementCaught,
   WorkerDies, LockLost, Stall, StalledDies, Fault

\* What is not due is in no worker's hands.
LEMMA WorkerReminds ==
  ASSUME TypeInv, RemindInv, NEW w \in Worker,
         WorkerStep(w) \/ StatementFails(w) \/ StatementCaught(w)
         \/ WorkerDies(w) \/ LockLost(w) \/ StalledDies(w)
  PROVE  RemindInv'
<1>1. UNCHANGED <<appt, req, clock, limits, dropped>> BY WorkerTypes DEF quiet
<1>2. \A j \in Job : (Exists(j)' <=> Exists(j)) /\ row'[j].msg = row[j].msg
  BY WorkerTypes DEF RowsKept
<1>3. \A v \in Worker : wk[v].pc # "idle" => wk[v].j \in Job /\ row[wk[v].j].msg.due <= clock
  BY DEF TypeInv, QueueInv, Typed, RemindInv, InTime
<1>4. InTime'
  <2> SUFFICES ASSUME NEW v \in Worker, wk'[v].pc # "idle" PROVE row'[wk'[v].j].msg.due <= clock
    BY <1>1 DEF InTime
  <2>1. CASE v # w
    <3>1. wk'[v] = wk[v] BY <2>1, WorkerOwn
    <3> QED BY <1>2, <1>3, <3>1
  <2>2. CASE v = w
    <3>1. wk'[w].j \in Job /\ row[wk'[w].j].msg.due <= clock BY <1>3, <2>2, WorkerOwn
    <3> QED BY <1>2, <2>2, <3>1
  <2> QED BY <2>1, <2>2
<1>5. Meant' BY <1>1 DEF RemindInv, Meant
<1>6. ASSUME NEW j \in Job, ~(row[j].msg.due <= clock)
      PROVE  row'[j] = row[j] /\ queue'[j] = queue[j]
  BY <1>3, <1>6, WorkerOwn
<1>7. Renewed'
  <2> SUFFICES ASSUME faults' = 0, NEW a \in Appt, NEW lead \in Leads, NEW c \in limits'.contacts,
                      Awaits(a, lead)'
               PROVE  Cared(a, Due(a, lead, c))'
    BY DEF Renewed
  <2>1. PICK m : m = Due(a, lead, c) OBVIOUS
  <2>2. m = Due(a, lead, c)' BY <1>1, <2>1 DEF Due
  <2>3. faults = 0
    <3>1. faults \in Nat BY DEF TypeInv, QueueInv, Typed
    <3>2. faults' = faults \/ faults' = faults + 1 BY WorkerFaults
    <3> QED BY <3>1, <3>2
  <2>4. Awaits(a, lead) BY <1>1 DEF Awaits
  <2>5. Cared(a, m) BY <1>1, <2>1, <2>3, <2>4 DEF RemindInv, Renewed
  <2>6. ~(m.due <= clock)
    <3>1. m.due = appt[a].startsAt - lead BY <2>1 DEF Due, Reminder
    <3>2. appt[a].startsAt \in Start \cup {0} BY DEF TypeInv, TypeOK
    <3>3. appt[a].startsAt \in Nat /\ lead \in Nat BY <3>2, TimesAreNumbers
    <3>4. clock \in Nat BY TimeAssumption DEF TypeInv, TypeOK
    <3>5. appt[a].startsAt - lead > clock BY <2>4 DEF Awaits
    <3> QED BY <3>1, <3>3, <3>4, <3>5
  <2>7. Alive(m) => Alive(m)'
    <3> SUFFICES ASSUME NEW j \in Job, Exists(j), row[j].msg = m, row[j].status = "PENDING", Added(j)
                 PROVE  Alive(m)'
      BY DEF Alive
    <3>1. row'[j] = row[j] /\ queue'[j] = queue[j] BY <1>6, <2>6
    <3>2. Added(j)' BY <1>1, <3>1 DEF Added
    <3> QED BY <3>1, <3>2 DEF Alive, Exists
  <2>8. Cared(a, m)' BY <1>1, <2>5, <2>7 DEF Cared, Renewing, InTodo
  <2> QED BY <2>2, <2>8 DEF Cared, InTodo, Alive
<1> QED BY <1>4, <1>5, <1>7 DEF RemindInv

\* Every step keeps the reminders: time only makes fewer of them awaited.
LEMMA RemindStep ==
  ASSUME TypeInv, RemindInv, [Next]_vars
  PROVE  RemindInv'
<1>1. CASE Tick
  <2>1. /\ clock' = clock + 1 /\ clock \in Nat
        /\ UNCHANGED <<appt, row, queue, req, wk, limits, faults, dropped>>
    BY <1>1, TimeAssumption DEF Tick, TypeInv, TypeOK
  <2>2. InTime'
    <3> SUFFICES ASSUME NEW w \in Worker, wk[w].pc # "idle" PROVE row[wk[w].j].msg.due <= clock + 1
      BY <2>1 DEF InTime
    <3>1. wk[w].j \in Job /\ Exists(wk[w].j) BY AtWork DEF TypeInv
    <3>2. row[wk[w].j].msg.due \in Int BY <3>1 DEF TypeInv, Proper, Message
    <3>3. row[wk[w].j].msg.due <= clock BY DEF RemindInv, InTime
    <3> QED BY <2>1, <3>2, <3>3
  <2>3. Meant' BY <2>1 DEF RemindInv, Meant
  <2>4. Renewed'
    <3> SUFFICES ASSUME faults' = 0, NEW a \in Appt, NEW lead \in Leads, NEW c \in limits'.contacts,
                        Awaits(a, lead)'
                 PROVE  Cared(a, Due(a, lead, c))'
      BY DEF Renewed
    <3>1. appt[a].startsAt \in Start \cup {0} BY DEF TypeInv, TypeOK
    <3>2. appt[a].startsAt \in Nat /\ lead \in Nat BY <3>1, TimesAreNumbers
    <3>3. Awaits(a, lead) BY <2>1, <3>2 DEF Awaits
    <3>4. Cared(a, Due(a, lead, c)) BY <2>1, <3>3 DEF RemindInv, Renewed
    <3> QED BY <2>1, <3>4 DEF Cared, Due, Renewing, InTodo, Alive, Exists, Added
  <2> QED BY <2>2, <2>3, <2>4 DEF RemindInv
<1>2. CASE UNCHANGED vars
  <2>1. UNCHANGED <<appt, row, queue, req, wk, limits, faults, dropped, clock>> BY <1>2 DEF vars
  <2>2. InTime' /\ Meant' BY <2>1 DEF RemindInv, InTime, Meant
  <2>3. Renewed'
    BY <2>1 DEF RemindInv, Renewed, Awaits, Cared, Due, Renewing, InTodo, Alive, Exists, Added
  <2> QED BY <2>2, <2>3 DEF RemindInv
<1> QED BY <1>1, <1>2, HandlerReminds, WorkerReminds DEF Next

\* However bookings, moves and workers interleave, an appointment that nobody tried
\* to cancel keeps a live reminder for each lead time still ahead, whenever no
\* handler is under way and nothing has failed: of two moves, the one whose reminders
\* the other invalidates finds the other about to renew them.
THEOREM ActiveKeepReminders == Spec => []ActiveIsReminded
<1>1. Init => TypeInv /\ RemindInv BY TypesInit, RemindInit
<1>2. TypeInv /\ RemindInv /\ [Next]_vars => TypeInv' /\ RemindInv' BY TypesStep, RemindStep
<1>3. TypeInv /\ RemindInv => ActiveIsReminded BY RemindInvSuffices
<1> QED BY <1>1, <1>2, <1>3, PTL DEF Spec
=================================================================================
