------------------------------ MODULE Webhooks ------------------------------
(***************************************************************************)
(* PaymentService.handleWebhook: providers' callbacks.                     *)
(*                                                                         *)
(* A delivery is one HTTP request carrying a notification; a provider may  *)
(* deliver the same one again, at once or later, in any order.  A row of   *)
(* webhook_events, unique by its dedupe key, records what was done with    *)
(* it.  One action is the code between two awaits.                         *)
(***************************************************************************)
EXTENDS Payments

CONSTANTS
  Deliveries,       \* HTTP requests
  Notifications,    \* raw payloads providers send, with what they parse to
  Hashes,           \* values of responseHash
  NoHash, NoStatus, \* event without responseHash, without status
  NoEvent,          \* the adapter makes nothing of the payload
  NoRecord, NoInput, NoCopy,
  ForeignStatuses   \* statuses other flows may write into a payment row

VARIABLES
  webhookEvents,  \* webhook_events, by dedupe key
  logs,           \* payment_logs: <<delivery, status the payment was given>>
  pc,             \* await at which the delivery is suspended
  input,          \* what was delivered
  existing,       \* local variable existingRecord
  record,         \* local variable webhookRecord
  copy,           \* local variable `payment`
  outcome         \* how the HTTP request was answered

hookVars == <<webhookEvents, logs, pc, input, existing, record, copy, outcome>>
vars == <<payments, hookVars>>

-----------------------------------------------------------------------------

\* WebhookEvent, what provider.handleWebhook makes of a payload.
Events ==
  [merchantReference : PaymentIds \cup {NoReference},
   providerReference : References \cup {NoReference},
   responseHash      : Hashes \cup {NoHash},
   status            : PaymentStatuses \cup {NoStatus}]

\* A payload: its hash is as good as itself.
ASSUME NotificationsAssumption ==
  /\ \A n \in Notifications : n.event \in Events \cup {NoEvent}
  /\ ForeignStatuses \subseteq PaymentStatuses

Inputs == [notification : Notifications, verified : BOOLEAN]

payloadHashKey(n) == <<"payloadHash", n>>

\* createWebhookDedupeKey; an unverified payload is not parsed.
dedupeKey(i) ==
  LET e == i.notification.event IN
  IF ~i.verified \/ e = NoEvent THEN payloadHashKey(i.notification)
  ELSE IF e.responseHash # NoHash THEN <<"responseHash", e.responseHash>>
  ELSE IF e.providerReference # NoReference THEN <<"providerReference", e.providerReference>>
  ELSE payloadHashKey(i.notification)

DedupeKeys ==
  ({"responseHash"} \X Hashes) \cup ({"providerReference"} \X References)
  \cup ({"payloadHash"} \X Notifications)

States == {"STARTED", "SUCCEEDED", "IGNORED", "FAILED"}
Record ==
  [notification : Notifications, state : States,
   resultingPaymentStatus : PaymentStatuses \cup {NoStatus}]

ASSUME MarkersAssumption == NoRecord \notin Record

Key(d)   == dedupeKey(input[d])
Event(d) == input[d].notification.event

Finish(d, o) == /\ pc' = [pc EXCEPT ![d] = "done"]
                /\ outcome' = [outcome EXCEPT ![d] = o]
Goto(d, l)   == /\ pc' = [pc EXCEPT ![d] = l]
                /\ UNCHANGED outcome

\* UPDATE webhook_events SET <every column> WHERE dedupe_key = ...
UpdateRecord(d, rec) ==
  webhookEvents' = [webhookEvents EXCEPT ![Key(d)] = IF @ = NoRecord THEN @ ELSE rec]

\* The object in memory changes, then the statement is sent; where an error of
\* it leads is said by the caller.
StoreRecord(d, rec, acknowledged, raised) ==
  /\ record' = [record EXCEPT ![d] = rec]
  /\ \E o \in DbOutcomes :
       /\ IF Executed(o) THEN UpdateRecord(d, rec) ELSE UNCHANGED webhookEvents
       /\ IF Raised(o) THEN raised ELSE acknowledged

WithState(rec, state) ==
  [notification |-> rec.notification, state |-> state,
   resultingPaymentStatus |-> rec.resultingPaymentStatus]

\* startWebhookRecord
NewRecord(n) == [notification |-> n, state |-> "STARTED", resultingPaymentStatus |-> NoStatus]

-----------------------------------------------------------------------------
(* The method, await by await                                              *)

\* Signature check and parsing; an unparsable payload throws.
Receive(d, i) ==
  /\ pc[d] = "new"
  /\ input' = [input EXCEPT ![d] = i]
  /\ \/ i.verified /\ Goto(d, "findRecord")
     \/ i.verified /\ Finish(d, "error")
     \/ ~i.verified /\ Goto(d, "createInvalid")
  /\ UNCHANGED <<payments, webhookEvents, logs, existing, record, copy>>

\* Where processing goes once there is a STARTED record.
Process(d) ==
  Goto(d, IF Event(d) = NoEvent THEN "ignore"
          ELSE IF Event(d).merchantReference = NoReference THEN "fail"
          ELSE "findPayment")

\* A record that is settled or being processed makes this delivery a duplicate;
\* a FAILED one is taken up again.
FindRecord(d) ==
  LET found == webhookEvents[Key(d)] IN
  /\ pc[d] = "findRecord"
  /\ \/ found = NoRecord /\ Goto(d, "createRecord") /\ UNCHANGED existing
     \/ /\ found # NoRecord /\ found.state # "FAILED"
        /\ Finish(d, "duplicate") /\ UNCHANGED existing
     \/ /\ found # NoRecord /\ found.state = "FAILED"
        /\ existing' = [existing EXCEPT ![d] = found]
        /\ Goto(d, "reopenRecord")
     \/ Finish(d, "error") /\ UNCHANGED existing           \* database error
  /\ UNCHANGED <<payments, webhookEvents, logs, input, record, copy>>

\* The FAILED record is overwritten with this delivery's content.
ReopenRecord(d) ==
  /\ pc[d] = "reopenRecord"
  /\ StoreRecord(d,
       [notification |-> input[d].notification, state |-> "STARTED",
        resultingPaymentStatus |-> existing[d].resultingPaymentStatus],
       Process(d), Goto(d, "catchUpdate"))
  /\ UNCHANGED <<payments, logs, input, existing, copy>>

\* Mutant: an upsert, the later of two first deliveries takes the row over.
CreateRecordByUpsert(d) ==
  LET rec == NewRecord(input[d].notification) IN
  /\ pc[d] \in {"createRecord", "createInvalid"}
  /\ webhookEvents' = [webhookEvents EXCEPT ![Key(d)] = rec]
  /\ record' = [record EXCEPT ![d] = rec]
  /\ IF pc[d] = "createInvalid" THEN Goto(d, "failInvalid") ELSE Process(d)
  /\ UNCHANGED <<payments, logs, input, existing, copy>>

\* startWebhookRecord; until it returns there is no record to mark FAILED.
CreateRecord(d) ==
  LET rec == NewRecord(input[d].notification) IN
  /\ pc[d] \in {"createRecord", "createInvalid"}
  /\ \E o \in DbOutcomes :
       /\ Executed(o) => webhookEvents[Key(d)] = NoRecord
       /\ webhookEvents' = IF Executed(o) THEN [webhookEvents EXCEPT ![Key(d)] = rec]
                           ELSE webhookEvents
       /\ \/ Raised(o) /\ Finish(d, "error") /\ UNCHANGED record
          \/ /\ ~Raised(o)
             /\ record' = [record EXCEPT ![d] = rec]
             /\ IF pc[d] = "createInvalid" THEN Goto(d, "failInvalid") ELSE Process(d)
  /\ UNCHANGED <<payments, logs, input, existing, copy>>

\* An invalid signature: recorded FAILED, then thrown, then caught again below.
FailInvalid(d) ==
  /\ pc[d] = "failInvalid"
  /\ StoreRecord(d, WithState(record[d], "FAILED"),
                 Goto(d, "catchUpdate"), Goto(d, "catchUpdate"))
  /\ UNCHANGED <<payments, logs, input, existing, copy>>

\* No event in the payload; or one without payment, answered with 200 as well.
SettleUnprocessed(d) ==
  LET state == IF pc[d] = "ignore" THEN "IGNORED" ELSE "FAILED" IN
  /\ pc[d] \in {"ignore", "fail"}
  /\ StoreRecord(d, WithState(record[d], state),
                 Finish(d, IF pc[d] = "ignore" THEN "ignored" ELSE "unmatched"),
                 Goto(d, "catchUpdate"))
  /\ UNCHANGED <<payments, logs, input, existing, copy>>

\* The event's reference and status go into the copy: a status the table does
\* not allow is taken over all the same.
Reconciled(row, e) ==
  [status |-> IF e.status = NoStatus THEN row.status ELSE e.status,
   provider |-> row.provider,
   providerReference |-> IF e.providerReference = NoReference THEN row.providerReference
                         ELSE e.providerReference]

FindPayment(d) ==
  LET row == payments[Event(d).merchantReference] IN
  /\ pc[d] = "findPayment"
  /\ \/ row = NoPayment /\ Goto(d, "fail") /\ UNCHANGED copy
     \/ /\ row # NoPayment
        /\ copy' = [copy EXCEPT ![d] = Reconciled(row, Event(d))]
        /\ Goto(d, "updatePayment")
     \/ Goto(d, "catchUpdate") /\ UNCHANGED copy            \* database error
  /\ UNCHANGED <<payments, webhookEvents, logs, input, existing, record>>

UpdatePayment(d) ==
  /\ pc[d] = "updatePayment"
  /\ \E o \in DbOutcomes :
       /\ IF Executed(o) THEN UpdateRow(Event(d).merchantReference, copy[d])
          ELSE UNCHANGED payments
       /\ Goto(d, IF Raised(o) THEN "catchUpdate" ELSE "createLog")
  /\ UNCHANGED <<webhookEvents, logs, input, existing, record, copy>>

\* Mutant: an error of the log write is ignored.
CreateLogIgnoringErrors(d) ==
  /\ pc[d] = "createLog"
  /\ logs' = logs \/ logs' = logs \cup {<<d, copy[d].status>>}
  /\ Goto(d, "succeed")
  /\ UNCHANGED <<payments, webhookEvents, input, existing, record, copy>>

CreateLog(d) ==
  /\ pc[d] = "createLog"
  /\ \E o \in DbOutcomes :
       /\ logs' = IF Executed(o) THEN logs \cup {<<d, copy[d].status>>} ELSE logs
       /\ Goto(d, IF Raised(o) THEN "catchUpdate" ELSE "succeed")
  /\ UNCHANGED <<payments, webhookEvents, input, existing, record, copy>>

\* Mutant: the client is answered whatever became of the statement.
SucceedUnawaited(d) ==
  /\ pc[d] = "succeed"
  /\ StoreRecord(d, [notification |-> record[d].notification, state |-> "SUCCEEDED",
                     resultingPaymentStatus |-> copy[d].status],
                 Finish(d, "processed"), Finish(d, "processed"))
  /\ UNCHANGED <<payments, logs, input, existing, copy>>

Succeed(d) ==
  /\ pc[d] = "succeed"
  /\ StoreRecord(d,
       [notification |-> record[d].notification, state |-> "SUCCEEDED",
        resultingPaymentStatus |-> copy[d].status],
       Finish(d, "processed"), Goto(d, "catchUpdate"))
  /\ UNCHANGED <<payments, logs, input, existing, copy>>

\* Mutant: an error starts the processing again instead of being thrown.
CatchUpdateReprocessing(d) ==
  /\ pc[d] = "catchUpdate"
  /\ StoreRecord(d, WithState(record[d], "FAILED"), Process(d), Process(d))
  /\ UNCHANGED <<payments, logs, input, existing, copy>>

\* The catch block, when there is a record; it throws in any case.
CatchUpdate(d) ==
  /\ pc[d] = "catchUpdate"
  /\ StoreRecord(d, WithState(record[d], "FAILED"),
                 Finish(d, "error"), Finish(d, "error"))
  /\ UNCHANGED <<payments, logs, input, existing, copy>>

-----------------------------------------------------------------------------
(* The surroundings                                                        *)

InFlight(d) == pc[d] \notin {"new", "done", "crashed"}

\* The Node process dies with every delivery it was handling.
Crash ==
  /\ \E d \in Deliveries : InFlight(d)
  /\ pc' = [d \in Deliveries |-> IF InFlight(d) THEN "crashed" ELSE pc[d]]
  /\ UNCHANGED <<payments, webhookEvents, logs, input, existing, record, copy, outcome>>

\* Another flow writes its copy of a payment row.
ForeignWrite(p) ==
  /\ payments[p] # NoPayment
  /\ \E s \in ForeignStatuses :
       UpdateRow(p, [status |-> s, provider |-> payments[p].provider,
                     providerReference |-> payments[p].providerReference])
  /\ UNCHANGED hookVars

-----------------------------------------------------------------------------

Init ==
  /\ payments \in [PaymentIds -> {NoPayment} \cup
       [status : ForeignStatuses, provider : Providers, providerReference : References]]
  /\ webhookEvents = [k \in DedupeKeys |-> NoRecord]
  /\ logs = {}
  /\ pc = [d \in Deliveries |-> "new"]
  /\ input = [d \in Deliveries |-> NoInput]
  /\ existing = [d \in Deliveries |-> NoRecord]
  /\ record = [d \in Deliveries |-> NoRecord]
  /\ copy = [d \in Deliveries |-> NoCopy]
  /\ outcome = [d \in Deliveries |-> "none"]

Resume(d) ==
  \/ FindRecord(d) \/ ReopenRecord(d) \/ CreateRecord(d) \/ FailInvalid(d)
  \/ SettleUnprocessed(d) \/ FindPayment(d) \/ UpdatePayment(d) \/ CreateLog(d)
  \/ Succeed(d) \/ CatchUpdate(d)

Next ==
  \/ \E d \in Deliveries : (\E i \in Inputs : Receive(d, i)) \/ Resume(d)
  \/ Crash
  \/ \E p \in PaymentIds : ForeignWrite(p)

Spec == Init /\ [][Next]_vars

\* Every database call of a live process resolves or rejects.
FairSpec == Spec /\ \A d \in Deliveries : WF_vars(Resume(d))

-----------------------------------------------------------------------------
(* Properties                                                              *)

Labels == {"new", "findRecord", "reopenRecord", "createRecord", "createInvalid",
           "failInvalid", "ignore", "fail", "findPayment", "updatePayment",
           "createLog", "succeed", "catchUpdate", "done", "crashed"}

\* Every table and every delivery's local state has its type.
TypeOK ==
  /\ PaymentsTypeOK
  /\ webhookEvents \in [DedupeKeys -> Record \cup {NoRecord}]
  /\ logs \subseteq Deliveries \X PaymentStatuses
  /\ pc \in [Deliveries -> Labels]
  /\ input \in [Deliveries -> Inputs \cup {NoInput}]
  /\ existing \in [Deliveries -> Record \cup {NoRecord}]
  /\ record \in [Deliveries -> Record \cup {NoRecord}]
  /\ copy \in [Deliveries -> PaymentRow \cup {NoCopy}]
  /\ outcome \in [Deliveries -> {"none", "error", "duplicate", "ignored",
                                 "unmatched", "processed"}]

Logged(d) == \E s \in PaymentStatuses : <<d, s>> \in logs

\* Of the deliveries under one dedupe key, however they interleave, one at most
\* is processed as the first; any other that reaches the payment took up a record
\* it had found FAILED.
OneFirstProcessing ==
  \A d1, d2 \in Deliveries :
    /\ Logged(d1) /\ Logged(d2) /\ Key(d1) = Key(d2)
    /\ existing[d1] = NoRecord /\ existing[d2] = NoRecord
    => d1 = d2

\* A record says SUCCEEDED only if a verified delivery under its key got its
\* payment updated and logged, to the very status the record names.
SucceededIsAudited ==
  \A k \in DedupeKeys :
    webhookEvents[k] # NoRecord /\ webhookEvents[k].state = "SUCCEEDED"
    => \E d \in Deliveries :
         /\ <<d, webhookEvents[k].resultingPaymentStatus>> \in logs
         /\ Key(d) = k /\ input[d].verified
         /\ input[d].notification = webhookEvents[k].notification

\* A callback answered as processed stays recorded SUCCEEDED, whatever other
\* deliveries under its key find, as long as none of them took up the record.
ProcessedIsStored ==
  \A d \in Deliveries :
    /\ outcome[d] = "processed"
    /\ \A e \in Deliveries \ {d} : record[e] # NoRecord => Key(e) # Key(d)
    => webhookEvents[Key(d)] # NoRecord /\ webhookEvents[Key(d)].state = "SUCCEEDED"

\* A delivery the service took up is answered, or dies with the process.
EveryDeliveryEnds == \A d \in Deliveries : InFlight(d) ~> ~InFlight(d)

\* "Invalid transitions MUST be rejected": a callback moves a payment along
\* stateTransitions only.
WebhookMovesForward ==
  [][\A d \in Deliveries : UpdatePayment(d) =>
       LET p == Event(d).merchantReference IN
       \/ payments'[p].status = payments[p].status
       \/ TransitionAllowed(payments[p].status, payments'[p].status)]_vars

\* "Idempotent processing": a callback answered as processed is not processed
\* again; its record never goes back to a state that lets that happen.
ProcessedOnce ==
  [][\A d \in Deliveries : outcome[d] = "processed" =>
       webhookEvents'[Key(d)].state = "SUCCEEDED"]_vars

\* "Duplicate webhook skipped": what is skipped is a repetition of an event.
SkippedIsDuplicate ==
  \A d \in Deliveries : outcome[d] = "duplicate" =>
    \E e \in Deliveries \ {d} : input[e] # NoInput /\ Event(e) = Event(d)

=============================================================================
