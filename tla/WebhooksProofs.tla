--------------------------- MODULE WebhooksProofs ---------------------------
(***************************************************************************)
(* Proofs about Webhooks, for any deliveries, notifications and payments.  *)
(*                                                                         *)
(* What a delivery knows at each await (Local) is stable under the steps   *)
(* of the others because rows of webhook_events are never deleted and a    *)
(* delivery's own variables are its own; who may process first (OneFirst)  *)
(* is decided by the unique key of webhook_events alone.                   *)
(***************************************************************************)
EXTENDS Webhooks, TLAPS

-----------------------------------------------------------------------------
(* The invariant                                                           *)

Verified == {"findRecord", "reopenRecord", "createRecord", "ignore", "fail", "findPayment",
             "updatePayment", "createLog", "succeed"}
Recorded == {"failInvalid", "ignore", "fail", "findPayment", "updatePayment", "createLog",
             "succeed"}
Matched  == {"findPayment", "updatePayment", "createLog", "succeed"}

HasRow(d) == webhookEvents[Key(d)] # NoRecord

\* What delivery d relies on at the await it is suspended at.
Local(d) ==
  /\ pc[d] # "new" => input[d] \in Inputs
  /\ pc[d] \in Verified => input[d].verified
  /\ pc[d] \in {"new", "findRecord", "createRecord", "createInvalid"}
     => record[d] = NoRecord /\ existing[d] = NoRecord
  /\ pc[d] = "reopenRecord" => existing[d] # NoRecord /\ HasRow(d)
  /\ pc[d] \in Recorded => record[d] # NoRecord
  /\ pc[d] = "catchUpdate" => record[d] # NoRecord
  /\ record[d] # NoRecord => /\ record[d].notification = input[d].notification
                             /\ HasRow(d)
  /\ pc[d] \in Matched => /\ Event(d) \in Events
                          /\ Event(d).merchantReference \in PaymentIds
  /\ pc[d] \in {"updatePayment", "createLog", "succeed"} => copy[d] \in PaymentRow
  /\ pc[d] = "succeed" => <<d, copy[d].status>> \in logs
  /\ Logged(d) => record[d] # NoRecord
  /\ outcome[d] = "processed" => pc[d] = "done" /\ record[d] # NoRecord

\* Deliveries of one key that created its row, and did not take one up.
OneFirst ==
  \A d1, d2 \in Deliveries :
    /\ record[d1] # NoRecord /\ existing[d1] = NoRecord
    /\ record[d2] # NoRecord /\ existing[d2] = NoRecord
    /\ Key(d1) = Key(d2)
    => d1 = d2

IInv ==
  /\ TypeOK
  /\ \A d \in Deliveries : Local(d)
  /\ OneFirst
  /\ SucceededIsAudited
  /\ ProcessedIsStored

-----------------------------------------------------------------------------
(* Lemmas about the definitions the steps are made of                      *)

\* What was delivered has a place in webhook_events.
LEMMA KeyType ==
  ASSUME NEW i \in Inputs
  PROVE  /\ dedupeKey(i) \in DedupeKeys
         /\ i.notification \in Notifications
         /\ i.notification.event \in Events \cup {NoEvent}
         /\ i.verified \in BOOLEAN
<1>1. i.notification \in Notifications /\ i.verified \in BOOLEAN
  BY DEF Inputs
<1>2. i.notification.event \in Events \cup {NoEvent}
  BY <1>1, NotificationsAssumption
<1>3. payloadHashKey(i.notification) \in DedupeKeys
  BY <1>1 DEF payloadHashKey, DedupeKeys
<1>4. \A h \in Hashes : <<"responseHash", h>> \in DedupeKeys
  BY DEF DedupeKeys
<1>5. \A r \in References : <<"providerReference", r>> \in DedupeKeys
  BY DEF DedupeKeys
<1>6. ASSUME i.notification.event \in Events
      PROVE  /\ i.notification.event.responseHash \in Hashes \cup {NoHash}
             /\ i.notification.event.providerReference \in References \cup {NoReference}
  BY <1>6 DEF Events
<1>7. dedupeKey(i) \in DedupeKeys
  BY <1>2, <1>3, <1>4, <1>5, <1>6 DEF dedupeKey
<1>. QED  BY <1>1, <1>2, <1>7

\* A record with another state is a record, and about the same notification.
LEMMA WithStateType ==
  ASSUME NEW rec \in Record, NEW state \in States
  PROVE  /\ WithState(rec, state) \in Record
         /\ WithState(rec, state).notification = rec.notification
         /\ WithState(rec, state).state = state
BY DEF WithState, Record

\* What the callback makes of the row it read is a row.
LEMMA ReconciledType ==
  ASSUME NEW row \in PaymentRow, NEW e \in Events
  PROVE  Reconciled(row, e) \in PaymentRow
<1>1. /\ e.status \in PaymentStatuses \cup {NoStatus}
      /\ e.providerReference \in References \cup {NoReference}
  BY DEF Events
<1>2. /\ row.status \in PaymentStatuses /\ row.provider \in Providers
      /\ row.providerReference \in References \cup {NoReference}
  BY DEF PaymentRow
<1>. QED  BY <1>1, <1>2 DEF Reconciled, PaymentRow

LEMMA UpdateRowType ==
  ASSUME PaymentsTypeOK, NEW p, NEW row \in PaymentRow, UpdateRow(p, row)
  PROVE  PaymentsTypeOK'
BY DEF PaymentsTypeOK, UpdateRow

\* Where processing goes, and what it knows there.
LEMMA ProcessGoes ==
  ASSUME TypeOK, NEW d \in Deliveries, input[d] \in Inputs, Process(d)
  PROVE  /\ outcome' = outcome
         /\ \E l \in {"ignore", "fail", "findPayment"} :
              /\ pc' = [pc EXCEPT ![d] = l]
              /\ l = "findPayment" => /\ Event(d) \in Events
                                      /\ Event(d).merchantReference \in PaymentIds
<1>1. Event(d) \in Events \cup {NoEvent}
  BY KeyType DEF Event
<1>2. Event(d) \in Events => Event(d).merchantReference \in PaymentIds \cup {NoReference}
  BY DEF Events
<1>. QED  BY <1>1, <1>2 DEF Process, Goto

-----------------------------------------------------------------------------
(* What a step of one delivery leaves to the others                        *)

\* Only d's own variables and the logs of d change.
OnlyOwn(d) ==
  /\ \A e \in Deliveries \ {d} :
       /\ pc'[e] = pc[e] /\ input'[e] = input[e] /\ existing'[e] = existing[e]
       /\ record'[e] = record[e] /\ copy'[e] = copy[e] /\ outcome'[e] = outcome[e]
       /\ \A s \in PaymentStatuses : <<e, s>> \in logs' => <<e, s>> \in logs
  /\ logs \subseteq logs'

\* At most d's row changes, and no row disappears.
OwnRow(d) ==
  /\ \A k \in DedupeKeys : webhookEvents[k] # NoRecord => webhookEvents'[k] # NoRecord
  /\ \A k \in DedupeKeys \ {Key(d)} : webhookEvents'[k] = webhookEvents[k]

LEMMA OthersKeep ==
  ASSUME IInv, NEW d \in Deliveries, OnlyOwn(d), OwnRow(d), NEW e \in Deliveries \ {d}
  PROVE  Local(e)'
<1>. USE DEF IInv
<1>1. /\ pc'[e] = pc[e] /\ input'[e] = input[e] /\ existing'[e] = existing[e]
      /\ record'[e] = record[e] /\ copy'[e] = copy[e] /\ outcome'[e] = outcome[e]
  BY DEF OnlyOwn
<1>2. Logged(e)' => Logged(e)
  BY DEF OnlyOwn, Logged
<1>3. Local(e)
  OBVIOUS
<1>4. HasRow(e) /\ input[e] \in Inputs => HasRow(e)'
  BY <1>1, KeyType DEF OwnRow, HasRow, Key
<1>5. pc[e] = "succeed" => <<e, copy'[e].status>> \in logs'
  BY <1>1, <1>3 DEF OnlyOwn, Local
<1>6. (record[e] # NoRecord \/ pc[e] = "reopenRecord") => input[e] \in Inputs
  BY <1>3 DEF Local
<1>7. Event(e)' = Event(e)
  BY <1>1 DEF Event
<1>. QED  BY <1>1, <1>2, <1>3, <1>4, <1>5, <1>6, <1>7 DEF Local

\* Who came first stays so, unless d finds the row missing and creates it.
LEMMA FirstStays ==
  ASSUME IInv, NEW d \in Deliveries, OnlyOwn(d),
         \/ record'[d] = NoRecord \/ existing'[d] # NoRecord
         \/ /\ record[d] # NoRecord /\ existing[d] = NoRecord
            /\ input'[d] = input[d]
         \/ ~HasRow(d) /\ input'[d] = input[d]
  PROVE  OneFirst'
<1>. USE DEF IInv
<1>1. SUFFICES ASSUME NEW d1 \in Deliveries, NEW d2 \in Deliveries,
                      record'[d1] # NoRecord, existing'[d1] = NoRecord,
                      record'[d2] # NoRecord, existing'[d2] = NoRecord,
                      Key(d1)' = Key(d2)', d1 # d2
               PROVE  FALSE
  BY DEF OneFirst
<1>2. \A e \in Deliveries \ {d} :
        /\ record'[e] = record[e] /\ existing'[e] = existing[e]
        /\ Key(e)' = Key(e)
        /\ record[e] # NoRecord => HasRow(e)
  BY DEF OnlyOwn, Key, Local
<1>3. d1 = d \/ d2 = d
  BY <1>1, <1>2 DEF OneFirst
<1>4. Key(d)' = Key(d)
  BY <1>1, <1>3 DEF Key
<1>5. CASE record[d] # NoRecord /\ existing[d] = NoRecord
  BY <1>1, <1>2, <1>3, <1>4, <1>5 DEF OneFirst
<1>6. CASE ~HasRow(d)
  BY <1>1, <1>2, <1>3, <1>4, <1>6 DEF HasRow
<1>. QED  BY <1>1, <1>3, <1>5, <1>6

\* Audited records stay so if d makes its own say SUCCEEDED only when it is.
LEMMA AuditedStays ==
  ASSUME IInv, NEW d \in Deliveries, OnlyOwn(d), OwnRow(d),
         record[d] # NoRecord => input'[d] = input[d],
         \/ webhookEvents'[Key(d)] = webhookEvents[Key(d)]
         \/ webhookEvents'[Key(d)].state # "SUCCEEDED"
         \/ /\ <<d, webhookEvents'[Key(d)].resultingPaymentStatus>> \in logs'
            /\ input'[d] = input[d] /\ input[d].verified
            /\ input[d].notification = webhookEvents'[Key(d)].notification
  PROVE  SucceededIsAudited'
<1>. USE DEF IInv
<1>1. SUFFICES ASSUME NEW k \in DedupeKeys, webhookEvents'[k] # NoRecord,
                      webhookEvents'[k].state = "SUCCEEDED"
               PROVE  \E e \in Deliveries :
                        /\ <<e, webhookEvents'[k].resultingPaymentStatus>> \in logs'
                        /\ Key(e)' = k /\ input'[e].verified
                        /\ input'[e].notification = webhookEvents'[k].notification
  BY DEF SucceededIsAudited
<1>. SUFFICES ASSUME webhookEvents'[k] = webhookEvents[k]
              PROVE  \E e \in Deliveries :
                       /\ <<e, webhookEvents'[k].resultingPaymentStatus>> \in logs'
                       /\ Key(e)' = k /\ input'[e].verified
                       /\ input'[e].notification = webhookEvents'[k].notification
  BY <1>1 DEF OwnRow, Key
<1>3. PICK e \in Deliveries :
        /\ <<e, webhookEvents[k].resultingPaymentStatus>> \in logs
        /\ Key(e) = k /\ input[e].verified
        /\ input[e].notification = webhookEvents[k].notification
  BY <1>1 DEF SucceededIsAudited
<1>4. Logged(e)
  BY <1>3 DEF Logged, TypeOK
<1>5. input'[e] = input[e]
  BY <1>4 DEF OnlyOwn, Local
<1>. QED  BY <1>3, <1>5 DEF OnlyOwn, Key

\* What was answered as processed stays stored, if d is answered so only when it is.
LEMMA StoredStays ==
  ASSUME IInv, NEW d \in Deliveries, OnlyOwn(d), OwnRow(d),
         record[d] # NoRecord => record'[d] # NoRecord /\ input'[d] = input[d],
         \/ webhookEvents'[Key(d)] = webhookEvents[Key(d)]
         \/ ~HasRow(d)
         \/ record'[d] # NoRecord /\ input'[d] = input[d],
         outcome'[d] = "processed" =>
           webhookEvents'[Key(d)'] # NoRecord /\ webhookEvents'[Key(d)'].state = "SUCCEEDED"
  PROVE  ProcessedIsStored'
<1>. USE DEF IInv
<1>1. SUFFICES ASSUME NEW e \in Deliveries, outcome'[e] = "processed",
                      \A f \in Deliveries \ {e} : record'[f] # NoRecord => Key(f)' # Key(e)'
               PROVE  /\ webhookEvents'[Key(e)'] # NoRecord
                      /\ webhookEvents'[Key(e)'].state = "SUCCEEDED"
  BY DEF ProcessedIsStored
<1>2. SUFFICES ASSUME e # d
               PROVE  /\ webhookEvents'[Key(e)'] # NoRecord
                      /\ webhookEvents'[Key(e)'].state = "SUCCEEDED"
  BY <1>1
<1>3. /\ outcome[e] = "processed" /\ Key(e)' = Key(e)
      /\ record[e] # NoRecord /\ HasRow(e) /\ Key(e) \in DedupeKeys
  BY <1>1, <1>2, KeyType DEF OnlyOwn, Key, Local
<1>4. \A f \in Deliveries \ {e} : record[f] # NoRecord => Key(f) # Key(e)
  BY <1>1, <1>3 DEF OnlyOwn, Key
<1>5. webhookEvents[Key(e)] # NoRecord /\ webhookEvents[Key(e)].state = "SUCCEEDED"
  BY <1>3, <1>4 DEF ProcessedIsStored
<1>6. webhookEvents'[Key(e)] = webhookEvents[Key(e)]
  <2>1. CASE record'[d] # NoRecord /\ input'[d] = input[d]
    <3>1. Key(d) # Key(e)
      BY <1>1, <1>2, <1>3, <2>1 DEF Key
    <3>. QED  BY <1>3, <3>1 DEF OwnRow
  <2>2. CASE ~HasRow(d)
    <3>1. Key(d) # Key(e)
      BY <1>3, <2>2 DEF HasRow
    <3>. QED  BY <1>3, <3>1 DEF OwnRow
  <2>3. CASE webhookEvents'[Key(d)] = webhookEvents[Key(d)]
    BY <1>3, <2>3 DEF OwnRow
  <2>. QED  BY <2>1, <2>2, <2>3
<1>. QED  BY <1>3, <1>5, <1>6

-----------------------------------------------------------------------------
(* Steps that leave webhook_events alone                                   *)

LEMMA RowsUntouched ==
  ASSUME IInv, TypeOK', NEW d \in Deliveries, OnlyOwn(d), Local(d)',
         webhookEvents' = webhookEvents, record' = record,
         record[d] # NoRecord => input'[d] = input[d],
         existing[d] # NoRecord => existing'[d] # NoRecord,
         outcome'[d] # "processed"
  PROVE  IInv'
<1>1. OwnRow(d)
  BY DEF OwnRow
<1>2. \A e \in Deliveries \ {d} : Local(e)'
  BY <1>1, OthersKeep
<1>3. OneFirst'
  BY FirstStays
<1>4. SucceededIsAudited'
  BY <1>1, AuditedStays
<1>5. ProcessedIsStored'
  BY <1>1, StoredStays
<1>. QED  BY <1>2, <1>3, <1>4, <1>5 DEF IInv

LEMMA ReceiveStep ==
  ASSUME IInv, NEW d \in Deliveries, NEW i \in Inputs, Receive(d, i)
  PROVE  IInv'
<1>. USE DEF IInv
<1>1. /\ pc[d] = "new" /\ input' = [input EXCEPT ![d] = i]
      /\ webhookEvents' = webhookEvents /\ record' = record /\ existing' = existing
      /\ copy' = copy /\ logs' = logs /\ payments' = payments
      /\ record[d] = NoRecord /\ existing[d] = NoRecord /\ ~Logged(d)
      /\ outcome[d] # "processed"
  BY DEF Receive, Local
<1>2. \/ i.verified /\ pc' = [pc EXCEPT ![d] = "findRecord"] /\ outcome' = outcome
      \/ pc' = [pc EXCEPT ![d] = "done"] /\ outcome' = [outcome EXCEPT ![d] = "error"]
      \/ pc' = [pc EXCEPT ![d] = "createInvalid"] /\ outcome' = outcome
  BY DEF Receive, Goto, Finish
<1>3. TypeOK'
  BY <1>1, <1>2 DEF TypeOK, PaymentsTypeOK, Labels
<1>4. OnlyOwn(d)
  BY <1>1, <1>2 DEF OnlyOwn, TypeOK
<1>5. outcome'[d] # "processed"
  BY <1>1, <1>2 DEF TypeOK
<1>6. Local(d)'
  <2>1. input'[d] = i
    BY <1>1 DEF TypeOK
  <2>2. pc'[d] \in {"findRecord", "done", "createInvalid"} /\ (pc'[d] = "findRecord" => i.verified)
    BY <1>2 DEF TypeOK
  <2>3. ~Logged(d)'
    BY <1>1 DEF Logged
  <2>. QED  BY <1>1, <1>5, <2>1, <2>2, <2>3 DEF Local, Verified, Recorded, Matched
<1>. QED  BY <1>1, <1>3, <1>4, <1>5, <1>6, RowsUntouched

LEMMA FindRecordStep ==
  ASSUME IInv, NEW d \in Deliveries, FindRecord(d)
  PROVE  IInv'
<1>. USE DEF IInv
<1>1. /\ pc[d] = "findRecord" /\ input' = input
      /\ webhookEvents' = webhookEvents /\ record' = record
      /\ copy' = copy /\ logs' = logs /\ payments' = payments
      /\ record[d] = NoRecord /\ existing[d] = NoRecord /\ ~Logged(d)
      /\ outcome[d] # "processed" /\ input[d].verified /\ input[d] \in Inputs
  BY DEF FindRecord, Local, Verified
<1>2. \/ /\ pc' = [pc EXCEPT ![d] = "createRecord"] /\ outcome' = outcome
         /\ existing' = existing
      \/ /\ pc' = [pc EXCEPT ![d] = "done"] /\ existing' = existing
         /\ outcome' \in {[outcome EXCEPT ![d] = "error"], [outcome EXCEPT ![d] = "duplicate"]}
      \/ /\ pc' = [pc EXCEPT ![d] = "reopenRecord"] /\ outcome' = outcome
         /\ HasRow(d) /\ existing' = [existing EXCEPT ![d] = webhookEvents[Key(d)]]
  BY DEF FindRecord, Goto, Finish, HasRow
<1>3. webhookEvents[Key(d)] \in Record \cup {NoRecord}
  BY <1>1, KeyType DEF TypeOK, Key
<1>4. TypeOK'
  BY <1>1, <1>2, <1>3 DEF TypeOK, PaymentsTypeOK, Labels
<1>5. OnlyOwn(d)
  BY <1>1, <1>2 DEF OnlyOwn, TypeOK
<1>6. outcome'[d] # "processed"
  BY <1>1, <1>2 DEF TypeOK
<1>7. Local(d)'
  <2>1. /\ pc'[d] \in {"createRecord", "done", "reopenRecord"}
        /\ pc'[d] = "createRecord" => existing'[d] = NoRecord
        /\ pc'[d] = "reopenRecord" => existing'[d] # NoRecord /\ HasRow(d)
    BY <1>1, <1>2 DEF TypeOK, HasRow
  <2>2. ~Logged(d)' /\ HasRow(d)' = HasRow(d)
    BY <1>1 DEF Logged, HasRow, Key
  <2>. QED  BY <1>1, <1>6, <2>1, <2>2 DEF Local, Verified, Recorded, Matched
<1>. QED  BY <1>1, <1>4, <1>5, <1>6, <1>7, RowsUntouched

LEMMA FindPaymentStep ==
  ASSUME IInv, NEW d \in Deliveries, FindPayment(d)
  PROVE  IInv'
<1>. USE DEF IInv
<1>1. /\ pc[d] = "findPayment" /\ input' = input /\ existing' = existing
      /\ webhookEvents' = webhookEvents /\ record' = record
      /\ logs' = logs /\ payments' = payments
      /\ record[d] # NoRecord /\ record[d].notification = input[d].notification /\ HasRow(d)
      /\ outcome[d] # "processed" /\ input[d].verified /\ input[d] \in Inputs
      /\ Event(d) \in Events /\ Event(d).merchantReference \in PaymentIds
  BY DEF FindPayment, Local, Verified, Recorded, Matched
<1>2. /\ outcome' = outcome
      /\ \/ /\ pc' \in {[pc EXCEPT ![d] = "fail"], [pc EXCEPT ![d] = "catchUpdate"]}
            /\ copy' = copy
         \/ /\ pc' = [pc EXCEPT ![d] = "updatePayment"]
            /\ payments[Event(d).merchantReference] # NoPayment
            /\ copy' = [copy EXCEPT ![d] =
                          Reconciled(payments[Event(d).merchantReference], Event(d))]
  BY DEF FindPayment, Goto
<1>3. payments[Event(d).merchantReference] # NoPayment
      => Reconciled(payments[Event(d).merchantReference], Event(d)) \in PaymentRow
  BY <1>1, ReconciledType DEF TypeOK, PaymentsTypeOK
<1>4. TypeOK'
  BY <1>1, <1>2, <1>3 DEF TypeOK, PaymentsTypeOK, Labels
<1>5. OnlyOwn(d)
  BY <1>1, <1>2 DEF OnlyOwn, TypeOK
<1>6. Local(d)'
  <2>1. /\ pc'[d] \in {"fail", "catchUpdate", "updatePayment"}
        /\ pc'[d] = "updatePayment" => copy'[d] \in PaymentRow
    BY <1>2, <1>3 DEF TypeOK
  <2>2. HasRow(d)' /\ Event(d)' = Event(d)
    BY <1>1 DEF HasRow, Key, Event
  <2>. QED  BY <1>1, <1>2, <2>1, <2>2 DEF Local, Verified, Recorded, Matched
<1>. QED  BY <1>1, <1>2, <1>4, <1>5, <1>6, RowsUntouched

LEMMA UpdatePaymentStep ==
  ASSUME IInv, NEW d \in Deliveries, UpdatePayment(d)
  PROVE  IInv'
<1>. USE DEF IInv
<1>1. /\ pc[d] = "updatePayment" /\ input' = input /\ existing' = existing
      /\ webhookEvents' = webhookEvents /\ record' = record
      /\ logs' = logs /\ copy' = copy /\ outcome' = outcome
      /\ pc' \in {[pc EXCEPT ![d] = "createLog"], [pc EXCEPT ![d] = "catchUpdate"]}
      /\ record[d] # NoRecord /\ record[d].notification = input[d].notification /\ HasRow(d)
      /\ outcome[d] # "processed" /\ input[d].verified /\ input[d] \in Inputs
      /\ Event(d) \in Events /\ Event(d).merchantReference \in PaymentIds
      /\ copy[d] \in PaymentRow
  BY DEF UpdatePayment, Goto, Local, Verified, Recorded, Matched
<1>2. PaymentsTypeOK'
  <2>1. \/ UpdateRow(Event(d).merchantReference, copy[d])
        \/ payments' = payments
    BY DEF UpdatePayment
  <2>. QED  BY <1>1, <2>1, UpdateRowType DEF TypeOK, PaymentsTypeOK
<1>3. TypeOK'
  BY <1>1, <1>2 DEF TypeOK, Labels
<1>4. OnlyOwn(d)
  BY <1>1 DEF OnlyOwn, TypeOK
<1>5. Local(d)'
  <2>1. pc'[d] \in {"createLog", "catchUpdate"}
    BY <1>1 DEF TypeOK
  <2>2. HasRow(d)' /\ Event(d)' = Event(d)
    BY <1>1 DEF HasRow, Key, Event
  <2>. QED  BY <1>1, <2>1, <2>2 DEF Local, Verified, Recorded, Matched
<1>. QED  BY <1>1, <1>3, <1>4, <1>5, RowsUntouched

LEMMA CreateLogStep ==
  ASSUME IInv, NEW d \in Deliveries, CreateLog(d)
  PROVE  IInv'
<1>. USE DEF IInv
<1>1. /\ pc[d] = "createLog" /\ input' = input /\ existing' = existing
      /\ webhookEvents' = webhookEvents /\ record' = record
      /\ payments' = payments /\ copy' = copy
      /\ record[d] # NoRecord /\ record[d].notification = input[d].notification /\ HasRow(d)
      /\ outcome[d] # "processed" /\ input[d].verified /\ input[d] \in Inputs
      /\ Event(d) \in Events /\ Event(d).merchantReference \in PaymentIds
      /\ copy[d] \in PaymentRow
  BY DEF CreateLog, Local, Verified, Recorded, Matched
<1>2. /\ logs' \in {logs, logs \cup {<<d, copy[d].status>>}} /\ outcome' = outcome
      /\ \/ pc' = [pc EXCEPT ![d] = "catchUpdate"]
         \/ pc' = [pc EXCEPT ![d] = "succeed"] /\ <<d, copy[d].status>> \in logs'
  BY DEF CreateLog, Goto, Executed, Raised, DbOutcomes
<1>3. copy[d].status \in PaymentStatuses
  BY <1>1 DEF PaymentRow
<1>4. TypeOK'
  BY <1>1, <1>2, <1>3 DEF TypeOK, PaymentsTypeOK, Labels
<1>5. OnlyOwn(d)
  BY <1>1, <1>2 DEF OnlyOwn, TypeOK
<1>6. Local(d)'
  <2>1. /\ pc'[d] \in {"succeed", "catchUpdate"}
        /\ pc'[d] = "succeed" => <<d, copy[d].status>> \in logs'
    BY <1>2 DEF TypeOK
  <2>2. HasRow(d)' /\ Event(d)' = Event(d)
    BY <1>1 DEF HasRow, Key, Event
  <2>. QED  BY <1>1, <1>2, <2>1, <2>2 DEF Local, Verified, Recorded, Matched
<1>. QED  BY <1>1, <1>2, <1>4, <1>5, <1>6, RowsUntouched

-----------------------------------------------------------------------------
(* Steps that write the delivery's record                                  *)

\* d stores rec in memory, and in its row unless the statement failed.
Stores(d, rec) ==
  /\ record' = [record EXCEPT ![d] = rec]
  /\ webhookEvents' \in {webhookEvents, [webhookEvents EXCEPT ![Key(d)] = rec]}
  /\ UNCHANGED <<payments, logs, input, existing, copy>>

\* StoreRecord finds the row and writes it, unless an error is raised.
LEMMA StoreRecordEffect ==
  ASSUME TypeOK, NEW d \in Deliveries, input[d] \in Inputs, HasRow(d), NEW rec \in Record
  PROVE  [webhookEvents EXCEPT ![Key(d)] = IF @ = NoRecord THEN @ ELSE rec]
         = [webhookEvents EXCEPT ![Key(d)] = rec]
BY DEF HasRow

LEMMA StoresKeepsRows ==
  ASSUME TypeOK, NEW d \in Deliveries, input[d] \in Inputs, NEW rec \in Record,
         Stores(d, rec), HasRow(d)
  PROVE  /\ OwnRow(d) /\ HasRow(d)'
         /\ webhookEvents' \in [DedupeKeys -> Record \cup {NoRecord}]
         /\ record' \in [Deliveries -> Record \cup {NoRecord}]
         /\ record'[d] = rec /\ rec # NoRecord
         /\ \/ webhookEvents'[Key(d)] = webhookEvents[Key(d)]
            \/ webhookEvents'[Key(d)] = rec
<1>1. Key(d) \in DedupeKeys
  BY KeyType DEF Key
<1>. QED  BY <1>1, MarkersAssumption DEF Stores, OwnRow, HasRow, TypeOK, Key

\* Storing anything but a success keeps the invariant.
LEMMA Storing ==
  ASSUME IInv, NEW d \in Deliveries, input[d] \in Inputs, HasRow(d),
         NEW rec \in Record, rec.state # "SUCCEEDED",
         rec.notification = input[d].notification, Stores(d, rec),
         existing[d] = NoRecord => record[d] # NoRecord,
         NEW l \in {"done", "catchUpdate", "ignore", "fail", "findPayment"},
         pc' = [pc EXCEPT ![d] = l],
         l \in Verified => input[d].verified,
         l = "findPayment" => /\ Event(d) \in Events
                              /\ Event(d).merchantReference \in PaymentIds,
         \/ outcome' = outcome /\ outcome[d] # "processed"
         \/ \E o \in {"error", "ignored", "unmatched"} : outcome' = [outcome EXCEPT ![d] = o]
  PROVE  IInv'
<1>. USE DEF IInv
<1>1. /\ OwnRow(d) /\ HasRow(d)'
      /\ webhookEvents' \in [DedupeKeys -> Record \cup {NoRecord}]
      /\ record' \in [Deliveries -> Record \cup {NoRecord}]
      /\ record'[d] = rec /\ rec # NoRecord
      /\ \/ webhookEvents'[Key(d)] = webhookEvents[Key(d)]
         \/ webhookEvents'[Key(d)] = rec
  BY StoresKeepsRows
<1>2. /\ record' = [record EXCEPT ![d] = rec]
      /\ payments' = payments /\ logs' = logs /\ input' = input
      /\ existing' = existing /\ copy' = copy
  BY DEF Stores
<1>3. TypeOK'
  BY <1>1, <1>2 DEF TypeOK, PaymentsTypeOK, Labels
<1>4. OnlyOwn(d)
  BY <1>2 DEF OnlyOwn, TypeOK
<1>5. outcome'[d] # "processed"
  BY DEF TypeOK
<1>6. Local(d)'
  <2>1. pc'[d] = l
    BY DEF TypeOK
  <2>2. Event(d)' = Event(d)
    BY <1>2 DEF Event
  <2>. QED  BY <1>1, <1>2, <1>5, <2>1, <2>2 DEF Local, Verified, Recorded, Matched
<1>7. \A e \in Deliveries \ {d} : Local(e)'
  BY <1>1, <1>4, OthersKeep
<1>8. OneFirst'
  BY <1>2, <1>4, FirstStays
<1>9. SucceededIsAudited'
  BY <1>1, <1>2, <1>4, AuditedStays
<1>10. ProcessedIsStored'
  BY <1>1, <1>2, <1>4, <1>5, StoredStays
<1>. QED  BY <1>3, <1>6, <1>7, <1>8, <1>9, <1>10

LEMMA ReopenRecordStep ==
  ASSUME IInv, NEW d \in Deliveries, ReopenRecord(d)
  PROVE  IInv'
<1>. USE DEF IInv
<1> DEFINE rec == [notification |-> input[d].notification, state |-> "STARTED",
                   resultingPaymentStatus |-> existing[d].resultingPaymentStatus]
<1>1. /\ input[d] \in Inputs /\ input[d].verified /\ HasRow(d)
      /\ existing[d] # NoRecord /\ outcome[d] # "processed"
  BY DEF ReopenRecord, Local, Verified
<1>2. existing[d] \in Record
  BY <1>1 DEF TypeOK
<1>3. rec \in Record
  BY <1>1, <1>2, KeyType DEF Record, States
<1>4. /\ Stores(d, rec)
      /\ Process(d) \/ Goto(d, "catchUpdate")
  BY <1>1, <1>3, StoreRecordEffect
     DEF ReopenRecord, StoreRecord, UpdateRecord, Stores
<1>5. \E l \in {"catchUpdate", "ignore", "fail", "findPayment"} :
        /\ pc' = [pc EXCEPT ![d] = l] /\ outcome' = outcome
        /\ l = "findPayment" => /\ Event(d) \in Events
                                /\ Event(d).merchantReference \in PaymentIds
  BY <1>1, <1>4, ProcessGoes DEF Goto
<1>6. PICK l \in {"catchUpdate", "ignore", "fail", "findPayment"} :
        /\ pc' = [pc EXCEPT ![d] = l] /\ outcome' = outcome
        /\ l = "findPayment" => /\ Event(d) \in Events
                                /\ Event(d).merchantReference \in PaymentIds
  BY <1>5
<1>7. rec.state # "SUCCEEDED" /\ rec.notification = input[d].notification
  OBVIOUS
<1>. HIDE DEF rec
<1>. QED  BY <1>1, <1>3, <1>4, <1>6, <1>7, Storing

\* Marking the record FAILED or IGNORED.
LEMMA SettleStep ==
  ASSUME IInv, NEW d \in Deliveries,
         FailInvalid(d) \/ SettleUnprocessed(d) \/ CatchUpdate(d)
  PROVE  IInv'
<1>. USE DEF IInv
<1>1. /\ pc[d] \in {"failInvalid", "ignore", "fail", "catchUpdate"}
      /\ input[d] \in Inputs /\ HasRow(d) /\ outcome[d] # "processed"
      /\ record[d] # NoRecord /\ record[d].notification = input[d].notification
  BY DEF FailInvalid, SettleUnprocessed, CatchUpdate, Local, Recorded
<1>2. record[d] \in Record
  BY <1>1 DEF TypeOK
<1>3. PICK state \in {"FAILED", "IGNORED"} :
        StoreRecord(d, WithState(record[d], state),
          \/ Goto(d, "catchUpdate")
          \/ Finish(d, "error") \/ Finish(d, "ignored") \/ Finish(d, "unmatched"),
          \/ Goto(d, "catchUpdate")
          \/ Finish(d, "error"))
        /\ UNCHANGED <<payments, logs, input, existing, copy>>
  BY DEF FailInvalid, SettleUnprocessed, CatchUpdate, StoreRecord
<1> DEFINE rec == WithState(record[d], state)
<1>4. rec \in Record /\ rec.notification = input[d].notification /\ rec.state # "SUCCEEDED"
  BY <1>1, <1>2, WithStateType DEF States
<1>5. /\ Stores(d, rec)
      /\ \/ Goto(d, "catchUpdate")
         \/ \E o \in {"error", "ignored", "unmatched"} : Finish(d, o)
  BY <1>1, <1>3, <1>4, StoreRecordEffect DEF StoreRecord, UpdateRecord, Stores
<1>6. \/ pc' = [pc EXCEPT ![d] = "catchUpdate"] /\ outcome' = outcome
      \/ /\ pc' = [pc EXCEPT ![d] = "done"]
         /\ \E o \in {"error", "ignored", "unmatched"} : outcome' = [outcome EXCEPT ![d] = o]
  BY <1>5 DEF Goto, Finish
<1>7. "catchUpdate" \notin Verified /\ "done" \notin Verified
  BY DEF Verified
<1>. HIDE DEF rec
<1>. QED  BY <1>1, <1>4, <1>5, <1>6, <1>7, Storing

\* The unique key lets one delivery create the row; with an error the delivery
\* does not know whether it did.
LEMMA CreateRecordStep ==
  ASSUME IInv, NEW d \in Deliveries, CreateRecord(d)
  PROVE  IInv'
<1>. USE DEF IInv
<1> DEFINE rec == NewRecord(input[d].notification)
<1>1. /\ pc[d] \in {"createRecord", "createInvalid"}
      /\ input[d] \in Inputs /\ record[d] = NoRecord /\ existing[d] = NoRecord
      /\ pc[d] = "createRecord" => input[d].verified
      /\ outcome[d] # "processed" /\ ~Logged(d)
      /\ payments' = payments /\ logs' = logs /\ input' = input
      /\ existing' = existing /\ copy' = copy
  BY DEF CreateRecord, Local, Verified
<1>2. /\ rec \in Record /\ rec.notification = input[d].notification
      /\ rec.state = "STARTED" /\ rec # NoRecord
  BY <1>1, KeyType, MarkersAssumption DEF NewRecord, Record, States
<1>3. Key(d) \in DedupeKeys
  BY <1>1, KeyType DEF Key
<1>4. \/ webhookEvents' = webhookEvents
      \/ ~HasRow(d) /\ webhookEvents' = [webhookEvents EXCEPT ![Key(d)] = rec]
  BY DEF CreateRecord, HasRow
<1>5. \/ Finish(d, "error") /\ record' = record
      \/ /\ ~HasRow(d) /\ webhookEvents' = [webhookEvents EXCEPT ![Key(d)] = rec]
         /\ record' = [record EXCEPT ![d] = rec]
         /\ \/ pc[d] = "createInvalid" /\ Goto(d, "failInvalid")
            \/ pc[d] = "createRecord" /\ Process(d)
  BY <1>1 DEF CreateRecord, HasRow, Executed, Raised, DbOutcomes
<1>. HIDE DEF rec
<1>6. /\ OwnRow(d)
      /\ webhookEvents' \in [DedupeKeys -> Record \cup {NoRecord}]
      /\ \/ webhookEvents'[Key(d)] = webhookEvents[Key(d)]
         \/ ~HasRow(d) /\ webhookEvents'[Key(d)].state = "STARTED"
  BY <1>2, <1>3, <1>4 DEF OwnRow, TypeOK
<1>7. CASE Finish(d, "error") /\ record' = record
  <2>1. pc' = [pc EXCEPT ![d] = "done"] /\ outcome' = [outcome EXCEPT ![d] = "error"]
    BY <1>7 DEF Finish
  <2>2. TypeOK'
    BY <1>1, <1>6, <1>7, <2>1 DEF TypeOK, PaymentsTypeOK, Labels
  <2>3. OnlyOwn(d)
    BY <1>1, <1>7, <2>1 DEF OnlyOwn, TypeOK
  <2>4. ~Logged(d)'
    BY <1>1 DEF Logged
  <2>5. pc'[d] = "done" /\ outcome'[d] = "error"
    BY <2>1 DEF TypeOK
  <2>6. Local(d)'
    BY <1>1, <1>7, <2>4, <2>5 DEF Local, Verified, Recorded, Matched
  <2>7. \A e \in Deliveries \ {d} : Local(e)'
    BY <1>6, <2>3, OthersKeep
  <2>8. OneFirst'
    BY <1>1, <1>7, <2>3, FirstStays
  <2>9. SucceededIsAudited'
    BY <1>1, <1>6, <2>3, AuditedStays
  <2>10. ProcessedIsStored'
    BY <1>1, <1>6, <2>3, <2>5, StoredStays
  <2>. QED  BY <2>2, <2>6, <2>7, <2>8, <2>9, <2>10
<1>8. CASE /\ ~HasRow(d) /\ webhookEvents' = [webhookEvents EXCEPT ![Key(d)] = rec]
           /\ record' = [record EXCEPT ![d] = rec]
           /\ \/ pc[d] = "createInvalid" /\ Goto(d, "failInvalid")
              \/ pc[d] = "createRecord" /\ Process(d)
  <2>1. \E l \in {"failInvalid", "ignore", "fail", "findPayment"} :
          /\ pc' = [pc EXCEPT ![d] = l] /\ outcome' = outcome
          /\ l # "failInvalid" => input[d].verified
          /\ l = "findPayment" => /\ Event(d) \in Events
                                  /\ Event(d).merchantReference \in PaymentIds
    BY <1>1, <1>8, ProcessGoes DEF Goto
  <2>2. PICK l \in {"failInvalid", "ignore", "fail", "findPayment"} :
          /\ pc' = [pc EXCEPT ![d] = l] /\ outcome' = outcome
          /\ l # "failInvalid" => input[d].verified
          /\ l = "findPayment" => /\ Event(d) \in Events
                                  /\ Event(d).merchantReference \in PaymentIds
    BY <2>1
  <2>3. TypeOK'
    BY <1>1, <1>2, <1>6, <1>8, <2>2 DEF TypeOK, PaymentsTypeOK, Labels
  <2>4. OnlyOwn(d)
    BY <1>1, <1>8, <2>2 DEF OnlyOwn, TypeOK
  <2>5. pc'[d] = l /\ record'[d] = rec
    BY <1>8, <2>2 DEF TypeOK
  <2>6. HasRow(d)' /\ Event(d)' = Event(d)
    <3>1. webhookEvents'[Key(d)] = rec
      BY <1>3, <1>8 DEF TypeOK
    <3>. QED  BY <1>1, <1>2, <3>1 DEF HasRow, Key, Event
  <2>7. Local(d)'
    BY <1>1, <1>2, <2>2, <2>5, <2>6 DEF Local, Verified, Recorded, Matched
  <2>8. \A e \in Deliveries \ {d} : Local(e)'
    BY <1>6, <2>4, OthersKeep
  <2>9. OneFirst'
    BY <1>1, <1>8, <2>4, FirstStays
  <2>10. SucceededIsAudited'
    BY <1>1, <1>6, <2>4, AuditedStays
  <2>11. ProcessedIsStored'
    BY <1>1, <1>6, <1>8, <2>2, <2>4, StoredStays
  <2>. QED  BY <2>3, <2>7, <2>8, <2>9, <2>10, <2>11
<1>. QED  BY <1>5, <1>7, <1>8

\* The one step that makes a record say SUCCEEDED.
LEMMA SucceedStep ==
  ASSUME IInv, NEW d \in Deliveries, Succeed(d)
  PROVE  IInv'
<1>. USE DEF IInv
<1> DEFINE rec == [notification |-> record[d].notification, state |-> "SUCCEEDED",
                   resultingPaymentStatus |-> copy[d].status]
<1>1. /\ pc[d] = "succeed" /\ input[d] \in Inputs /\ input[d].verified /\ HasRow(d)
      /\ record[d] # NoRecord /\ record[d].notification = input[d].notification
      /\ copy[d] \in PaymentRow /\ <<d, copy[d].status>> \in logs
      /\ outcome[d] # "processed"
  BY DEF Succeed, Local, Verified, Recorded
<1>2. /\ rec \in Record /\ rec.notification = input[d].notification
      /\ rec.state = "SUCCEEDED" /\ rec.resultingPaymentStatus = copy[d].status
  BY <1>1, KeyType DEF Record, States, PaymentRow
<1>3. [webhookEvents EXCEPT ![Key(d)] = IF @ = NoRecord THEN @ ELSE rec]
      = [webhookEvents EXCEPT ![Key(d)] = rec]
  BY <1>1, <1>2, StoreRecordEffect
<1>4. /\ Stores(d, rec)
      /\ \/ Finish(d, "processed") /\ webhookEvents' = [webhookEvents EXCEPT ![Key(d)] = rec]
         \/ Goto(d, "catchUpdate")
  BY <1>3 DEF Succeed, StoreRecord, UpdateRecord, Stores, Executed, Raised, DbOutcomes
<1>. HIDE DEF rec
<1>5. /\ OwnRow(d) /\ HasRow(d)'
      /\ webhookEvents' \in [DedupeKeys -> Record \cup {NoRecord}]
      /\ record' \in [Deliveries -> Record \cup {NoRecord}]
      /\ record'[d] = rec /\ rec # NoRecord
      /\ \/ webhookEvents'[Key(d)] = webhookEvents[Key(d)]
         \/ webhookEvents'[Key(d)] = rec
  BY <1>1, <1>2, <1>4, StoresKeepsRows
<1>6. /\ record' = [record EXCEPT ![d] = rec]
      /\ payments' = payments /\ logs' = logs /\ input' = input
      /\ existing' = existing /\ copy' = copy
  BY <1>4 DEF Stores
<1>7. \/ pc' = [pc EXCEPT ![d] = "done"] /\ outcome' = [outcome EXCEPT ![d] = "processed"]
      \/ pc' = [pc EXCEPT ![d] = "catchUpdate"] /\ outcome' = outcome
  BY <1>4 DEF Goto, Finish
<1>8. TypeOK'
  BY <1>5, <1>6, <1>7 DEF TypeOK, PaymentsTypeOK, Labels
<1>9. OnlyOwn(d)
  BY <1>6, <1>7 DEF OnlyOwn, TypeOK
<1>10. Local(d)'
  <2>1. \/ pc'[d] = "done" /\ outcome'[d] = "processed"
        \/ pc'[d] = "catchUpdate" /\ outcome'[d] = outcome[d]
    BY <1>7 DEF TypeOK
  <2>. QED  BY <1>1, <1>2, <1>5, <1>6, <2>1 DEF Local, Verified, Recorded, Matched
<1>11. \A e \in Deliveries \ {d} : Local(e)'
  BY <1>5, <1>9, OthersKeep
<1>12. OneFirst'
  BY <1>1, <1>6, <1>9, FirstStays
<1>13. SucceededIsAudited'
  BY <1>1, <1>2, <1>5, <1>6, <1>9, AuditedStays
<1>14. ProcessedIsStored'
  <2>1. outcome'[d] = "processed"
        => webhookEvents'[Key(d)'] # NoRecord /\ webhookEvents'[Key(d)'].state = "SUCCEEDED"
    <3>1. outcome'[d] = "processed" => webhookEvents' = [webhookEvents EXCEPT ![Key(d)] = rec]
      BY <1>1, <1>4 DEF Goto, TypeOK
    <3>2. Key(d)' = Key(d) /\ Key(d) \in DedupeKeys
      BY <1>1, <1>6, KeyType DEF Key
    <3>. QED  BY <1>2, <1>5, <3>1, <3>2 DEF TypeOK
  <2>. QED  BY <1>5, <1>6, <1>9, <2>1, StoredStays
<1>. QED  BY <1>8, <1>10, <1>11, <1>12, <1>13, <1>14

-----------------------------------------------------------------------------
(* The surroundings                                                        *)

LEMMA CrashStep ==
  ASSUME IInv, Crash
  PROVE  IInv'
<1>. USE DEF IInv
<1>1. /\ payments' = payments /\ webhookEvents' = webhookEvents /\ logs' = logs
      /\ input' = input /\ existing' = existing /\ record' = record /\ copy' = copy
      /\ outcome' = outcome
  BY DEF Crash
<1>2. TypeOK'
  BY <1>1 DEF TypeOK, PaymentsTypeOK, Crash, Labels
<1>3. ASSUME NEW d \in Deliveries
      PROVE  Local(d)'
  <2>1. pc'[d] \in {pc[d], "crashed"} /\ (pc[d] = "done" => pc'[d] = "done")
    BY DEF Crash, InFlight
  <2>2. Local(d) /\ (Logged(d)' <=> Logged(d)) /\ Event(d)' = Event(d)
        /\ (HasRow(d)' <=> HasRow(d))
    BY <1>1 DEF Logged, Event, HasRow, Key
  <2>3. pc'[d] = "crashed" => pc[d] # "new"
    <3>1. pc'[d] = IF InFlight(d) THEN "crashed" ELSE pc[d]
      BY DEF Crash
    <3>. QED  BY <3>1 DEF InFlight
  <2>. QED  BY <1>1, <2>1, <2>2, <2>3 DEF Local, Verified, Recorded, Matched
<1>4. OneFirst' /\ SucceededIsAudited' /\ ProcessedIsStored'
  BY <1>1 DEF OneFirst, SucceededIsAudited, ProcessedIsStored, Key
<1>. QED  BY <1>2, <1>3, <1>4

\* Steps that do not touch the callbacks' state.
LEMMA HookVarsUntouched ==
  ASSUME IInv, PaymentsTypeOK', UNCHANGED hookVars
  PROVE  IInv'
<1>. USE DEF IInv
<1>1. /\ webhookEvents' = webhookEvents /\ logs' = logs /\ pc' = pc
      /\ input' = input /\ existing' = existing /\ record' = record /\ copy' = copy
      /\ outcome' = outcome
  BY DEF hookVars
<1>2. TypeOK'
  BY <1>1 DEF TypeOK
<1>3. ASSUME NEW d \in Deliveries
      PROVE  Local(d)'
  <2>1. Local(d) /\ (Logged(d)' <=> Logged(d)) /\ Event(d)' = Event(d)
        /\ (HasRow(d)' <=> HasRow(d))
    BY <1>1 DEF Logged, Event, HasRow, Key
  <2>. QED  BY <1>1, <2>1 DEF Local
<1>4. OneFirst' /\ SucceededIsAudited' /\ ProcessedIsStored'
  BY <1>1 DEF OneFirst, SucceededIsAudited, ProcessedIsStored, Key
<1>. QED  BY <1>2, <1>3, <1>4

LEMMA ForeignWriteStep ==
  ASSUME IInv, NEW p \in PaymentIds, ForeignWrite(p)
  PROVE  IInv'
<1>1. payments[p] \in PaymentRow
  BY DEF ForeignWrite, IInv, TypeOK, PaymentsTypeOK
<1>2. PICK s \in ForeignStatuses :
        UpdateRow(p, [status |-> s, provider |-> payments[p].provider,
                      providerReference |-> payments[p].providerReference])
  BY DEF ForeignWrite
<1>3. [status |-> s, provider |-> payments[p].provider,
       providerReference |-> payments[p].providerReference] \in PaymentRow
  BY <1>1, NotificationsAssumption DEF PaymentRow
<1>4. PaymentsTypeOK'
  BY <1>2, <1>3, UpdateRowType DEF IInv, TypeOK
<1>. QED  BY <1>4, HookVarsUntouched DEF ForeignWrite

-----------------------------------------------------------------------------
(* The invariant holds                                                     *)

LEMMA InitIInv == Init => IInv
<1>. SUFFICES ASSUME Init
              PROVE  IInv
  OBVIOUS
<1>1. PaymentsTypeOK
  BY NotificationsAssumption DEF Init, PaymentsTypeOK, PaymentRow
<1>2. TypeOK
  BY <1>1 DEF Init, TypeOK, Labels
<1>3. ASSUME NEW d \in Deliveries
      PROVE  Local(d)
  BY DEF Init, Local, Verified, Recorded, Matched, Logged
<1>4. OneFirst /\ SucceededIsAudited /\ ProcessedIsStored
  BY KeyType DEF Init, OneFirst, SucceededIsAudited, ProcessedIsStored
<1>. QED  BY <1>2, <1>3, <1>4 DEF IInv

\* What deliveries rely on at each await, and what the tables say, holds
\* throughout: in every state, of any number of deliveries and crashes.
THEOREM Invariance == Spec => []IInv
<1>1. IInv /\ [Next]_vars => IInv'
  <2>. SUFFICES ASSUME IInv, [Next]_vars
                PROVE  IInv'
    OBVIOUS
  <2>1. ASSUME NEW d \in Deliveries, NEW i \in Inputs, Receive(d, i)
        PROVE  IInv'
    BY <2>1, ReceiveStep
  <2>2. ASSUME NEW d \in Deliveries, Resume(d)
        PROVE  IInv'
    BY <2>2, FindRecordStep, ReopenRecordStep, CreateRecordStep, SettleStep,
       FindPaymentStep, UpdatePaymentStep, CreateLogStep, SucceedStep DEF Resume
  <2>3. CASE Crash
    BY <2>3, CrashStep
  <2>4. ASSUME NEW p \in PaymentIds, ForeignWrite(p)
        PROVE  IInv'
    BY <2>4, ForeignWriteStep
  <2>5. CASE UNCHANGED vars
    BY <2>5, HookVarsUntouched DEF vars, IInv, TypeOK, PaymentsTypeOK
  <2>. QED  BY <2>1, <2>2, <2>3, <2>4, <2>5 DEF Next
<1>. QED  BY <1>1, InitIInv, PTL DEF Spec

\* Every table and every delivery's local state always has its type.
THEOREM TypeCorrect == Spec => []TypeOK
<1>1. IInv => TypeOK
  BY DEF IInv
<1>. QED  BY <1>1, Invariance, PTL

\* However many deliveries of one event race, one at most processes it as the
\* first: what the unique key of webhook_events is for.
THEOREM OneDeliveryProcessesFirst == Spec => []OneFirstProcessing
<1>1. IInv => OneFirstProcessing
  BY DEF IInv, OneFirst, OneFirstProcessing, Local
<1>. QED  BY <1>1, Invariance, PTL

\* No record says SUCCEEDED without the payment having been updated and logged.
THEOREM SucceededRecordsAreAudited == Spec => []SucceededIsAudited
<1>1. IInv => SucceededIsAudited
  BY DEF IInv
<1>. QED  BY <1>1, Invariance, PTL

\* A callback answered as processed is recorded so until another delivery takes
\* the record up.
THEOREM ProcessedCallbacksAreStored == Spec => []ProcessedIsStored
<1>1. IInv => ProcessedIsStored
  BY DEF IInv
<1>. QED  BY <1>1, Invariance, PTL

=============================================================================
