---------------------- MODULE ConnectionLifecycleProofs ----------------------
(***************************************************************************)
(* Proofs about ConnectionLifecycle, for any number of Items and banks and *)
(* any Trial limit.                                                        *)
(***************************************************************************)
EXTENDS ConnectionLifecycle, FiniteSetTheorems, TLAPS

-----------------------------------------------------------------------------
(* Types *)

\* A rotation under way has a next key version: the settings change only when
\* it ends.
NextVersionExists == rotation # {} => envKey < MaxVersion

TypeInv == TypeOK /\ NextVersionExists

LEMMA RequestedType == ASSUME NEW state \in JobStates PROVE Requested(state) \in JobStates
  BY DEF Requested, JobStates

LEMMA AnswerType == ASSUME NEW i \in Items PROVE Answer(i) \in PassStates
  BY DEF Answer, PassStates

LEMMA OlderType == ASSUME NEW age \in Ages PROVE Older(age) \in Ages
  BY DEF Older, Ages

LEMMA NoRowType == NoRow \in Row
  BY LimitsAssumption DEF NoRow, Row, Errors, Ages

LEMMA RowWithError ==
    ASSUME NEW r \in Row, NEW e \in Errors
    PROVE  [r EXCEPT !.error = e] \in Row /\ [r EXCEPT !.error = e].status = r.status
  BY DEF Row

LEMMA RowWithKey ==
    ASSUME NEW r \in Row, NEW k \in 0 .. MaxVersion
    PROVE  [r EXCEPT !.key = k] \in Row /\ [r EXCEPT !.key = k].status = r.status
  BY DEF Row

\* A webhook changes nothing of a row but its error.
LEMMA NotedRow ==
    ASSUME row \in [Items -> Row], NEW i \in Items, NEW code \in WebhookCodes
    PROVE  /\ Noted(i, code) \in [Items -> Row]
           /\ \A j \in Items : Noted(i, code)[j].status = row[j].status
<1> DEFINE e == IF code = "data" THEN row[i].error ELSE code
           r == [row[i] EXCEPT !.error = e]
<1>1. row[i] \in Row
  OBVIOUS
<1>2. e \in Errors
  BY <1>1 DEF Row, Errors, WebhookCodes
<1>3. r \in Row /\ r.status = row[i].status
  BY <1>1, <1>2, RowWithError
<1>4. Noted(i, code) = [row EXCEPT ![i] = r]
  BY DEF Noted
<1> HIDE DEF r
<1> QED BY <1>3, <1>4

LEMMA TypeInit == Init => TypeInv
  BY NoRowType, LimitsAssumption
  DEF Init, TypeInv, TypeOK, NextVersionExists, ItemStates, JobStates, PassStates

LEMMA TypeStep == TypeInv /\ [Next]_vars => TypeInv'
<1> SUFFICES ASSUME TypeInv, [Next]_vars PROVE TypeInv'
  OBVIOUS
<1> USE LimitsAssumption DEF TypeInv, TypeOK, NextVersionExists, provider, settings,
       history
<1>1. ASSUME NEW b \in Banks, OpenLink(b) \/ ExchangeRejected(b) PROVE TypeInv'
  <2>1. CASE OpenLink(b)
    <3>1. links' = [links EXCEPT ![b] = @ + 1]
      BY <2>1, Zenon DEF OpenLink
    <3>2. UNCHANGED <<provider, row, job, pass, sweep, rotation, settings, history,
                      mishaps>>
      BY <2>1, Zenon DEF OpenLink
    <3> QED BY <3>1, <3>2
  <2>2. CASE ExchangeRejected(b)
    BY <2>2 DEF ExchangeRejected
  <2> QED BY <1>1, <2>1, <2>2
<1>2. ASSUME NEW b \in Banks, NEW i \in Items, Exchange(b, i) PROVE TypeInv'
  <2>1. item' \in [Items -> ItemStates]
    BY <1>2 DEF Exchange, ItemStates
  <2>2. row' \in [Items -> Row]
    <3>1. [NoRow EXCEPT !.status = "active", !.bank = b, !.key = appKey] \in Row
      BY NoRowType DEF NoRow, Row
    <3>2. [NoRow EXCEPT !.status = "removed", !.bank = b, !.error = "other"] \in Row
      BY NoRowType DEF NoRow, Row, Errors
    <3> QED BY <1>2, <3>1, <3>2 DEF Exchange, Tombstone
  <2>3. job' \in [Items -> JobStates]
    BY <1>2 DEF Exchange, JobStates
  <2>4. /\ links' \in [Banks -> Nat]
        /\ lost' \subseteq Items
        /\ late' \subseteq Items
        /\ mishaps' \in Nat
    BY <1>2 DEF Exchange, Mishap
  <2> QED BY <1>2, <2>1, <2>2, <2>3, <2>4 DEF Exchange
<1>3. ASSUME NEW i \in Items, Disconnect(i) PROVE TypeInv'
  <2>1. [NoRow EXCEPT !.status = "removed", !.bank = row[i].bank] \in Row
    BY NoRowType DEF NoRow, Row
  <2> QED BY <1>3, <2>1 DEF Disconnect, ItemStates, Mishap
<1>4. ASSUME NEW i \in Items, Sync(i) \/ Reconnect(i) PROVE TypeInv'
  <2>1. job' \in [Items -> JobStates]
    BY <1>4, RequestedType DEF Sync, Reconnect
  <2>2. item' \in [Items -> ItemStates] /\ mishaps' \in Nat
    BY <1>4 DEF Sync, Reconnect, ItemStates, Mishap
  <2> QED BY <1>4, <2>1, <2>2 DEF Sync, Reconnect
<1>5. ASSUME NEW i \in Items, NEW code \in WebhookCodes, Webhook(i, code)
      PROVE TypeInv'
  <2>1. job' \in [Items -> JobStates]
    BY <1>5, RequestedType DEF Webhook
  <2>2. row' \in [Items -> Row]
    BY <1>5, NotedRow DEF Webhook
  <2> QED BY <1>5, <2>1, <2>2 DEF Webhook, Mishap
<1>6. ASSUME NEW i \in Items, NEW code \in WebhookCodes, BankEvent(i, code)
      PROVE TypeInv'
  BY <1>6 DEF BankEvent, ItemStates, WebhookCodes
<1>7. CASE SweepReads
  BY <1>7 DEF SweepReads, Stale
<1>8. CASE SweepWrites
  BY <1>8, RequestedType DEF SweepWrites
<1>9. CASE HourPasses
  BY <1>9, OlderType DEF HourPasses, Row
<1>10. ASSUME NEW i \in Items, PassStarts(i) PROVE TypeInv'
  BY <1>10, AnswerType DEF PassStarts, JobStates, PassStates, Mishap
<1>11. ASSUME NEW i \in Items, PassSucceeds(i) PROVE TypeInv'
  BY ZenonT(30), <1>11 DEF PassSucceeds, Applied, Row, JobStates, PassStates, Ages, Errors
<1>12. ASSUME NEW i \in Items, PassFails(i) PROVE TypeInv'
  <2>1. row' \in [Items -> Row]
    BY SMTT(20), <1>12 DEF PassFails, Failed, Row, Errors
  <2>2. job' \in [Items -> JobStates] /\ pass' \in [Items -> PassStates]
    BY <1>12 DEF PassFails, JobStates, PassStates
  <2> QED BY <1>12, <2>1, <2>2 DEF PassFails
<1>13. CASE Stop
  BY <1>13 DEF Stop, JobStates, PassStates, Mishap
<1>14. CASE Restart
  BY <1>14, RequestedType DEF Restart
<1>15. CASE RotationReads
  BY <1>15 DEF RotationReads, Stored
<1>16. CASE RotationWrites
  <2>1. row' \in [Items -> Row]
    <3>1. CASE Rotated(rotation)
      <4>1. rotation # {} /\ envKey + 1 \in 0 .. MaxVersion
        BY <1>16 DEF RotationWrites
      <4>2. \A j \in Items : [row[j] EXCEPT !.key = envKey + 1] \in Row
        BY <4>1, RowWithKey
      <4> QED BY <3>1, <4>2 DEF Rotated
    <3> QED BY <1>16, <3>1 DEF RotationWrites
  <2>2. late' \subseteq Items /\ mishaps' \in Nat
    BY <1>16 DEF RotationWrites, Stored, Mishap
  <2> QED BY <1>16, <2>1, <2>2 DEF RotationWrites
<1>17. CASE UNCHANGED vars
  BY <1>17 DEF vars
<1> QED
  BY <1>1, <1>2, <1>3, <1>4, <1>5, <1>6, <1>7, <1>8, <1>9, <1>10, <1>11, <1>12,
     <1>13, <1>14, <1>15, <1>16, <1>17 DEF Next

\* Every state is of its type: what a pass reports is always one of the classes
\* that the health of a connection is derived from (SyncWorker._record_failure,
\* classify_error_code).
THEOREM TypeCorrect == Spec => []TypeOK
<1>1. Spec => []TypeInv
  BY TypeInit, TypeStep, PTL DEF Spec
<1> QED BY <1>1, PTL DEF TypeInv

-----------------------------------------------------------------------------
(* Slots of the Trial plan *)

\* Every Item counts, unless its exchange failed after it was created; and what
\* is counted respects the limit.
ItemsCounted ==
    /\ \A i \in Items : item[i] # "none" => i \in lost \/ row[i].status # "none"
    /\ ItemCount <= TrialLimit

Counted == {i \in Items : row[i].status # "none"}

LEMMA CountedFinite == IsFiniteSet(Counted) /\ Cardinality(Counted) \in Nat
  BY ItemsAssumption, FS_Subset, FS_CardinalityType DEF Counted

LEMMA ItemsCountedInit == Init => ItemsCounted
<1> SUFFICES ASSUME Init PROVE ItemsCounted
  OBVIOUS
<1>1. Counted = {}
  BY DEF Init, NoRow, Counted
<1>2. ItemCount = 0
  BY <1>1, FS_EmptySet DEF ItemCount, Counted
<1> QED BY <1>2, LimitsAssumption DEF ItemsCounted, Init

\* Only an exchange creates an Item or a row.
Kept ==
    /\ \A i \in Items : item'[i] = "none" \/ item[i] # "none" \/ row[i].status # "none"
    /\ \A i \in Items : row'[i].status = "none" <=> row[i].status = "none"
    /\ lost' = lost

LEMMA OnlyExchangeCreates ==
    ASSUME TypeOK, [Next]_vars
    PROVE  Kept \/ \E b \in Banks, i \in Items : Exchange(b, i)
<1> USE DEF Kept, TypeOK, provider, settings, history
<1>1. ASSUME NEW b \in Banks, OpenLink(b) \/ ExchangeRejected(b) PROVE Kept
  BY <1>1 DEF OpenLink, ExchangeRejected
<1>2. ASSUME NEW i \in Items, Disconnect(i) PROVE Kept
  <2>1. row[i].status # "none"
        /\ [NoRow EXCEPT !.status = "removed", !.bank = row[i].bank].status = "removed"
    BY <1>2 DEF Disconnect, Active, NoRow
  <2>2. \A j \in Items : row'[j].status = "none" <=> row[j].status = "none"
    BY <1>2, <2>1 DEF Disconnect
  <2>3. \A j \in Items : item'[j] = "none" \/ item[j] # "none" \/ row[j].status # "none"
    BY <1>2, <2>1 DEF Disconnect
  <2> QED BY <1>2, <2>2, <2>3 DEF Disconnect
<1>3. ASSUME NEW i \in Items, Sync(i) \/ Reconnect(i) PROVE Kept
  BY <1>3 DEF Sync, Reconnect
<1>4. ASSUME NEW i \in Items, NEW code \in WebhookCodes,
             Webhook(i, code) \/ BankEvent(i, code)
      PROVE Kept
  <2>1. ASSUME Webhook(i, code) PROVE Kept
    <3>1. \A j \in Items : row'[j].status = row[j].status
      BY <2>1, NotedRow DEF Webhook
    <3> QED BY <2>1, <3>1 DEF Webhook
  <2>2. ASSUME BankEvent(i, code) PROVE Kept
    <3>1. \A j \in Items : item'[j] = "none" \/ item[j] # "none"
      BY <2>2 DEF BankEvent
    <3> QED BY <2>2, <3>1 DEF BankEvent
  <2> QED BY <1>4, <2>1, <2>2
<1>5. CASE SweepReads \/ SweepWrites
  BY <1>5 DEF SweepReads, SweepWrites
<1>6. CASE HourPasses
  BY <1>6 DEF HourPasses, Row
<1>7. ASSUME NEW i \in Items, PassStarts(i) \/ PassSucceeds(i) \/ PassFails(i)
      PROVE Kept
  <2>1. ASSUME NEW r \in Row, NEW code
        PROVE  Applied(r).status = r.status /\ Failed(r, code).status = r.status
    BY DEF Applied, Failed, Row
  <2>2. \A j \in Items : row'[j].status = row[j].status
    BY <1>7, <2>1 DEF PassStarts, PassSucceeds, PassFails
  <2> QED BY <1>7, <2>2 DEF PassStarts, PassSucceeds, PassFails
<1>8. CASE Stop \/ Restart \/ RotationReads
  BY <1>8 DEF Stop, Restart, RotationReads
<1>9. CASE RotationWrites
  BY <1>9 DEF RotationWrites, Rotated, Row
<1>10. CASE UNCHANGED vars
  BY <1>10 DEF vars
<1> QED
  BY <1>1, <1>2, <1>3, <1>4, <1>5, <1>6, <1>7, <1>8, <1>9, <1>10 DEF Next

LEMMA ItemsCountedStep ==
    TypeOK /\ ItemsCounted /\ [Next]_vars => ItemsCounted'
<1> SUFFICES ASSUME TypeOK, ItemsCounted, [Next]_vars PROVE ItemsCounted'
  OBVIOUS
<1>1. CASE Kept
  <2>1. Counted' = Counted
    BY <1>1 DEF Kept, Counted
  <2>2. ItemCount' = ItemCount
    BY <2>1 DEF ItemCount, Counted
  <2> QED BY <1>1, <2>2 DEF ItemsCounted, Kept
<1>2. ASSUME NEW b \in Banks, NEW i \in Items, Exchange(b, i) PROVE ItemsCounted'
  <2>1. Counted' \subseteq Counted \cup {i}
    BY <1>2 DEF Exchange, Tombstone, NoRow, Counted, TypeOK, Row
  <2>2. IsFiniteSet(Counted \cup {i})
        /\ Cardinality(Counted \cup {i}) <= Cardinality(Counted) + 1
    <3>1. Cardinality(Counted \cup {i}) =
            IF i \in Counted THEN Cardinality(Counted) ELSE Cardinality(Counted) + 1
      BY CountedFinite, FS_AddElement
    <3> QED BY <3>1, CountedFinite, FS_AddElement
  <2>3. Cardinality(Counted') <= Cardinality(Counted \cup {i})
        /\ Cardinality(Counted') \in Nat /\ Cardinality(Counted \cup {i}) \in Nat
    BY <2>1, <2>2, FS_Subset, FS_CardinalityType
  <2>4. Cardinality(Counted) < TrialLimit
    BY <1>2 DEF Exchange, Admitted, ItemCount, Counted
  <2>5. ItemCount' <= TrialLimit
    <3>1. ItemCount' = Cardinality(Counted')
      BY DEF ItemCount, Counted
    <3> QED BY <2>2, <2>3, <2>4, <3>1, CountedFinite, LimitsAssumption
  <2>6. ASSUME NEW j \in Items, item'[j] # "none"
        PROVE  j \in lost' \/ row'[j].status # "none"
    <3>1. \A k \in Items \ {i} : item'[k] = item[k]
      BY <1>2 DEF Exchange, TypeOK
    <3>2. CASE row' = row /\ lost' = lost \cup {i}
      BY <2>6, <3>1, <3>2 DEF ItemsCounted, TypeOK
    <3>3. ASSUME NEW r, row' = [row EXCEPT ![i] = r], r.status # "none", lost' = lost,
                 \A k \in Items \ {i} : item'[k] = item[k]
          PROVE j \in lost' \/ row'[j].status # "none"
      BY <2>6, <3>3 DEF ItemsCounted, TypeOK
    <3>4. [NoRow EXCEPT !.status = "active", !.bank = b, !.key = appKey].status = "active"
          /\ [NoRow EXCEPT !.status = "removed", !.bank = b, !.error = "other"].status
                = "removed"
      BY DEF NoRow
    <3>5. \/ lost' = lost /\ (\E r : row' = [row EXCEPT ![i] = r] /\ r.status # "none")
          \/ row' = row /\ lost' = lost \cup {i}
      BY <1>2, <3>4 DEF Exchange, Tombstone, history
    <3> QED BY <3>1, <3>2, <3>3, <3>5
  <2> QED BY <2>5, <2>6 DEF ItemsCounted
<1> QED BY <1>1, <1>2, OnlyExchangeCreates

\* The Trial limit holds for every Item the provider has created, except those
\* of exchanges that failed midway (exchange_public_token, disconnect).
THEOREM SlotsAlwaysCounted == Spec => []SlotsCounted
<1>1. ItemsCounted => SlotsCounted
  <2> SUFFICES ASSUME ItemsCounted PROVE SlotsCounted
    OBVIOUS
  <2>1. Created \subseteq Counted
    BY DEF ItemsCounted, Created, Counted
  <2>2. Cardinality(Created) <= Cardinality(Counted)
        /\ Cardinality(Created) \in Nat
    BY <2>1, CountedFinite, FS_Subset, FS_CardinalityType
  <2>3. ItemCount = Cardinality(Counted)
    BY DEF ItemCount, Counted
  <2> QED
    BY <2>1, <2>2, <2>3, CountedFinite, LimitsAssumption
    DEF SlotsCounted, ItemsCounted, Counted
<1>2. Spec => []TypeOK
  BY TypeCorrect
<1>3. Spec => []ItemsCounted
  BY <1>2, ItemsCountedInit, ItemsCountedStep, PTL DEF Spec
<1> QED BY <1>1, <1>3, PTL

-----------------------------------------------------------------------------
(* Banks *)

LEMMA OneConnectionStep ==
    TypeOK /\ OneConnectionPerBank /\ [Next]_vars => OneConnectionPerBank'
<1> SUFFICES ASSUME TypeOK, OneConnectionPerBank, [Next]_vars
             PROVE  OneConnectionPerBank'
  OBVIOUS
<1> USE DEF TypeOK, OneConnectionPerBank, Active, provider, settings, history
<1> DEFINE SameBanks == \A i \in Items :
              row'[i].status = "active" =>
                  row[i].status = "active" /\ row'[i].bank = row[i].bank
<1>1. SameBanks => OneConnectionPerBank'
  OBVIOUS
<1>2. ASSUME NEW b \in Banks, OpenLink(b) \/ ExchangeRejected(b) PROVE SameBanks
  BY <1>2 DEF OpenLink, ExchangeRejected
<1>3. ASSUME NEW b \in Banks, NEW i \in Items, Exchange(b, i)
      PROVE  OneConnectionPerBank'
  <2>1. \A j \in Items : row[j].status = "active" => row[j].bank # b
    BY <1>3 DEF Exchange, Admitted, Connected
  <2>2. ASSUME NEW r, row' = [row EXCEPT ![i] = r],
               r.status = "active" => r.bank = b /\ BankOf[i] = b
        PROVE  OneConnectionPerBank'
    BY <2>1, <2>2
  <2>3. CASE row' = row
    BY <2>3
  <2>4. /\ [NoRow EXCEPT !.status = "active", !.bank = b, !.key = appKey].bank = b
        /\ [NoRow EXCEPT !.status = "removed", !.bank = b, !.error = "other"].status
              = "removed"
    BY DEF NoRow
  <2> QED BY <1>3, <2>2, <2>3, <2>4 DEF Exchange, Tombstone
<1>4. ASSUME NEW i \in Items, Disconnect(i) PROVE SameBanks
  <2>1. [NoRow EXCEPT !.status = "removed", !.bank = row[i].bank].status = "removed"
    BY DEF NoRow
  <2> QED BY <1>4, <2>1 DEF Disconnect
<1>5. ASSUME NEW i \in Items, Sync(i) \/ Reconnect(i) PROVE SameBanks
  BY <1>5 DEF Sync, Reconnect
<1>6. ASSUME NEW i \in Items, NEW code \in WebhookCodes,
             Webhook(i, code) \/ BankEvent(i, code)
      PROVE SameBanks
  BY <1>6 DEF Webhook, BankEvent, Noted, Row
<1>7. CASE SweepReads \/ SweepWrites
  BY <1>7 DEF SweepReads, SweepWrites
<1>8. CASE HourPasses
  BY <1>8 DEF HourPasses, Row
<1>9. ASSUME NEW i \in Items, PassStarts(i) \/ PassSucceeds(i) \/ PassFails(i)
      PROVE SameBanks
  <2>1. ASSUME NEW r \in Row, NEW code
        PROVE  /\ Applied(r).status = r.status /\ Applied(r).bank = r.bank
               /\ Failed(r, code).status = r.status /\ Failed(r, code).bank = r.bank
    BY DEF Applied, Failed, Row
  <2> QED BY SMTT(20), <1>9, <2>1 DEF PassStarts, PassSucceeds, PassFails
<1>10. CASE Stop \/ Restart \/ RotationReads
  BY <1>10 DEF Stop, Restart, RotationReads
<1>11. CASE RotationWrites
  <2>1. SameBanks
    BY <1>11 DEF RotationWrites, Rotated, Row
  <2> QED BY <1>1, <2>1
<1>12. CASE UNCHANGED vars
  BY <1>12 DEF vars
<1> HIDE DEF SameBanks, TypeOK, OneConnectionPerBank, Active, provider, settings,
             history
<1> QED
  BY <1>1, <1>2, <1>3, <1>4, <1>5, <1>6, <1>7, <1>8, <1>9, <1>10, <1>11, <1>12
  DEF Next

\* However many Link sessions are open at once, a bank has one active connection,
\* and it is the bank that was chosen (exchange_public_token).
THEOREM BankConnectedOnce == Spec => []OneConnectionPerBank
<1>1. Init => OneConnectionPerBank
  BY DEF Init, OneConnectionPerBank, Active, NoRow
<1>2. Spec => []TypeOK
  BY TypeCorrect
<1> QED BY <1>1, <1>2, OneConnectionStep, PTL DEF Spec

-----------------------------------------------------------------------------
(* Keys *)

\* Apart from late ones, a connection has a token encrypted with the key in the
\* settings exactly while it is active.  What a rotation has read needs no place
\* in the invariant: a token that is not what it was when it was read is late as
\* soon as the rotation writes, and one linked under an old key is late at once.
KeysAgree ==
    \A i \in Items \ late :
        /\ row[i].status = "removed" => row[i].key = 0
        /\ row[i].status = "active" => row[i].key = envKey

LEMMA KeysAgreeStep == TypeOK /\ KeysAgree /\ [Next]_vars => KeysAgree'
<1> SUFFICES ASSUME TypeOK, KeysAgree, [Next]_vars PROVE KeysAgree'
  OBVIOUS
<1> USE DEF TypeOK, KeysAgree, Up, provider, settings, history
<1> DEFINE SameKeys ==
        /\ \A i \in Items : row'[i].status = row[i].status /\ row'[i].key = row[i].key
        /\ UNCHANGED <<envKey, late>>
<1>1. SameKeys => KeysAgree'
  OBVIOUS
<1>2. ASSUME NEW b \in Banks, OpenLink(b) \/ ExchangeRejected(b) PROVE SameKeys
  BY <1>2 DEF OpenLink, ExchangeRejected
<1>3. ASSUME NEW i \in Items, NEW r, row' = [row EXCEPT ![i] = r],
             envKey' = envKey, late \subseteq late',
             i \notin late' /\ r.status = "removed" => r.key = 0,
             i \notin late' /\ r.status = "active" => r.key = envKey
      PROVE  KeysAgree'
  BY <1>3
<1>4. ASSUME NEW b \in Banks, NEW i \in Items, Exchange(b, i) PROVE KeysAgree'
  <2>1. /\ [NoRow EXCEPT !.status = "active", !.bank = b, !.key = appKey].key = appKey
        /\ [NoRow EXCEPT !.status = "active", !.bank = b, !.key = appKey].status
              = "active"
        /\ [NoRow EXCEPT !.status = "removed", !.bank = b, !.error = "other"].status
              = "removed"
        /\ [NoRow EXCEPT !.status = "removed", !.bank = b, !.error = "other"].key = 0
    BY DEF NoRow
  <2>2. CASE row' = row
    BY <1>4, <2>2 DEF Exchange
  <2>3. envKey' = envKey
    BY <1>4 DEF Exchange
  <2>4. CASE /\ row' = [row EXCEPT ![i] = [NoRow EXCEPT !.status = "active",
                                              !.bank = b, !.key = appKey]]
             /\ late' = IF appKey = envKey THEN late ELSE late \cup {i}
    <3>1. late \subseteq late' /\ (i \notin late' => appKey = envKey)
      BY <2>4
    <3> HIDE DEF KeysAgree
    <3> QED BY <1>3, <2>1, <2>3, <2>4, <3>1
  <2>5. CASE Tombstone(b, i) /\ UNCHANGED history
    <3>1. /\ row' = [row EXCEPT ![i] = [NoRow EXCEPT !.status = "removed",
                                           !.bank = b, !.error = "other"]]
          /\ late' = late
      BY <2>5 DEF Tombstone
    <3> HIDE DEF KeysAgree
    <3> QED BY <1>3, <2>1, <2>3, <3>1
  <2>6. QED BY <1>4, <2>2, <2>4, <2>5 DEF Exchange
<1>5. ASSUME NEW i \in Items, Disconnect(i) PROVE KeysAgree'
  <2>1. /\ [NoRow EXCEPT !.status = "removed", !.bank = row[i].bank].status = "removed"
        /\ [NoRow EXCEPT !.status = "removed", !.bank = row[i].bank].key = 0
    BY DEF NoRow
  <2>2. CASE row' = row
    BY <1>5, <2>2 DEF Disconnect
  <2>3. envKey' = envKey /\ late' = late
    BY <1>5 DEF Disconnect
  <2> HIDE DEF KeysAgree
  <2> QED BY <1>3, <1>5, <2>1, <2>2, <2>3 DEF Disconnect
<1>6. ASSUME NEW i \in Items, Sync(i) \/ Reconnect(i) PROVE SameKeys
  BY <1>6 DEF Sync, Reconnect
<1>7. ASSUME NEW i \in Items, NEW code \in WebhookCodes,
             Webhook(i, code) \/ BankEvent(i, code)
      PROVE SameKeys
  BY <1>7 DEF Webhook, BankEvent, Noted, Row
<1>8. CASE SweepReads \/ SweepWrites
  BY <1>8 DEF SweepReads, SweepWrites
<1>9. CASE HourPasses
  BY <1>9 DEF HourPasses, Row
<1>10. ASSUME NEW i \in Items, PassStarts(i) \/ PassSucceeds(i) \/ PassFails(i)
       PROVE  SameKeys
  <2>1. ASSUME NEW r \in Row, NEW code
        PROVE  /\ Applied(r).status = r.status /\ Applied(r).key = r.key
               /\ Failed(r, code).status = r.status /\ Failed(r, code).key = r.key
    BY DEF Applied, Failed, Row
  <2> QED BY <1>10, <2>1 DEF PassStarts, PassSucceeds, PassFails
<1>11. ASSUME Stop \/ Restart \/ RotationReads PROVE SameKeys
  BY <1>11 DEF Stop, Restart, RotationReads
<1>12. CASE RotationWrites
  <2>1. CASE row' = row /\ envKey' = envKey /\ late' = late
    BY <2>1
  <2>2. CASE /\ Rotated(rotation)
             /\ envKey' = envKey + 1
             /\ late' = late \cup (Stored \ rotation) \cup (rotation \ Stored)
    <3>1. ASSUME NEW i \in Items \ late'
          PROVE  /\ i \notin late
                 /\ i \in rotation <=> row[i].key # 0
      BY <2>2 DEF Stored
    <3>2. \A i \in Items : row[i] \in Row
      OBVIOUS
    <3>3. \A i \in Items : row'[i] = IF i \in rotation
                                       THEN [row[i] EXCEPT !.key = envKey + 1]
                                       ELSE row[i]
      BY <2>2 DEF Rotated
    <3>4. ASSUME NEW i \in Items \ late', row'[i].status = "removed"
          PROVE  row'[i].key = 0
      <4>1. row[i].status = "removed"
        BY <3>2, <3>3, <3>4 DEF Row
      <4>2. row[i].key = 0 /\ i \notin rotation
        BY <3>1, <4>1
      <4> QED BY <3>3, <4>2
    <3>5. ASSUME NEW i \in Items \ late', row'[i].status = "active"
          PROVE  row'[i].key = envKey + 1
      <4>1. row[i].status = "active"
        BY <3>2, <3>3, <3>5 DEF Row
      <4>2. row[i].key = envKey /\ envKey # 0
        BY <3>1, <4>1
      <4>3. i \in rotation
        BY <3>1, <4>2
      <4> QED BY <3>2, <3>3, <4>3 DEF Row
    <3> QED BY <2>2, <3>4, <3>5
  <2> QED BY <1>12, <2>1, <2>2 DEF RotationWrites
<1>13. CASE UNCHANGED vars
  BY <1>13 DEF vars
<1> HIDE DEF SameKeys, KeysAgree
<1> QED
  BY <1>1, <1>2, <1>4, <1>5, <1>6, <1>7, <1>8, <1>9, <1>10, <1>11, <1>12, <1>13
  DEF Next

\* Whenever the key is rotated, with the application running or not: it can read
\* every token once it runs with the key of the settings, and none is left of a
\* removed connection, except where the application wrote or cleared the token
\* between the rotation's read and the restart (rotate_token_encryption_key,
\* exchange_public_token, disconnect).
THEOREM TokensStayUsable == Spec => []TokensUsable
<1>1. Init => KeysAgree
  BY DEF Init, KeysAgree, NoRow
<1>2. TypeOK /\ KeysAgree /\ [Next]_vars => KeysAgree'
  BY KeysAgreeStep
<1>3. KeysAgree => TokensUsable
  BY DEF KeysAgree, TokensUsable, Active, Readable, Up
<1>4. Spec => []TypeOK
  BY TypeCorrect
<1> QED BY <1>1, <1>2, <1>3, <1>4, PTL DEF Spec
=============================================================================
