------------------------- MODULE MultiTransferProofs -------------------------
(***************************************************************************)
(* Proofs about MultiTransfer: the type invariant, that a change bit is    *)
(* never left without the changed-flag, and, if messages arrive before the *)
(* next transfer starts, that echoes are harmless.                         *)
(***************************************************************************)
EXTENDS MultiTransfer, TLAPS

(* What the parts of several actions do to types.                          *)
LEMMA FromTransferType ==
  ASSUME TypeOK, NEW t \in Transfer, NEW x \in Content, FromTransfer(t, x)
  PROVE  sval' \in Content /\ schg' \in BOOLEAN /\ bits' \subseteq Transfer
BY DEF TypeOK, FromTransfer

LEMMA FromModuleType ==
  ASSUME TypeOK, NEW e \in BOOLEAN, FromModule(mval, e)
  PROVE  /\ sval' \in Content /\ schg' \in BOOLEAN /\ bits' \subseteq Transfer
         /\ supd' \in BOOLEAN /\ sev' \in BOOLEAN
BY DEF TypeOK, FromModule

LEMMA TakenByModuleType ==
  ASSUME TypeOK, TakenByModule(sval)
  PROVE  mval' \in Content /\ {mchg', mev', mupd'} \subseteq BOOLEAN
BY DEF TypeOK, TakenByModule

LEMMA PublishType ==
  ASSUME TypeOK, NEW d \in BOOLEAN, Publish(d)
  PROVE  bval' \in Content \cup {None} /\ inbox' \in Seq(Message)
<1> DEFINE m == [val |-> sval, event |-> FALSE, echo |-> TRUE]
<1>1. m \in Message
  BY DEF TypeOK, Message
<1>2. Append(inbox, m) \in Seq(Message)
  BY <1>1 DEF TypeOK
<1> QED BY <1>2 DEF TypeOK, Publish, broker

LEMMA RetainedType ==
  ASSUME TypeOK PROVE Retained(bval) \in Seq(Message)
<1>1. CASE bval = None
  BY <1>1 DEF Retained
<1>2. CASE bval # None
  <2>1. [val |-> bval, event |-> FALSE, echo |-> FALSE] \in Message
    BY <1>2 DEF TypeOK, Message
  <2> QED BY <1>2, <2>1 DEF Retained
<1> QED BY <1>1, <1>2

(* Every initial state has the types declared.                             *)
LEMMA InitTypeOK == Init => TypeOK
<1> SUFFICES ASSUME Init PROVE TypeOK
  OBVIOUS
<1>1. bval \in Content \cup {None}
  BY DEF Init, Content
<1>2. inbox \in Seq(Message)
  <2>1. CASE bval = None
    BY <2>1 DEF Init, Retained
  <2>2. CASE bval # None
    <3>1. [val |-> bval, event |-> FALSE, echo |-> FALSE] \in Message
      BY <1>1, <2>2 DEF Message
    <3> QED BY <2>2, <3>1 DEF Init, Retained
  <2> QED BY <2>1, <2>2
<1>3. count \in [local : Nat, edits : Nat, published : Nat, reconnects : Nat]
  BY DEF Init
<1> QED BY <1>1, <1>2, <1>3 DEF Init, TypeOK, Content, Transfer

(* The steps of the module keep the types.                                 *)
LEMMA ModuleStepTypeOK == TypeOK /\ ModuleStep => TypeOK'
<1> SUFFICES ASSUME TypeOK, ModuleStep PROVE TypeOK'
  OBVIOUS
<1>1. ASSUME NEW x \in Value, NEW event \in BOOLEAN, LocalChange(x, event) PROVE TypeOK'
  BY <1>1 DEF TypeOK, LocalChange, Content, copy, database, broker
<1>2. ASSUME NEW acked \in BOOLEAN, ModuleSendsEvent(acked) PROVE TypeOK'
  BY <1>2, FromModuleType DEF TypeOK, ModuleSendsEvent, database, broker, history
<1> QED BY <1>1, <1>2 DEF ModuleStep

(* The steps of the master keep the types.                                 *)
LEMMA MasterStepTypeOK == TypeOK /\ MasterStep => TypeOK'
<1> SUFFICES ASSUME TypeOK, MasterStep PROVE TypeOK'
  OBVIOUS
<1> USE DEF module, copy, database, broker, history
<1>1. ASSUME NEW ok \in BOOLEAN, StartTransfer(ok) PROVE TypeOK'
  BY <1>1, FromModuleType DEF TypeOK, StartTransfer
<1>2. ASSUME NEW ok \in BOOLEAN, GetHttp(ok) PROVE TypeOK'
  <2>1. sval' \in Content /\ schg' \in BOOLEAN /\ bits' \subseteq Transfer
    BY <1>2, FromTransferType DEF TypeOK, GetHttp, http, Transfer
  <2> QED BY <1>2, <2>1 DEF TypeOK, GetHttp
<1>3. ASSUME NEW one \in BOOLEAN, NEW two \in BOOLEAN, PutSettings(one, two) PROVE TypeOK'
  BY <1>3, PublishType DEF TypeOK, PutSettings
<1>4. ASSUME NEW one \in BOOLEAN, NEW two \in BOOLEAN, SendSettings(one, two) PROVE TypeOK'
  <2>1. mval' \in Content /\ {mchg', mev', mupd'} \subseteq BOOLEAN
    BY <1>4, TakenByModuleType DEF TypeOK, SendSettings
  <2> QED BY <1>4, <2>1 DEF TypeOK, SendSettings, ClearChanged
<1>5. CASE MqttArrives
  <2>1. Head(inbox) \in Message /\ Tail(inbox) \in Seq(Message)
    BY <1>5 DEF TypeOK, MqttArrives
  <2>2. sval' \in Content /\ schg' \in BOOLEAN /\ bits' \subseteq Transfer
    BY <1>5, <2>1, FromTransferType DEF MqttArrives, Message, mqtt, Transfer
  <2>3. sev' \in BOOLEAN
    BY <1>5, <2>1 DEF MqttArrives, TypeOK, Message
  <2>4. adrift' \in BOOLEAN
    BY <1>5, <2>1 DEF MqttArrives, TypeOK, Message, Adrift
  <2> QED BY <1>5, <2>1, <2>2, <2>3, <2>4 DEF TypeOK, MqttArrives
<1>6. CASE Reconnect
  BY <1>6, RetainedType DEF TypeOK, Reconnect
<1>7. ASSUME NEW delivered \in BOOLEAN, NEW arrives \in BOOLEAN, HandleEvents(delivered, arrives)
      PROVE  TypeOK'
  <2>1. mval' \in Content /\ {mchg', mev', mupd'} \subseteq BOOLEAN
    BY <1>7, TakenByModuleType DEF TypeOK, HandleEvents
  <2> QED BY <1>7, <2>1, PublishType DEF TypeOK, HandleEvents
<1> QED BY <1>1, <1>2, <1>3, <1>4, <1>5, <1>6, <1>7 DEF MasterStep, TransferStep

(* The steps of the web server, the broker and their users keep the types. *)
LEMMA OutsideStepTypeOK == TypeOK /\ OutsideStep => TypeOK'
<1> SUFFICES ASSUME TypeOK, OutsideStep PROVE TypeOK'
  OBVIOUS
<1> USE DEF module, copy, broker, history
<1>1. ASSUME NEW x \in Value, UserEdit(x) PROVE TypeOK'
  BY <1>1 DEF TypeOK, UserEdit, Content
<1>2. ASSUME NEW x \in Value, NEW event \in BOOLEAN, OtherPublishes(x, event) PROVE TypeOK'
  <2> DEFINE m == [val |-> x, event |-> event, echo |-> FALSE]
  <2>1. m \in Message
    BY DEF Message, Content
  <2>2. Append(inbox, m) \in Seq(Message)
    BY <2>1 DEF TypeOK
  <2> QED BY <1>2, <2>2 DEF TypeOK, OtherPublishes, Content, database
<1>3. CASE ServerStores
  BY <1>3 DEF TypeOK, ServerStores
<1>4. CASE ServerFails
  BY <1>4 DEF TypeOK, ServerFails
<1> QED BY <1>1, <1>2, <1>3, <1>4 DEF OutsideStep

(* All variables keep their types in every behaviour.                      *)
THEOREM TypeCorrect == Spec => []TypeOK
<1>1. Init => TypeOK
  BY InitTypeOK
<1>2. TypeOK /\ [Next]_vars => TypeOK'
  <2>1. TypeOK /\ UNCHANGED vars => TypeOK'
    BY DEF TypeOK, vars, module, copy, database, broker, history
  <2> QED BY <2>1, ModuleStepTypeOK, MasterStepTypeOK, OutsideStepTypeOK DEF Next
<1> QED BY <1>1, <1>2, PTL DEF Spec

-----------------------------------------------------------------------------
(* No step sets a bit without the changed-flag, and the flag only goes     *)
(* when the bits are gone.                                                 *)
LEMMA StepBitsAreChanges == TypeOK /\ BitsAreChanges /\ [Next]_vars => BitsAreChanges'
<1> SUFFICES ASSUME TypeOK, BitsAreChanges, [Next]_vars PROVE BitsAreChanges'
  OBVIOUS
<1> USE DEF BitsAreChanges, copy
<1>1. CASE UNCHANGED <<schg, bits>>
  BY <1>1
<1>2. ASSUME NEW e \in BOOLEAN, FromModule(mval, e) PROVE BitsAreChanges'
  BY <1>2 DEF FromModule
<1>3. ASSUME NEW t \in Transfer, NEW x, FromTransfer(t, x) PROVE BitsAreChanges'
  BY <1>3 DEF FromTransfer, TypeOK
<1>4. ASSUME NEW one \in BOOLEAN, NEW two \in BOOLEAN, SendSettings(one, two)
      PROVE  BitsAreChanges'
  BY <1>4 DEF SendSettings, ClearChanged
<1>5. CASE ModuleStep
  BY <1>1, <1>2, <1>5 DEF ModuleStep, LocalChange, ModuleSendsEvent
<1>6. CASE MasterStep
  BY <1>1, <1>2, <1>3, <1>4, <1>6 DEF MasterStep, TransferStep, StartTransfer, GetHttp,
     PutSettings, MqttArrives, Reconnect, HandleEvents, http, mqtt, Transfer
<1>7. CASE OutsideStep
  BY <1>1, <1>7 DEF OutsideStep, UserEdit, OtherPublishes, ServerStores, ServerFails
<1>8. CASE UNCHANGED vars
  BY <1>8 DEF vars
<1> QED BY <1>5, <1>6, <1>7, <1>8 DEF Next

(* A transfer that has still to be told is not forgotten by transfer_settings. *)
THEOREM BitsAreKept == Spec => []BitsAreChanges
<1>1. Init => BitsAreChanges
  BY DEF Init, BitsAreChanges
<1> QED BY <1>1, StepBitsAreChanges, TypeCorrect, PTL DEF Spec

-----------------------------------------------------------------------------
(* The inbox after a message was added, taken or nothing was done.         *)
LEMMA Appended ==
  ASSUME TypeOK, NEW m, inbox' = Append(inbox, m), NEW i \in DOMAIN inbox'
  PROVE  \/ i \in DOMAIN inbox /\ inbox'[i] = inbox[i]
         \/ inbox'[i] = m
BY DEF TypeOK

LEMMA Taken ==
  ASSUME TypeOK, inbox # <<>>, inbox' = Tail(inbox), NEW i \in DOMAIN inbox'
  PROVE  i + 1 \in DOMAIN inbox /\ inbox'[i] = inbox[i + 1]
BY DEF TypeOK

(* Publishing puts at most one echo more into the inbox, of a changed value. *)
LEMMA Published ==
  ASSUME TypeOK, NEW d \in BOOLEAN, Publish(d), NEW i \in DOMAIN inbox', inbox'[i].echo
  PROVE  \/ i \in DOMAIN inbox /\ inbox'[i] = inbox[i]
         \/ schg /\ inbox'[i].val = sval
<1> DEFINE m == [val |-> sval, event |-> FALSE, echo |-> TRUE]
<1>1. CASE inbox' = inbox
  BY <1>1
<1>2. CASE schg /\ inbox' = Append(inbox, m)
  <2>1. (i \in DOMAIN inbox /\ inbox'[i] = inbox[i]) \/ inbox'[i] = m
    BY <1>2, Appended
  <2> QED BY <1>2, <2>1
<1> QED BY <1>1, <1>2 DEF Publish, broker

(* Every step keeps EchoInv.                                               *)
LEMMA StepEchoInv == Timely /\ TypeOK /\ EchoInv /\ [Next]_vars => EchoInv'
<1> SUFFICES ASSUME Timely, TypeOK, EchoInv, [Next]_vars,
                    NEW i \in DOMAIN inbox', inbox'[i].echo
             PROVE  /\ schg' \/ inbox'[i].val = sval'
                    /\ pc' # "put"
                    /\ pc' \in {"get0", "get1"} => schg' /\ inbox'[i].val = sval'
  BY DEF EchoInv
<1> DEFINE Goal == /\ schg' \/ inbox'[i].val = sval'
                   /\ pc' # "put"
                   /\ pc' \in {"get0", "get1"} => schg' /\ inbox'[i].val = sval'
<1> USE DEF copy, broker
<1>1. CASE UNCHANGED <<sval, schg, pc, inbox>>
  BY <1>1 DEF EchoInv
<1>2. ASSUME NEW acked \in BOOLEAN, ModuleSendsEvent(acked) PROVE Goal
  BY <1>2 DEF ModuleSendsEvent, FromModule, EchoInv, TypeOK
<1>3. ASSUME NEW ok \in BOOLEAN, StartTransfer(ok) PROVE Goal
  BY <1>3 DEF StartTransfer
<1>4. ASSUME NEW one \in BOOLEAN, NEW two \in BOOLEAN, PutSettings(one, two) PROVE Goal
  BY <1>4, Published DEF PutSettings, EchoInv
<1>5. ASSUME NEW ok \in BOOLEAN, GetHttp(ok) PROVE Goal
  BY <1>5 DEF GetHttp, FromTransfer, EchoInv
<1>6. ASSUME NEW one \in BOOLEAN, NEW two \in BOOLEAN, SendSettings(one, two) PROVE Goal
  BY <1>6 DEF SendSettings, EchoInv
<1>7. CASE MqttArrives
  <2>1. i + 1 \in DOMAIN inbox /\ inbox'[i] = inbox[i + 1]
    BY <1>7, Taken DEF MqttArrives
  <2>2. inbox[i + 1].echo
    BY <2>1
  <2>3. CASE pc = "get1"
    BY <1>7, <2>1, <2>2, <2>3 DEF MqttArrives, FromTransfer, EchoInv
  <2>4. CASE pc = "idle"
    BY <1>7, <2>1, <2>2, <2>4 DEF MqttArrives, FromTransfer, EchoInv
  <2> QED BY <1>7, <2>3, <2>4 DEF MqttArrives
<1>8. CASE Reconnect
  BY <1>8 DEF Reconnect, Retained
<1>9. ASSUME NEW delivered \in BOOLEAN, NEW arrives \in BOOLEAN, HandleEvents(delivered, arrives)
      PROVE  Goal
  BY <1>9, Published DEF HandleEvents, EchoInv
<1>10. ASSUME NEW x \in Value, NEW event \in BOOLEAN, OtherPublishes(x, event) PROVE Goal
  <2> DEFINE m == [val |-> x, event |-> event, echo |-> FALSE]
  <2>1. (i \in DOMAIN inbox /\ inbox'[i] = inbox[i]) \/ inbox'[i] = m
    BY <1>10, Appended DEF OtherPublishes
  <2>2. i \in DOMAIN inbox /\ inbox'[i] = inbox[i]
    BY <2>1
  <2> QED BY <1>10, <2>2 DEF OtherPublishes, EchoInv
<1>11. CASE \/ \E x \in Value, event \in BOOLEAN : LocalChange(x, event)
            \/ \E x \in Value : UserEdit(x)
            \/ ServerStores \/ ServerFails \/ UNCHANGED vars
  BY <1>1, <1>11 DEF LocalChange, UserEdit, ServerStores, ServerFails, vars
<1> QED BY <1>2, <1>3, <1>4, <1>5, <1>6, <1>7, <1>8, <1>9, <1>10, <1>11
        DEF Next, ModuleStep, MasterStep, TransferStep, OutsideStep

(* If messages arrive before the next transfer starts, an echo on its way  *)
(* finds the value flagged or unchanged.                                   *)
THEOREM EchoesAreOfTheLastTransfer ==
  ASSUME Timely PROVE Spec => []EchoInv
<1>1. Init => EchoInv
  BY DEF Init, EchoInv, Retained
<1>2. TypeOK /\ EchoInv /\ [Next]_vars => EchoInv'
  BY StepEchoInv
<1> QED BY <1>1, <1>2, TypeCorrect, PTL DEF Spec

(* ... and so the master's own messages never change what it has.          *)
THEOREM EchoesAreHarmless ==
  ASSUME Timely PROVE Spec => EchoHarmless
<1>1. TypeOK /\ EchoInv /\ [Next]_vars =>
        [MqttArrives /\ Head(inbox).echo => sval' = sval /\ schg' = schg]_vars
  <2> SUFFICES ASSUME TypeOK, EchoInv, MqttArrives, Head(inbox).echo
               PROVE  sval' = sval /\ schg' = schg
    OBVIOUS
  <2>1. 1 \in DOMAIN inbox /\ Head(inbox) = inbox[1]
    BY DEF MqttArrives, TypeOK
  <2>2. schg \/ Head(inbox).val = sval
    BY <2>1 DEF EchoInv
  <2> QED BY <2>2 DEF MqttArrives, FromTransfer, TypeOK
<1> QED BY <1>1, TypeCorrect, EchoesAreOfTheLastTransfer, PTL DEF Spec, EchoHarmless

-----------------------------------------------------------------------------
(* What the broker has and what the master has.                            *)

(* The last message on the topic that is on its way has the retained       *)
(* value.                                                                  *)
LastIsRetained ==
  \A i \in DOMAIN inbox :
    ~inbox[i].event /\ (\A j \in DOMAIN inbox : j > i => inbox[j].event) => inbox[i].val = bval

(* BrokerTold also while nothing but events is on its way.                 *)
ToldBut == \A i \in DOMAIN inbox : inbox[i].event
BrokerAgrees == ToldBut /\ mqtt \notin bits /\ ~adrift /\ bval # None => bval = sval

BrokerInv == LastIsRetained /\ BrokerAgrees

(* A message put at the end of the inbox and retained.                     *)
LEMMA RetainedLast ==
  ASSUME TypeOK, NEW m, ~m.event, inbox' = Append(inbox, m), bval' = m.val
  PROVE  BrokerInv'
<1>1. Len(inbox) + 1 \in DOMAIN inbox' /\ inbox'[Len(inbox) + 1] = m
  BY DEF TypeOK
<1>2. ~ToldBut'
  BY <1>1 DEF ToldBut
<1>3. LastIsRetained'
  <2> SUFFICES ASSUME NEW i \in DOMAIN inbox', \A j \in DOMAIN inbox' : j > i => inbox'[j].event
               PROVE  inbox'[i].val = bval'
    BY DEF LastIsRetained
  <2>1. i \in 1..Len(inbox) + 1
    BY DEF TypeOK
  <2>2. ~(Len(inbox) + 1 > i)
    BY <1>1
  <2>3. i = Len(inbox) + 1
    BY <2>1, <2>2 DEF TypeOK
  <2> QED BY <1>1, <2>3
<1> QED BY <1>2, <1>3 DEF BrokerInv, BrokerAgrees

(* ... and one that is not retained.                                       *)
LEMMA EventLast ==
  ASSUME TypeOK, BrokerInv, NEW m, m.event, inbox' = Append(inbox, m), UNCHANGED <<bval, bits, adrift, sval>>
  PROVE  BrokerInv'
<1>1. \A i \in DOMAIN inbox : i \in DOMAIN inbox' /\ inbox'[i] = inbox[i]
  BY DEF TypeOK
<1>2. \A i \in DOMAIN inbox' : i \in DOMAIN inbox \/ inbox'[i] = m
  BY DEF TypeOK
<1>3. ToldBut' => ToldBut
  BY <1>1 DEF ToldBut
<1>4. LastIsRetained'
  BY <1>1, <1>2 DEF BrokerInv, LastIsRetained
<1> QED BY <1>3, <1>4 DEF BrokerInv, BrokerAgrees

(* publish_to_mqtt. *)
LEMMA PublishBroker ==
  ASSUME TypeOK, BrokerInv, NEW d \in BOOLEAN, Publish(d), UNCHANGED <<sval, bits, adrift>>
  PROVE  BrokerInv'
<1>1. CASE UNCHANGED broker
  BY <1>1 DEF broker, BrokerInv, LastIsRetained, BrokerAgrees, ToldBut
<1>2. CASE bval' = sval /\ inbox' = Append(inbox, [val |-> sval, event |-> FALSE, echo |-> TRUE])
  BY <1>2, RetainedLast
<1> QED BY <1>1, <1>2 DEF Publish

(* A value from the module or from the web server: the broker is to be     *)
(* told what it does not have.                                             *)
LEMMA OtherSourceBroker ==
  ASSUME TypeOK, BitsAreChanges, BrokerInv, UNCHANGED <<broker, adrift>>,
         \/ UNCHANGED <<sval, bits>>
         \/ \E e \in BOOLEAN : FromModule(mval, e)
         \/ FromTransfer(http, dval)
  PROVE  BrokerInv'
<1>1. sval' # sval => mqtt \in bits'
  BY DEF FromModule, FromTransfer, BitsAreChanges, Transfer, http, mqtt, TypeOK
<1>2. sval' = sval => (mqtt \in bits' <=> mqtt \in bits)
  BY DEF FromModule, FromTransfer, Transfer, http, mqtt, TypeOK
<1> QED BY <1>1, <1>2 DEF broker, BrokerInv, LastIsRetained, BrokerAgrees, ToldBut

(* read_from_mqtt: a message is taken over, is news to be told, or leaves  *)
(* the two apart.                                                          *)
LEMMA MqttArrivesBroker ==
  ASSUME TypeOK, BrokerInv, MqttArrives
  PROVE  BrokerInv'
<1> DEFINE m == inbox[1]
<1>1. inbox # <<>> /\ inbox' = Tail(inbox) /\ bval' = bval
  BY DEF MqttArrives
<1>2. 1 \in DOMAIN inbox /\ Head(inbox) = m
  BY <1>1 DEF TypeOK
<1>3. \A i \in DOMAIN inbox' : i + 1 \in DOMAIN inbox /\ inbox'[i] = inbox[i + 1]
  BY <1>1, Taken
<1>4. \A j \in DOMAIN inbox : j > 1 => j - 1 \in DOMAIN inbox' /\ inbox'[j - 1] = inbox[j]
  BY <1>1 DEF TypeOK
<1>5. adrift' \/ mqtt \in bits' \/ (sval' = m.val /\ ~m.event)
  BY <1>2 DEF MqttArrives, Adrift
<1>6. LastIsRetained'
  <2> SUFFICES ASSUME NEW i \in DOMAIN inbox', ~inbox'[i].event, \A j \in DOMAIN inbox' : j > i => inbox'[j].event
               PROVE  inbox'[i].val = bval
    BY <1>1 DEF LastIsRetained
  <2>1. i + 1 \in DOMAIN inbox /\ inbox'[i] = inbox[i + 1] /\ i \in Nat
    BY <1>1, <1>3 DEF TypeOK
  <2>2. ASSUME NEW j \in DOMAIN inbox, j > i + 1 PROVE inbox[j].event
    <3>1. j \in Nat /\ j > 1 /\ j - 1 > i
      BY <2>1, <2>2 DEF TypeOK
    <3> QED BY <1>4, <3>1
  <2> QED BY <2>1, <2>2 DEF BrokerInv, LastIsRetained
<1>7. ASSUME ToldBut', ~m.event PROVE m.val = bval
  <2>1. \A j \in DOMAIN inbox : j > 1 => inbox[j].event
    BY <1>4, <1>7 DEF ToldBut
  <2> QED BY <1>2, <1>7, <2>1 DEF BrokerInv, LastIsRetained
<1> QED BY <1>1, <1>5, <1>6, <1>7 DEF BrokerInv, BrokerAgrees

LEMMA StepBroker == TypeOK /\ BitsAreChanges /\ BrokerInv /\ [Next]_vars => BrokerInv'
<1> SUFFICES ASSUME TypeOK, BitsAreChanges, BrokerInv, [Next]_vars PROVE BrokerInv'
  OBVIOUS
<1> USE DEF copy, history
<1>1. CASE UNCHANGED <<sval, bits, broker, adrift>>
  BY <1>1, OtherSourceBroker
<1>2. ASSUME NEW acked \in BOOLEAN, ModuleSendsEvent(acked) PROVE BrokerInv'
  BY <1>2, OtherSourceBroker DEF ModuleSendsEvent
<1>3. ASSUME NEW ok \in BOOLEAN, StartTransfer(ok) PROVE BrokerInv'
  BY <1>3, OtherSourceBroker DEF StartTransfer
<1>4. ASSUME NEW ok \in BOOLEAN, GetHttp(ok) PROVE BrokerInv'
  BY <1>4, OtherSourceBroker DEF GetHttp
<1>5. ASSUME NEW one \in BOOLEAN, NEW two \in BOOLEAN, PutSettings(one, two) PROVE BrokerInv'
  BY <1>5, PublishBroker DEF PutSettings
<1>6. ASSUME NEW delivered \in BOOLEAN, NEW arrives \in BOOLEAN, HandleEvents(delivered, arrives)
      PROVE  BrokerInv'
  BY <1>6, PublishBroker DEF HandleEvents
<1>7. CASE MqttArrives
  BY <1>7, MqttArrivesBroker
<1>8. CASE Reconnect
  BY <1>8 DEF Reconnect, Retained, BrokerInv, LastIsRetained, BrokerAgrees, ToldBut
<1>9. ASSUME NEW x \in Value, NEW event \in BOOLEAN, OtherPublishes(x, event) PROVE BrokerInv'
  <2> DEFINE m == [val |-> x, event |-> event, echo |-> FALSE]
  <2>1. CASE event
    BY <1>9, <2>1, EventLast DEF OtherPublishes
  <2>2. CASE ~event
    BY <1>9, <2>2, RetainedLast DEF OtherPublishes
  <2> QED BY <2>1, <2>2
<1>10. CASE \/ \E x \in Value, event \in BOOLEAN : LocalChange(x, event)
            \/ \E one, two \in BOOLEAN : SendSettings(one, two)
            \/ \E x \in Value : UserEdit(x)
            \/ ServerStores \/ ServerFails \/ UNCHANGED vars
  BY <1>1, <1>10 DEF LocalChange, SendSettings, UserEdit, ServerStores, ServerFails, vars
<1> QED BY <1>2, <1>3, <1>4, <1>5, <1>6, <1>7, <1>8, <1>9, <1>10
        DEF Next, ModuleStep, MasterStep, TransferStep, OutsideStep

(* However publications, messages of other clients, reconnections and      *)
(* changes elsewhere cross: unless a message was dropped or hidden, the    *)
(* topic has the master's value once the bit for it is clear and nothing   *)
(* is on its way (publish_to_mqtt, set_mv_and_changed_flags).              *)
THEOREM BrokerIsTold == Spec => []BrokerTold
<1>1. Init => BrokerInv
  BY DEF Init, Retained, BrokerInv, LastIsRetained, BrokerAgrees, ToldBut
<1>2. BrokerInv => BrokerTold
  BY DEF BrokerInv, BrokerAgrees, ToldBut, BrokerTold
<1> QED BY <1>1, <1>2, StepBroker, TypeCorrect, BitsAreKept, PTL DEF Spec
=============================================================================
