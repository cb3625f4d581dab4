---------------------------- MODULE MultiTransfer ----------------------------
(***************************************************************************)
(* A setting that is shared by a module, a database behind a web server    *)
(* (transfer 0, HTTP) and an MQTT broker (transfer 1), with the master in  *)
(* the middle built for MASTER_MULTI_TRANSFER: besides the changed-flag a  *)
(* value has one change bit for each transfer that still has to be told.   *)
(*                                                                         *)
(* The master publishes to moduleinterface/<module>/setting/<variable> and *)
(* subscribes to the same topic, so it receives what it published.  The    *)
(* echo is what clears the bit of the transfer, as the value coming back   *)
(* from the database clears the bit of the other.                          *)
(*                                                                         *)
(* Not in this module: contracts, several settings or modules, outputs and *)
(* inputs, values that is_equal rejects (see SettingsSync), JSON topics    *)
(* (MIMQTT_USE_JSON), a restart of the master or the module.               *)
(***************************************************************************)
EXTENDS Naturals, Sequences

CONSTANTS
  Value,          \* what users, the sketch and other MQTT clients set
  Default,        \* content of the variable before it is set for the first time
  None,           \* no POST on its way; no retained message
  MaxLocal,       \* bound on changes by the module's sketch
  MaxEdits,       \* bound on edits in the database
  MaxPublished,   \* bound on messages from other MQTT clients
  MaxReconnects,  \* bound on reconnections to the broker
  MaxInbox,       \* bound on the messages on their way from the broker
  Timely          \* whether messages arrive before the next transfer starts

ASSUME ValueAssumption == Default \notin Value /\ None \notin Value \cup {Default}
ASSUME BoundAssumption ==
  {MaxLocal, MaxEdits, MaxPublished, MaxReconnects, MaxInbox} \subseteq Nat

Transfer == {0, 1}
http == 0
mqtt == 1
Content == Value \cup {Default}

VARIABLES
  mval, mchg, mev, mupd,   \* module: value, changed, event, is_updated()
  sval, schg, sev, supd,   \* the same in the master's copy
  bits,                    \* change bits of the transfers in use
  smod,                    \* MODIFIED_SETTINGS in the module's last status
  pc,                      \* where the master is in transfer_settings
  dval, post,              \* database; POST it has not processed yet
  bval,                    \* retained message of the topic
  inbox,                   \* messages from the broker to the master
  adrift,                  \* history: a message was dropped or hidden (see Adrift)
  count                    \* history: changes, edits, messages, reconnections

module == <<mval, mchg, mev, mupd>>
copy == <<sval, schg, sev, supd, bits>>
database == <<dval, post>>
broker == <<bval, inbox>>
history == <<adrift, count>>
vars == <<module, copy, smod, pc, database, broker, history>>

(* A message from the broker.  One on the topic <variable>_event is to be  *)
(* passed on at once; echo: the master published it.                       *)
Message == [val : Content, event : BOOLEAN, echo : BOOLEAN]
Retained(x) ==
  IF x = None THEN <<>> ELSE <<[val |-> x, event |-> FALSE, echo |-> FALSE]>>

-----------------------------------------------------------------------------
(* set_mv_and_changed_flags, the transfer t having value x.  While the     *)
(* value is changed, only the same value counts, as a receipt for t.       *)
(* Otherwise it is taken, and the other transfers are to be told.          *)
(* Deviations: every value is taken; the others are not told.              *)
FromTransfer_TakesAll(t, x) ==
  /\ sval' = x
  /\ schg' = (schg \/ sval # x)
  /\ bits' = (IF sval # x THEN Transfer ELSE bits) \ {t}
FromTransfer_TellsNobody(t, x) ==
  IF schg
    THEN /\ bits' = IF sval = x THEN bits \ {t} ELSE bits
         /\ UNCHANGED <<sval, schg>>
    ELSE /\ sval' = x
         /\ schg' = (sval # x)
         /\ bits' = bits \ {t}
FromTransfer(t, x) ==
  IF schg
    THEN /\ bits' = IF sval = x THEN bits \ {t} ELSE bits
         /\ UNCHANGED <<sval, schg>>
    ELSE /\ sval' = x
         /\ schg' = (sval # x)
         /\ bits' = (IF sval # x /\ bits = {} THEN Transfer ELSE bits) \ {t}

(* set_values for a value the module reported: all are to be told if it is *)
(* new to the master.  Deviations: only if it was not changed before; bits *)
(* of transfers that are not in use count as well.                         *)
FromModule_Once(x, event) ==
  /\ sval' = x
  /\ schg' = (schg \/ sval # x)
  /\ bits' = IF sval # x /\ ~schg THEN Transfer ELSE bits
  /\ supd' = TRUE
  /\ sev' = (sev \/ event)
FromModule_AllEight(x, event) ==
  /\ sval' = x
  /\ schg' = (schg \/ sval # x)
  /\ bits' = IF sval # x THEN 0..7 ELSE bits
  /\ supd' = TRUE
  /\ sev' = (sev \/ event)
FromModule(x, event) ==
  /\ sval' = x
  /\ schg' = (schg \/ sval # x)
  /\ bits' = IF sval # x THEN Transfer ELSE bits
  /\ supd' = TRUE
  /\ sev' = (sev \/ event)

(* set_values in the module for what the master sends.                     *)
TakenByModule(x) ==
  /\ mval' = IF mchg THEN mval ELSE x
  /\ mchg' = (mchg /\ mval # x)
  /\ mev' = FALSE
  /\ mupd' = TRUE

(* publish_to_mqtt, retained.  It is lost if there is no connection, as    *)
(* nothing is acknowledged (QoS 0).                                        *)
Publish(delivered) ==
  IF schg /\ mqtt \in bits /\ delivered
    THEN /\ Len(inbox) < MaxInbox
         /\ bval' = sval /\ inbox' = Append(inbox, [val |-> sval, event |-> FALSE, echo |-> TRUE])
    ELSE UNCHANGED broker

-----------------------------------------------------------------------------
(* The master has just started; the database has a value and the broker    *)
(* may have one, which it sends when the master subscribes.                *)
Init ==
  /\ mval = Default /\ mchg = FALSE /\ mev = FALSE /\ mupd = FALSE
  /\ sval = Default /\ schg = FALSE /\ sev = FALSE /\ supd = FALSE
  /\ bits = {} /\ smod = FALSE /\ pc = "idle"
  /\ dval \in Value /\ post = None
  /\ bval \in Value \cup {None}
  /\ inbox = Retained(bval)
  /\ adrift = FALSE
  /\ count = [local |-> 0, edits |-> 0, published |-> 0, reconnects |-> 0]

-----------------------------------------------------------------------------
(* The module. *)

(* The sketch changes the setting, and may want it sent at once.           *)
LocalChange(x, event) ==
  /\ count.local < MaxLocal
  /\ x # mval
  /\ mval' = x /\ mchg' = TRUE /\ mev' = event
  /\ count' = [count EXCEPT !.local = @ + 1]
  /\ UNCHANGED <<mupd, copy, smod, pc, database, broker, adrift>>

(* send_setting_events of the module; without an acknowledgement it stays  *)
(* an event and is sent again.                                             *)
ModuleSendsEvent(acked) ==
  /\ mev /\ pc = "idle"
  /\ FromModule(mval, TRUE)
  /\ mev' = ~acked
  /\ UNCHANGED <<mval, mchg, mupd, smod, pc, database, broker, history>>

-----------------------------------------------------------------------------
(* The master. *)

(* update_settings: the module is asked for its changed settings if its    *)
(* status said it has some.  A report without values arrives if the module *)
(* never got a full set, and none if the packets are lost.                 *)
StartTransfer(reported) ==
  /\ pc = "idle" /\ (Timely => inbox = <<>>)
  /\ IF smod /\ reported /\ mchg /\ mupd
       THEN FromModule(mval, FALSE)
       ELSE UNCHANGED copy
  /\ pc' = "put"
  /\ UNCHANGED <<module, smod, database, broker, history>>

(* put_settings of both transfers.  The POST may be processed late or      *)
(* never.                                                                  *)
PutSettings(sent, delivered) ==
  /\ pc = "put" /\ post = None
  /\ post' = IF sent /\ supd /\ http \in bits THEN sval ELSE None
  /\ Publish(delivered)
  /\ pc' = "get0"
  /\ UNCHANGED <<module, copy, smod, dval, history>>

(* get_settings from the web server, answered or not.                      *)
GetHttp(answered) ==
  /\ pc = "get0"
  /\ IF answered THEN FromTransfer(http, dval) /\ supd' = TRUE
                 ELSE UNCHANGED <<sval, schg, bits, supd>>
  /\ pc' = "get1"
  /\ UNCHANGED <<module, sev, smod, database, broker, history>>

(* A message that leaves the topic and the master apart with no bit set to *)
(* bring them together: one with another value that was discarded, or one  *)
(* on the topic for events.                                                *)
Adrift(m) == mqtt \notin bits' /\ (sval' # m.val \/ m.event)

(* read_from_mqtt, called when client.update() finds a message: between    *)
(* the transfers and in get_settings.                                      *)
MqttArrives ==
  /\ pc \in {"idle", "get1"} /\ inbox # <<>>
  /\ FromTransfer(mqtt, Head(inbox).val)
  /\ sev' = (sev \/ (schg' /\ Head(inbox).event))
  /\ supd' = TRUE
  /\ inbox' = Tail(inbox)
  /\ adrift' = (adrift \/ Adrift(Head(inbox)))
  /\ UNCHANGED <<module, smod, pc, database, bval, count>>

(* The changed-flag goes when no transfer is left to be told. *)
ClearChanged == schg' = (schg /\ bits # {})

(* The end of transfer_settings: changed-flag, and send_settings with the  *)
(* status that comes back with the outputs.                                *)
SendSettings(arrives, replied) ==
  /\ pc = "get1"
  /\ ClearChanged
  /\ IF supd /\ arrives THEN TakenByModule(sval) ELSE UNCHANGED module
  /\ smod' = IF supd /\ arrives /\ replied THEN mchg' ELSE smod
  /\ pc' = "idle"
  /\ UNCHANGED <<sval, sev, supd, bits, database, broker, history>>

(* handle_events for a setting: to the broker, and to the module, which    *)
(* answers with its status.  The flag is cleared even if nobody got it.    *)
HandleEvents(delivered, arrives) ==
  /\ pc = "idle" /\ sev
  /\ Publish(delivered)
  /\ IF arrives THEN TakenByModule(sval) ELSE UNCHANGED module
  /\ smod' \in IF arrives THEN {smod, mchg'} ELSE {smod}
  /\ sev' = FALSE
  /\ UNCHANGED <<sval, schg, supd, bits, pc, database, history>>

(* The client reconnects: what was on its way is lost, and the retained    *)
(* message comes again.                                                    *)
Reconnect ==
  /\ count.reconnects < MaxReconnects
  /\ inbox' = Retained(bval)
  /\ count' = [count EXCEPT !.reconnects = @ + 1]
  /\ UNCHANGED <<module, copy, smod, pc, database, bval, adrift>>

-----------------------------------------------------------------------------
(* The database, the broker and their other users. *)

UserEdit(x) ==
  /\ count.edits < MaxEdits /\ x # dval
  /\ dval' = x
  /\ count' = [count EXCEPT !.edits = @ + 1]
  /\ UNCHANGED <<module, copy, smod, pc, post, broker, adrift>>

(* Another client publishes, to the topic (retained) or to the one for     *)
(* events (not retained).                                                  *)
OtherPublishes(x, event) ==
  /\ count.published < MaxPublished /\ Len(inbox) < MaxInbox
  /\ bval' = IF event THEN bval ELSE x
  /\ inbox' = Append(inbox, [val |-> x, event |-> event, echo |-> FALSE])
  /\ count' = [count EXCEPT !.published = @ + 1]
  /\ UNCHANGED <<module, copy, smod, pc, database, adrift>>

ServerStores ==
  /\ post # None
  /\ dval' = post /\ post' = None
  /\ UNCHANGED <<module, copy, smod, pc, broker, history>>

ServerFails ==
  /\ post # None
  /\ post' = None
  /\ UNCHANGED <<module, copy, smod, pc, dval, broker, history>>

-----------------------------------------------------------------------------
ModuleStep ==
  \/ \E x \in Value, event \in BOOLEAN : LocalChange(x, event)
  \/ \E acked \in BOOLEAN : ModuleSendsEvent(acked)

(* The next step of the transfers; exactly one of them is the next.        *)
TransferStep ==
  \/ \E ok \in BOOLEAN : StartTransfer(ok) \/ GetHttp(ok)
  \/ \E one, two \in BOOLEAN : PutSettings(one, two) \/ SendSettings(one, two)

MasterStep ==
  \/ TransferStep \/ MqttArrives \/ Reconnect
  \/ \E delivered, arrives \in BOOLEAN : HandleEvents(delivered, arrives)

OutsideStep ==
  \/ \E x \in Value : UserEdit(x) \/ \E event \in BOOLEAN : OtherPublishes(x, event)
  \/ ServerStores \/ ServerFails

Next == ModuleStep \/ MasterStep \/ OutsideStep
Spec == Init /\ [][Next]_vars

(* The master's loop keeps running, and what is tried again and again      *)
(* succeeds at last.                                                       *)
Fairness ==
  /\ WF_vars(TransferStep) /\ WF_vars(ServerStores \/ ServerFails)
  /\ SF_vars(MqttArrives) /\ SF_vars(StartTransfer(TRUE))
  /\ SF_vars(PutSettings(TRUE, TRUE)) /\ SF_vars(GetHttp(TRUE))
  /\ SF_vars(SendSettings(TRUE, TRUE)) /\ SF_vars(ServerStores)

FairSpec == Spec /\ Fairness

-----------------------------------------------------------------------------
(* Type invariant. *)
TypeOK ==
  /\ mval \in Content /\ {mchg, mev, mupd} \subseteq BOOLEAN
  /\ sval \in Content /\ {schg, sev, supd} \subseteq BOOLEAN
  /\ bits \subseteq Transfer /\ smod \in BOOLEAN
  /\ pc \in {"idle", "put", "get0", "get1"}
  /\ dval \in Content /\ {post, bval} \subseteq Content \cup {None}
  /\ inbox \in Seq(Message)
  /\ adrift \in BOOLEAN
  /\ count \in [local : Nat, edits : Nat, published : Nat, reconnects : Nat]

(* A transfer that still has to be told is not forgotten: as long as a     *)
(* change bit is set, the value is marked as changed                       *)
(* (PJONModuleInterfaceSet.h:394-408).                                     *)
BitsAreChanges == bits # {} => schg

(* Unless a message was dropped or hidden, the topic has the master's      *)
(* value whenever the bit for it is clear and nothing is on its way        *)
(* ("A setting change in a module or in web pages will be synchronized to  *)
(* the corresponding MQTT topic", ModuleInterfaceMqttTransfer.h:13-14).    *)
BrokerTold ==
  mqtt \notin bits /\ inbox = <<>> /\ ~adrift /\ bval # None => bval = sval

(* The master is never given back a value of its own that it has replaced  *)
(* meanwhile: an echo changes nothing but the bit of the transfer          *)
(* (set_mv_and_changed_flags, MITransferBase.h:64-71).                     *)
EchoHarmless ==
  [][MqttArrives /\ Head(inbox).echo => sval' = sval /\ schg' = schg]_vars

(* The module, the master and the database hold the same value, and no     *)
(* flag or bit is left.                                                    *)
Agree == dval = sval /\ sval = mval /\ ~mchg /\ ~schg /\ bits = {}

(* Once nobody changes the setting any more, the database, the master and  *)
(* the module agree for ever, however the edits of both sides and the      *)
(* module's own change crossed, and so does the broker unless a message    *)
(* was dropped or hidden (ModuleInterfaceMqttTransfer.h:13-18).            *)
EventuallyAgree == <>[](Agree /\ (adrift \/ bval \in {sval, None}))

(* "Any change in a setting will be synchronized to the corresponding      *)
(* setting in any module and any other MITransferBase"                     *)
(* (ModuleInterfaceMqttTransfer.h:15-18).  This does not hold: a message   *)
(* that comes while the value is changed is dropped, and the topic keeps   *)
(* it.                                                                     *)
EventuallyAllAgree == <>[](Agree /\ bval \in {sval, None})

-----------------------------------------------------------------------------
(* Why echoes are harmless, for the proof: an echo still on its way was    *)
(* published in the last transfer or after it, and finds the value flagged *)
(* or unchanged (MITransferBase.h:64-71).                                  *)
EchoInv ==
  \A i \in DOMAIN inbox : inbox[i].echo =>
    /\ schg \/ inbox[i].val = sval
    /\ pc # "put"
    /\ pc \in {"get0", "get1"} => schg /\ inbox[i].val = sval
=============================================================================
