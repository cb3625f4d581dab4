---------------------------- MODULE SettingsStore ----------------------------
(***************************************************************************)
(* What the synchronisation promises of one setting: three places hold it, *)
(* the module, the master's copy and the database, and a change of the     *)
(* module is passed on from place to place.  Each place marks a change as  *)
(* its own until the next one has it: at no moment is it in neither, but   *)
(* for a loss of power.                                                    *)
(*                                                                         *)
(* There are no packets here, no losses and repetitions of packets, no     *)
(* transfer cycle and no other settings.                                   *)
(***************************************************************************)
CONSTANTS
  Given,  \* values users and sketches give the setting
  Blank,  \* content after a restart
  None    \* no value

VARIABLES
  store,  \* the value in the database
  copy,   \* the value in the master
  dirty,  \* whether copy is a change the database has not confirmed
  local,  \* a change of the module the master has not confirmed, or None
  sent    \* a value on its way to the database, or None

vars == <<store, copy, dirty, local, sent>>

Init ==
  /\ store \in Given /\ copy = Blank /\ dirty = FALSE
  /\ local = None /\ sent = None

-----------------------------------------------------------------------------
(* The module. *)

Change(x) ==
  /\ local' = x
  /\ UNCHANGED <<store, copy, dirty, sent>>

(* The master takes over the change; what it had itself is superseded.     *)
HandOver ==
  /\ local # None
  /\ copy' = local
  /\ dirty' = (dirty \/ copy # local)
  /\ UNCHANGED <<store, local, sent>>

(* The module learns that the master has its value.                        *)
Confirm ==
  /\ local # None /\ local = copy
  /\ local' = None
  /\ UNCHANGED <<store, copy, dirty, sent>>

LosePower ==
  /\ local' = None
  /\ UNCHANGED <<store, copy, dirty, sent>>

-----------------------------------------------------------------------------
(* The master. *)

Post ==
  /\ dirty /\ copy \in Given /\ sent = None
  /\ sent' = copy
  /\ UNCHANGED <<store, copy, dirty, local>>

(* Only what the database has given is replaced by its value.              *)
Read ==
  /\ ~dirty
  /\ copy' = store
  /\ UNCHANGED <<store, dirty, local, sent>>

(* The master learns that the database has its value.                      *)
Settle ==
  /\ dirty /\ copy = store
  /\ dirty' = FALSE
  /\ UNCHANGED <<store, copy, local, sent>>

MasterLosesPower ==
  /\ copy' = Blank /\ dirty' = FALSE
  /\ UNCHANGED <<store, local, sent>>

-----------------------------------------------------------------------------
(* The database. *)

Edit(x) ==
  /\ store' = x
  /\ UNCHANGED <<copy, dirty, local, sent>>

Receive ==
  /\ sent # None
  /\ store' = sent /\ sent' = None
  /\ UNCHANGED <<copy, dirty, local>>

Miss ==
  /\ sent' = None
  /\ UNCHANGED <<store, copy, dirty, local>>

-----------------------------------------------------------------------------
Next ==
  \/ \E x \in Given : Change(x) \/ Edit(x)
  \/ HandOver \/ Confirm \/ LosePower
  \/ Post \/ Read \/ Settle \/ MasterLosesPower
  \/ Receive \/ Miss

Spec == Init /\ [][Next]_vars
=============================================================================
