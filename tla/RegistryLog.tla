---------------------------- MODULE RegistryLog ----------------------------
(***************************************************************************)
(* The event logs of the public V6 contracts, one per chain, as every      *)
(* index of this repository reads them.  The contracts are external: what  *)
(* is known of them here is their ABI, the canonical fixtures (a           *)
(* registration is announced by a status change 0 -> 1 of generation 1)    *)
(* and the uses the mapping, the decoder and the queries make of an event. *)
(*                                                                         *)
(* A log entry is one event of one transaction at one position.  It        *)
(* carries, for the properties only, the fork it belongs to and the state  *)
(* of the contracts after it (`after').  The state is one value per key:   *)
(* a network, asset or route has a status and a generation; the router's   *)
(* intake is 0 or 1; a standard has a module, 0 being the zero address; a  *)
(* fill is there or not.                                                   *)
(***************************************************************************)
EXTENDS Naturals, Sequences

CONSTANTS
  Chains,
  Networks, Assets, Routes, \* keys of the registry
  Router,                   \* key of the router's intake switch
  Standards,                \* keys of the standard module registry
  Fills,                    \* fill identifiers
  Statuses,                 \* values of a registry status, 1 being REGISTERED
  Modules,                  \* module addresses, 0 being the zero address
  MaxEmits, MaxForks        \* bounds on transactions, all chains together, and reorganizations

REGISTERED == 1
Items == Networks \cup Assets \cup Routes
Keys == Items \cup {Router} \cup Standards \cup Fills

ASSUME KeysAssumption ==
  /\ Networks \cap Assets = {} /\ Networks \cap Routes = {} /\ Assets \cap Routes = {}
  /\ Router \notin Items \cup Standards \cup Fills
  /\ Items \cap Standards = {} /\ Items \cap Fills = {} /\ Standards \cap Fills = {}
ASSUME ValuesAssumption ==
  /\ Statuses \subseteq Nat /\ REGISTERED \in Statuses /\ Modules \subseteq Nat
  /\ MaxEmits \in Nat /\ MaxForks \in Nat

Values == [val : Nat, gen : Nat]
Absent == [val |-> 0, gen |-> 0]
States == [Keys -> Values]
Blank == [k \in Keys |-> Absent]

Kinds == {"Registered", "StatusChanged", "SourceIntakeConfigured",
          "SourceFill", "StandardModuleConfigured"}
Entries == [address : {"nexa", "foreign"}, kind : Kinds, key : Keys, previous : Nat,
            value : Values, fork : Nat, after : States]

VARIABLES
  log,   \* log[c]: the canonical chain's entries so far
  emits, \* transactions so far (bounded)
  forks  \* reorganizations so far (bounded); names the fork an entry is on

chainVars == <<log, emits, forks>>

StateAfter(entries) == IF entries = <<>> THEN Blank ELSE entries[Len(entries)].after

LogInit == log = [c \in Chains |-> <<>>] /\ emits = 0 /\ forks = 0

\* The entry of one event of the deployment's own contracts.
Own(c, kind, k, value) ==
  LET state == StateAfter(log[c])
  IN  [address |-> "nexa", kind |-> kind, key |-> k, previous |-> state[k].val,
       value |-> value, fork |-> forks, after |-> [state EXCEPT ![k] = value]]

Emit(c, entries) ==
  /\ emits < MaxEmits
  /\ log' = [log EXCEPT ![c] = @ \o entries]
  /\ emits' = emits + 1 /\ UNCHANGED forks

\* One transaction registers a key and announces its first status.
Register(c, k) ==
  /\ StateAfter(log[c])[k] = Absent
  /\ LET entry == Own(c, "Registered", k, [val |-> REGISTERED, gen |-> 1])
     IN  Emit(c, <<entry, [entry EXCEPT !.kind = "StatusChanged"]>>)

ChangeStatus(c, k, s) ==
  LET now == StateAfter(log[c])[k]
  IN  /\ now # Absent /\ s # now.val
      /\ Emit(c, <<Own(c, "StatusChanged", k, [val |-> s, gen |-> now.gen + 1])>>)

ConfigureIntake(c, on) ==
  Emit(c, <<Own(c, "SourceIntakeConfigured", Router, [val |-> on, gen |-> 1])>>)

ConfigureModule(c, k, m) ==
  /\ m # StateAfter(log[c])[k].val
  /\ Emit(c, <<Own(c, "StandardModuleConfigured", k, [val |-> m, gen |-> 1])>>)

FillSource(c, f) ==
  /\ StateAfter(log[c])[f] = Absent
  /\ Emit(c, <<Own(c, "SourceFill", f, [val |-> 1, gen |-> 1])>>)

\* Any contract may log an event of the same shape and topics.
Imitate(c, k) ==
  LET state == StateAfter(log[c])
  IN  Emit(c, <<[Own(c, "StatusChanged", k, [val |-> 9, gen |-> 9])
                   EXCEPT !.address = "foreign", !.after = state]>>)

\* A reorganization drops the last transactions of a chain; what follows is a new
\* fork.  A registration is not parted from its announcement.
Announces(e) == e.address = "nexa" /\ e.kind = "StatusChanged" /\ e.previous = 0
Reorganize(c) ==
  /\ forks < MaxForks
  /\ \E n \in 0 .. Len(log[c]) - 1 :
       /\ ~Announces(log[c][n + 1])
       /\ log' = [log EXCEPT ![c] = SubSeq(@, 1, n)]
  /\ forks' = forks + 1 /\ UNCHANGED emits

ChainStep(c) ==
  \/ \E k \in Items : Register(c, k)
  \/ \E k \in Items, s \in Statuses : ChangeStatus(c, k, s)
  \/ \E on \in {0, 1} : ConfigureIntake(c, on)
  \/ \E k \in Standards, m \in Modules : ConfigureModule(c, k, m)
  \/ \E f \in Fills : FillSource(c, f)
  \/ \E k \in Routes : Imitate(c, k)
  \/ Reorganize(c)
=============================================================================
