------------------------------ MODULE Settings ------------------------------
(***************************************************************************)
(* The provider daemon's configuration file and the processes that use it: *)
(* the daemon, which reads it once, and the one-shot commands of its CLI   *)
(* (the console calls them), each of which loads the whole file, changes   *)
(* its copy and writes the whole file again.  os.WriteFile truncates the   *)
(* file and then writes it; of two writers that overlap the later one is   *)
(* taken to leave its file.                                                *)
(*                                                                         *)
(* A field is 0 when it is not set, which LoadConfig takes for missing,    *)
(* 1 when it has its default and 2 when the owner chose it.  `own' stands  *)
(* for the fields that only the owner edits (instance ID, URLs), `pref'    *)
(* for the four that --update-settings-json replaces together.             *)
(***************************************************************************)
EXTENDS Naturals

CONSTANTS
  MaxProcesses, \* bound: runs of the daemon's program
  ConfigGPUs    \* GPU ids that --gpu-id may name

ASSUME SettingsAssumption == MaxProcesses \in Nat

VARIABLES
  file,         \* the file: absent, truncated or whole, and its fields
  process,      \* each process: where it is, its command and its copy
  promised,     \* what the file should hold: what was there and every change
                \* that was reported as saved
  mixed,        \* a process started while another was under way
  cut           \* a process died or failed between truncation and write

Processes == 1..MaxProcesses

settingsVars == <<file, process, promised, mixed, cut>>

Fields == 0..2
NoEntries == [g \in {} |-> 0]
Entry == [available : BOOLEAN, rate : {0, 2}]
Config == [own : Fields, pref : Fields,
           gpus : UNION {[S -> Entry] : S \in SUBSET ConfigGPUs}]

Blank == [own |-> 0, pref |-> 0, gpus |-> NoEntries]
DefaultConfig == [own |-> 1, pref |-> 1, gpus |-> NoEntries]

\* applyDefaultsIfNotSet: a setting of zero counts as missing.  The rates of
\* the GPUs have no default.
ApplyDefaults(c) ==
  [c EXCEPT !.own = IF @ = 0 THEN 1 ELSE @, !.pref = IF @ = 0 THEN 1 ELSE @]

\* `get' stands for the commands that only read and for those refused for
\* what they were given: settings that are not JSON, a GPU without an ID, an
\* availability that is not a Boolean.
Commands ==
  [name : {"daemon", "get"}]
  \cup [name : {"update"}, pref : {0, 2}]
  \cup [name : {"gpu"}, gpu : ConfigGPUs, available : {"", "true"},
        rate : {2, 9}]   \* 9: a negative rate, which means none was given

Starting == [at |-> "new", command |-> [name |-> "get"], copy |-> Blank]

SettingsTypeOK ==
  /\ file \in [state : {"absent", "empty", "whole"}, fields : Config]
  /\ promised \in Config
  /\ \A p \in Processes : process[p].copy \in Config

SettingsInit ==
  /\ \E there \in BOOLEAN :
       /\ file = [state |-> IF there THEN "whole" ELSE "absent",
                  fields |-> IF there THEN [Blank EXCEPT !.own = 2] ELSE Blank]
       /\ promised = IF there THEN [DefaultConfig EXCEPT !.own = 2] ELSE DefaultConfig
  /\ process = [p \in Processes |-> Starting]
  /\ mixed = FALSE /\ cut = FALSE

Is(p, at) == process[p].at = at
Becomes(p, at) == process' = [process EXCEPT ![p].at = at]
Exits(p) == process' = [process EXCEPT ![p] = [Starting EXCEPT !.at = "exited"]]
UnderWay(p) == process[p].at \notin {"new", "exited", "running"}

----------------------------------------------------------------------------
Invoke(p) ==
  /\ Is(p, "new") /\ \A q \in 1..p - 1 : ~Is(q, "new")
  /\ \E c \in Commands : process' = [process EXCEPT ![p] = [@ EXCEPT !.at = "load", !.command = c]]
  /\ mixed' = (mixed \/ \E q \in Processes : UnderWay(q))
  /\ UNCHANGED <<file, promised, cut>>

\* LoadConfig.  An empty file is a configuration without fields.
LoadConfig(p) ==
  /\ Is(p, "load")
  /\ \/ /\ file.state = "absent"
        /\ process' = [process EXCEPT ![p].at = "create", ![p].copy = DefaultConfig]
     \/ /\ file.state # "absent"
        /\ process' = [process EXCEPT ![p].at = "run",
             ![p].copy = ApplyDefaults(IF file.state = "empty" THEN Blank ELSE file.fields)]
  /\ UNCHANGED <<file, promised, mixed, cut>>

\* A command that writes the entry anew from what it was given.
SetGpuRentalConfigAnew(c, cmd) ==
  LET new == [available |-> cmd.available = "true", rate |-> IF cmd.rate = 9 THEN 0 ELSE cmd.rate]
  IN [c EXCEPT !.gpus = [h \in DOMAIN @ \cup {cmd.gpu} |-> IF h = cmd.gpu THEN new ELSE @[h]]]

\* handleSetGpuRentalConfig: what was given replaces what the entry has, and
\* a GPU without an entry gets one.
SetGpuRentalConfig(c, cmd) ==
  LET g == cmd.gpu
      old == IF g \in DOMAIN c.gpus THEN c.gpus[g] ELSE [available |-> FALSE, rate |-> 0]
      new == [available |-> IF cmd.available = "" THEN old.available
                            ELSE cmd.available = "true",
              rate |-> IF cmd.rate = 9 THEN old.rate ELSE cmd.rate]
  IN [c EXCEPT !.gpus = [h \in DOMAIN @ \cup {g} |-> IF h = g THEN new ELSE @[h]]]

Changed(c, cmd) ==
  IF cmd.name = "update" THEN [c EXCEPT !.pref = cmd.pref] ELSE SetGpuRentalConfig(c, cmd)

\* The commands of `get' answer and exit; a GPU command that gives neither a
\* rate nor an availability is refused; the daemon runs on with its copy.
RunCommand(p) ==
  LET cmd == process[p].command IN
  /\ Is(p, "run")
  /\ \/ cmd.name = "daemon" /\ Becomes(p, "running")
     \/ cmd.name = "get" /\ Exits(p)
     \/ cmd.name = "gpu" /\ cmd.available = "" /\ cmd.rate = 9 /\ Exits(p)
     \/ /\ cmd.name = "update" \/ (cmd.name = "gpu" /\ (cmd.available # "" \/ cmd.rate # 9))
        /\ process' = [process EXCEPT ![p].at = "save", ![p].copy = Changed(@, cmd)]
  /\ UNCHANGED <<file, promised, mixed, cut>>

\* os.WriteFile, for the default file of LoadConfig and in SaveConfig: the
\* file is opened and truncated, which may fail.
Truncate(p) ==
  /\ \/ Is(p, "create") /\ Becomes(p, "fill")
     \/ Is(p, "save") /\ Becomes(p, "write")
  /\ file' = [state |-> "empty", fields |-> Blank]
  /\ UNCHANGED <<promised, mixed, cut>>

WriteDefault(p) ==
  /\ Is(p, "fill") /\ Becomes(p, "run")
  /\ file' = [state |-> "whole", fields |-> process[p].copy]
  /\ UNCHANGED <<promised, mixed, cut>>

\* What a success promises: the fields that were given, and the others as they
\* were promised before.
Promise(cmd) ==
  IF cmd.name = "update"
  THEN [promised EXCEPT !.pref = IF cmd.pref = 0 THEN 1 ELSE cmd.pref]
  ELSE LET was == [h \in ConfigGPUs |-> IF h \in DOMAIN promised.gpus THEN promised.gpus[h]
                                        ELSE [available |-> FALSE, rate |-> 0]]
       IN [promised EXCEPT !.gpus = [h \in DOMAIN @ \cup {cmd.gpu} |->
             [available |-> IF h = cmd.gpu /\ cmd.available # "" THEN cmd.available = "true"
                            ELSE was[h].available,
              rate |-> IF h = cmd.gpu /\ cmd.rate # 9 THEN cmd.rate ELSE was[h].rate]]]

SaveConfig(p) ==
  /\ Is(p, "write") /\ Exits(p)
  /\ file' = [state |-> "whole", fields |-> process[p].copy]
  /\ promised' = Promise(process[p].command)
  /\ UNCHANGED <<mixed, cut>>

\* A file operation fails and the process exits, or it is killed.
Fails(p) ==
  /\ UnderWay(p) /\ Exits(p)
  /\ cut' = (cut \/ process[p].at \in {"fill", "write"})
  /\ UNCHANGED <<file, promised, mixed>>

DaemonStops(p) ==
  /\ Is(p, "running") /\ Exits(p)
  /\ UNCHANGED <<file, promised, mixed, cut>>

SettingsNext ==
  \E p \in Processes :
    \/ Invoke(p) \/ LoadConfig(p) \/ RunCommand(p) \/ Truncate(p)
    \/ WriteDefault(p) \/ SaveConfig(p) \/ Fails(p) \/ DaemonStops(p)

----------------------------------------------------------------------------
\* What a process will load is what the owner wrote with every change that a
\* command reported as saved, and nothing else, although each command writes
\* all fields: as long as commands do not overlap and none dies while it
\* writes.  Otherwise the file may be empty, and the next command makes the
\* loss of every field permanent.
SavedIsKept ==
  ~mixed /\ ~cut /\ file.state = "whole" => ApplyDefaults(file.fields) = promised

\* Neither does a daemon start with other fields than the owner's.
StartsAsConfigured ==
  ~mixed /\ ~cut => \A p \in Processes :
    Is(p, "running") => process[p].copy.own = promised.own

SettingsSound == SavedIsKept /\ StartsAsConfigured
=============================================================================
