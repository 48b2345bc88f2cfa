---------------------------- MODULE ServerConfig ----------------------------
(***************************************************************************)
(* PUT /api/servers/[id]: the network settings of a VPN server in three     *)
(* places, the row of vpn_servers, the file the row names (serverConf) with *)
(* the OpenVPN process, and the NAT rules of the host.  One handler reads   *)
(* the row, reads the file, builds the next file, runs a script that        *)
(* installs it and writes the row; the script is a shell process of the     *)
(* server, which goes on when the handler has given up on it.  The lines of *)
(* a file that AccessCore does not manage (keys, ccd directory) are one     *)
(* flag, own: without them OpenVPN does not start.                          *)
(***************************************************************************)
EXTENDS Integers, FiniteSets, Functions

CONSTANTS
    Handler,      \* PUT requests that may be under way at the same time
    Network,      \* values of vpnNetwork
    Initial,      \* the network the container sets up NAT for when it starts
    Interface,    \* the network interfaces of the host
    Outer,        \* the one the container sets up NAT on (eth1)
    Path,         \* values of serverConf
    Home,         \* the file the container starts OpenVPN with
    Other,        \* values of the other settings (ports, DNS, compression)
    Refused,      \* the values of Other with which OpenVPN does not start
    Added,        \* bound: the settings a server may have been added with
    Changes,      \* bound: the bodies of the requests
    MaxPuts,      \* bound: PUT requests
    MaxFaults     \* bound: faults and restarts

ASSUME ConfigAssumption ==
    /\ Initial \in Network /\ Outer \in Interface /\ Home \in Path
    /\ Refused \subseteq Other
    /\ MaxPuts \in Nat /\ MaxFaults \in Nat

Setting == [net : Network, mode : {"NAT", "ROUTING"}, other : Other, path : Path]
Key == {"net", "mode", "other", "path"}

\* The body of a PUT: the network settings it names.  One that names none runs
\* nothing on the server and changes none of this.
Body == UNION {{Restrict(s, K) : s \in Setting} : K \in SUBSET Key \ {{}}}

ASSUME InputAssumption == Added \subseteq Setting /\ Changes \subseteq Body

VARIABLES
    row,      \* the settings in vpn_servers
    exists,   \* whether the row is there
    conf,     \* the file at each path, or NoFile
    bak,      \* its .portal.bak, or NoFile
    nat,      \* MASQUERADE rules of each network on each interface, counted
    default,  \* the interface of the default route
    daemon,   \* the path the running process was started with and the file it read, or Down
    stage,    \* where each handler is
    plan,     \* what it holds: the body, the merged settings, the lines it read
    script,   \* the next line of the script a handler has started
    last,     \* history: the latest PUT of network settings
    calm,     \* history: no two have overlapped and no script was cut off
    puts, faults

config == <<row, exists, conf, bak, nat, default, daemon, stage, plan, script, last, calm,
            puts, faults>>

\* A file: the lines of its own, and the managed ones, which do not name a path.
Managed == {"net", "mode", "other"}
File == [own : BOOLEAN, set : [net : Network, mode : {"NAT", "ROUTING"}, other : Other]]
Down == [down |-> TRUE]
NoFile == [none |-> TRUE]

NoPlan == [none |-> TRUE]
Nobody == "none"
ASSUME NobodyAssumption == Nobody \notin Handler

NoPut == [by |-> Nobody, answer |-> "none", alone |-> FALSE, odd |-> {}, found |-> NoFile]

\* How a script has ended whose handler still waits.
Exit == {"exit 0", "exit 1"}

\* OpenVPN started with the file at path, when files are those of the host.
Starts(file) == file # NoFile /\ file.own /\ file.set.other \notin Refused
Boot(files, path) == IF Starts(files[path]) THEN [path |-> path, file |-> files[path]] ELSE Down

\* Settings, with those a body names in the place of the old ones.
Merge(settings, body) == [k \in Key |-> IF k \in DOMAIN body THEN body[k] ELSE settings[k]]

\* The file built from what was read: its own lines, then the managed ones.
Build(own, settings) == [own |-> own, set |-> Restrict(settings, Managed)]

\* The rules after a start of the container, which adds one and ignores a failure.
Fresh == {[r \in Network \X Interface |-> IF r = <<Initial, Outer>> THEN n ELSE 0] : n \in {0, 1}}

Busy == {h \in Handler : stage[h] # "idle" \/ script[h] # "done"}
AtRest == Busy = {}

ConfigInit ==
    /\ row \in Added
    /\ exists = TRUE
    /\ \E o \in Other \ Refused :
        conf = [p \in Path |->
                  IF p = Home THEN Build(TRUE, [net |-> Initial, mode |-> "NAT", other |-> o]) ELSE NoFile]
    /\ bak = [p \in Path |-> NoFile]
    /\ nat \in Fresh
    /\ default \in Interface
    /\ daemon = Boot(conf, Home)
    /\ stage = [h \in Handler |-> "idle"]
    /\ plan = [h \in Handler |-> NoPlan]
    /\ script = [h \in Handler |-> "done"]
    /\ last = NoPut
    /\ calm = TRUE
    /\ puts = 0 /\ faults = 0

server == <<conf, bak, nat, default, daemon>>
stored == <<row, exists>>

\* A fault of the network, the database or the host.
Fault == faults < MaxFaults /\ faults' = faults + 1

\* The answer of h, when it is the latest PUT of network settings.
Answer(h, what) ==
    last' = IF last.by # h THEN last
            ELSE [last EXCEPT !.answer = what, !.found = IF what = "rejected" THEN @ ELSE NoFile]

\* What happened to the latest PUT, when it is h, that its answer does not say.
Odd(h, what) == last' = IF last.by # h THEN last ELSE [last EXCEPT !.odd = @ \cup {what}]

\* The handler ends; a script of its own that still runs keeps its text.
Leave(h) ==
    /\ stage' = [stage EXCEPT ![h] = "idle"]
    /\ plan' = [plan EXCEPT ![h] = IF script'[h] = "done" THEN NoPlan ELSE @]

-----------------------------------------------------------------------------
(***************************************************************************)
(* The handler.                                                             *)
(***************************************************************************)

\* The request is validated and merged with the row.
Put(h, body) ==
    /\ puts < MaxPuts /\ puts' = puts + 1
    /\ h \notin Busy
    /\ exists
    /\ plan' = [plan EXCEPT ![h] = [body |-> body, set |-> Merge(row, body), own |-> TRUE]]
    /\ stage' = [stage EXCEPT ![h] = "cat"]
    /\ last' = [by |-> h, answer |-> "none", alone |-> AtRest, odd |-> {}, found |-> conf]
    /\ calm' = (calm /\ AtRest)
    /\ UNCHANGED <<stored, server, script, faults>>

\* cat ... || echo "": what cannot be read is an empty file.
Cat(h) ==
    /\ stage[h] = "cat"
    /\ stage' = [stage EXCEPT ![h] = "apply"]
    /\ LET file == conf[plan[h].set.path] IN
       \/ plan' = [plan EXCEPT ![h].own = (file # NoFile /\ file.own)] /\ UNCHANGED faults
       \/ plan' = [plan EXCEPT ![h].own = FALSE] /\ Fault
    /\ UNCHANGED <<stored, server, script, last, calm, puts>>

\* executeCommand starts the script and waits for it.
Apply(h) ==
    /\ stage[h] = "apply"
    /\ stage' = [stage EXCEPT ![h] = "wait"]
    /\ script' = [script EXCEPT ![h] = "backup"]
    /\ UNCHANGED <<stored, server, plan, last, calm, puts, faults>>

\* The transport throws before the command has started.
Unreached(h) ==
    /\ stage[h] \in {"cat", "apply"}
    /\ Fault
    /\ UNCHANGED script
    /\ Answer(h, "failed")
    /\ Leave(h)
    /\ UNCHANGED <<stored, server, calm, puts>>

\* It throws while the command runs, which goes on to its end.
StopsWaiting(h) ==
    /\ stage[h] = "wait"
    /\ Fault
    /\ script' = [script EXCEPT ![h] = IF @ \in Exit THEN "done" ELSE @]
    /\ Answer(h, "failed")
    /\ Leave(h)
    /\ UNCHANGED <<stored, server, calm, puts>>

\* The connection ends without an exit code, which SshTransport takes for 0; the
\* command goes on.
Unheard(h) ==
    /\ stage[h] = "wait"
    /\ Fault
    /\ script' = [script EXCEPT ![h] = IF @ \in Exit THEN "done" ELSE @]
    /\ stage' = [stage EXCEPT ![h] = "update"]
    /\ Odd(h, "unheard")
    /\ UNCHANGED <<stored, server, plan, calm, puts>>

\* An exit code other than 0 is a 502, and the row stays.
Report(h) ==
    /\ stage[h] = "wait" /\ script[h] \in Exit
    /\ script' = [script EXCEPT ![h] = "done"]
    /\ IF script[h] = "exit 0"
       THEN /\ stage' = [stage EXCEPT ![h] = "update"]
            /\ UNCHANGED <<plan, last>>
       ELSE Leave(h) /\ Answer(h, "rejected")
    /\ UNCHANGED <<stored, server, calm, puts, faults>>

\* The row takes what the body names; the audit entry after it may fail.
Update(h) ==
    /\ stage[h] = "update"
    /\ exists
    /\ row' = Merge(row, plan[h].body)
    /\ \/ Answer(h, "saved") /\ UNCHANGED faults
       \/ Answer(h, "failed") /\ Fault
    /\ UNCHANGED script
    /\ Leave(h)
    /\ UNCHANGED <<exists, server, calm, puts>>

\* The update fails after the server has been changed: the database is away,
\* or the row is gone.
UpdateFails(h) ==
    /\ stage[h] = "update"
    /\ IF exists THEN Fault ELSE UNCHANGED faults
    /\ UNCHANGED script
    /\ Answer(h, "failed")
    /\ Leave(h)
    /\ UNCHANGED <<stored, server, calm, puts>>

Delete ==
    /\ exists
    /\ exists' = FALSE
    /\ UNCHANGED <<row, server, stage, plan, script, last, calm, puts, faults>>

-----------------------------------------------------------------------------
(***************************************************************************)
(* The script, line by line.                                                *)
(***************************************************************************)

Line(h, now, next) ==
    /\ script[h] = now
    /\ script' = [script EXCEPT ![h] = next]
    /\ UNCHANGED <<stored, default, stage, calm, puts>>

\* A line that does what it should, whatever became of the lines before.
Plain(h, now, next) == Line(h, now, next) /\ UNCHANGED <<last, faults>>

\* The file the script is about.
Place(h) == plan[h].set.path

\* Mutant of Backup: the backup is made of the file that is about to be written.
BackupOfNew(h) ==
    /\ Plain(h, "backup", "write")
    /\ bak' = [bak EXCEPT ![Place(h)] = Build(plan[h].own, plan[h].set)]
    /\ UNCHANGED <<conf, nat, daemon, plan>>

\* cp ... || true: a file that is not there leaves the backup as it is.
Backup(h) ==
    /\ Plain(h, "backup", "write")
    /\ bak' = [bak EXCEPT ![Place(h)] = IF conf[Place(h)] = NoFile THEN @ ELSE conf[Place(h)]]
    /\ UNCHANGED <<conf, nat, daemon, plan>>

Write(h) ==
    /\ Plain(h, "write", "unset")
    /\ conf' = [conf EXCEPT ![Place(h)] = Build(plan[h].own, plan[h].set)]
    /\ UNCHANGED <<bak, nat, daemon, plan>>

\* The rule the iptables commands are about.
Rule(h) == <<plan[h].set.net, default>>
Routing(h) == plan[h].set.mode = "ROUTING"

\* Mutant of Unset: the rule is removed only to be set again.
RuleKept(h) ==
    /\ Plain(h, "unset", IF Routing(h) THEN "reload" ELSE "test")
    /\ nat' = [nat EXCEPT ![Rule(h)] = IF @ = 0 \/ Routing(h) THEN @ ELSE @ - 1]
    /\ UNCHANGED <<conf, bak, daemon, plan>>

\* iptables -D ... || true removes one of the rules that match, when it works.
Unset(h) ==
    /\ Line(h, "unset", IF Routing(h) THEN "reload" ELSE "test")
    /\ \/ /\ nat' = [nat EXCEPT ![Rule(h)] = IF @ = 0 THEN 0 ELSE @ - 1]
          /\ IF Routing(h) /\ nat[Rule(h)] > 1 THEN Odd(h, "twice") ELSE UNCHANGED last
          /\ UNCHANGED faults
       \/ /\ Fault
          /\ IF Routing(h) THEN Odd(h, "missed") ELSE UNCHANGED last
          /\ UNCHANGED nat
    /\ UNCHANGED <<conf, bak, daemon, plan>>

\* iptables -C ...: a failure is taken for a rule that is not there.
Test(h) ==
    /\ \/ Plain(h, "test", IF nat[Rule(h)] = 0 THEN "set" ELSE "reload")
       \/ Line(h, "test", "set") /\ Fault /\ UNCHANGED last
    /\ UNCHANGED <<conf, bak, nat, daemon, plan>>

\* ... || iptables -A ..., whose failure nothing looks at.
Set(h) ==
    /\ Line(h, "set", "reload")
    /\ \/ nat' = [nat EXCEPT ![Rule(h)] = @ + 1] /\ UNCHANGED <<last, faults>>
       \/ Fault /\ Odd(h, "missed") /\ UNCHANGED nat
    /\ UNCHANGED <<conf, bak, daemon, plan>>

\* SIGHUP: a running process reads the file it was started with again, or ends.
Reload(h) ==
    /\ Plain(h, "reload", "start")
    /\ daemon' = IF daemon = Down THEN Down ELSE Boot(conf, daemon.path)
    /\ UNCHANGED <<conf, bak, nat, plan>>

Start(h) ==
    /\ Plain(h, "start", "check")
    /\ daemon' = IF daemon = Down THEN Boot(conf, Place(h)) ELSE daemon
    /\ UNCHANGED <<conf, bak, nat, plan>>

\* Mutant of Restored: the process is started without putting the backup back.
NotRestored(h) == conf

\* What the files are after the last line: without a process, the backup.
Restored(h) ==
    [conf EXCEPT ![Place(h)] = IF daemon # Down \/ bak[Place(h)] = NoFile THEN @ ELSE bak[Place(h)]]

\* The last line, whose exit code is the script's.
ExitCode == IF daemon = Down THEN "exit 1" ELSE "exit 0"

Check(h) ==
    /\ Plain(h, "check", IF stage[h] = "wait" THEN ExitCode ELSE "done")
    /\ conf' = Restored(h)
    /\ daemon' = IF daemon = Down THEN Boot(Restored(h), Place(h)) ELSE daemon
    /\ plan' = [plan EXCEPT ![h] = IF stage[h] = "idle" THEN NoPlan ELSE @]
    /\ UNCHANGED <<bak, nat>>

\* The host restarts: scripts end where they are, the rules are those of the
\* container's start, and OpenVPN reads the file the container names.
Restart ==
    /\ Fault
    /\ script' = [h \in Handler |-> "done"]
    /\ stage' = [h \in Handler |-> IF stage[h] = "wait" THEN "idle" ELSE stage[h]]
    /\ plan' = [h \in Handler |-> IF stage[h] \in {"wait", "idle"} THEN NoPlan ELSE plan[h]]
    /\ nat' \in Fresh
    /\ daemon' = Boot(conf, Home)
    /\ calm' = (calm /\ \A h \in Handler : script[h] \in {"done"} \cup Exit)
    /\ last' = NoPut
    /\ UNCHANGED <<stored, conf, bak, default, puts>>

ConfigNext ==
    \/ \E h \in Handler :
        \/ \E body \in Changes : Put(h, body)
        \/ Cat(h) \/ Apply(h) \/ Unreached(h) \/ StopsWaiting(h) \/ Unheard(h)
        \/ Report(h) \/ Update(h) \/ UpdateFails(h)
        \/ Backup(h) \/ Write(h) \/ Unset(h) \/ Test(h) \/ Set(h)
        \/ Reload(h) \/ Start(h) \/ Check(h)
    \/ Delete
    \/ Restart

ConfigSpec == ConfigInit /\ [][ConfigNext]_config

-----------------------------------------------------------------------------
ConfigTypeOK ==
    /\ row \in Setting /\ exists \in BOOLEAN
    /\ conf \in [Path -> File \cup {NoFile}] /\ bak \in [Path -> File \cup {NoFile}]
    /\ nat \in [Network \X Interface -> Nat] /\ default \in Interface
    /\ daemon \in [path : Path, file : File] \cup {Down}
    /\ stage \in [Handler -> {"idle", "cat", "apply", "wait", "update"}]
    /\ script \in [Handler -> {"backup", "write", "unset", "test", "set", "reload", "start", "check",
                              "done"} \cup Exit]
    /\ plan \in [Handler -> [body : Body, set : Setting, own : BOOLEAN] \cup {NoPlan}]
    /\ last \in [by : Handler \cup {Nobody}, answer : {"none", "saved", "failed", "rejected"},
                 alone : BOOLEAN, odd : SUBSET {"missed", "twice", "unheard"},
                 found : [Path -> File \cup {NoFile}] \cup {NoFile}]
    /\ calm \in BOOLEAN

\* While no two PUTs overlap and no script is cut off, whatever else fails (a
\* file that cannot be read, settings OpenVPN refuses, a handler that gives up,
\* a row that is gone, a serverConf that has moved), the server is left with a
\* process that runs on the file the container starts it with as that file is
\* now, so that a restart brings it back.
KeepsRunning ==
    calm /\ AtRest => Starts(conf[Home]) /\ daemon = [path |-> Home, file |-> conf[Home]]

\* A PUT nothing overlaps with and that answers 200 leaves the managed lines of
\* the file the row names, and the rules of its network on the default route, as
\* the row says, and a process that has read its own file as it now is, whatever
\* state overlapping requests, lost updates and restarts had left before.  All of
\* it is excepted when the transport heard no exit code and took it for 0; the
\* rules are excepted when iptables -A (for NAT) or -D (for ROUTING) failed, and
\* when there was more than one rule to remove.
SavedIsApplied ==
    AtRest /\ last.answer = "saved" /\ last.alone /\ "unheard" \notin last.odd /\ exists =>
        /\ conf[row.path] # NoFile /\ conf[row.path].set = Restrict(row, Managed)
        /\ daemon # Down /\ daemon.file = conf[daemon.path]
        /\ last.odd = {} => (nat[<<row.net, default>>] > 0 <=> row.mode = "NAT")

\* A PUT nothing overlaps with and whose script exits with 1 leaves the files it
\* found, and a process that has read the one it was started with.
RejectedIsRestored ==
    AtRest /\ calm /\ last.answer = "rejected" =>
        conf = last.found /\ daemon = [path |-> Home, file |-> conf[Home]]
=============================================================================
