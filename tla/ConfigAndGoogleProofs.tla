------------------------- MODULE ConfigAndGoogleProofs -------------------------
(***************************************************************************)
(* Two sets of proofs.                                                     *)
(*                                                                         *)
(* ServerConfig: what holds of PUT /api/servers/[id] for any number of      *)
(* requests, faults, paths and settings.  The properties speak of moments   *)
(* at which no script runs; the invariants say what each line of the script *)
(* leaves to the next: RunInv of a process that runs on the file the        *)
(* container starts it with, SaveInv of the settings on their way to the    *)
(* file, the rules, the process and the row, RestoreInv of the files found  *)
(* at the start on their way to the backup and back.                        *)
(*                                                                         *)
(* GoogleSync: what holds of the synchronisation with Google for any number *)
(* of emails, groups, mappings and overlapping syncs.  What a sync has      *)
(* achieved is only visible once it is done; before, it is split between    *)
(* the rows and what the sync still has to do.  The invariant says of each  *)
(* sync what its snapshots are worth (SnapshotOK), what the work in hand    *)
(* was computed from (BatchOK), and that whoever should be in a group, or   *)
(* flagged, is so, or still in hand (ServedOK, LeftOK).                     *)
(***************************************************************************)
EXTENDS ServerConfig, GoogleSync, FiniteSetTheorems, WellFoundedInduction, TLAPS

-----------------------------------------------------------------------------
(* The settings of a server. *)

\* The lines of a script that has not ended, and those after its file is written.
Lines == {"backup", "write", "unset", "test", "set", "reload", "start", "check"}
Installed == Lines \ {"backup", "write"}

\* A handler that waits or is about to update, and a script that runs, have settings.
Job == [body : Body, set : Setting, own : BOOLEAN]
ScriptOK ==
    \A h \in Handler :
        /\ stage[h] # "idle" \/ script[h] \in Lines => plan[h] \in Job
        /\ stage[h] \in {"cat", "apply"} => script[h] = "done"
        /\ stage[h] # "wait" => script[h] \notin Exit

TypeInv == ConfigTypeOK /\ ScriptOK

\* A process that has read its file as it is now.
Current == daemon # Down /\ daemon.file = conf[daemon.path]
Up == Starts(conf[Home]) /\ daemon = [path |-> Home, file |-> conf[Home]]

\* What the lines after the file is written rely on: a backup of the file the
\* container starts with, or that this file is not theirs.
Safe(h) == IF Place(h) = Home THEN Starts(bak[Home]) ELSE Up

RunInv ==
    calm =>
        /\ \A h, g \in Busy : h = g
        /\ daemon # Down => daemon.path = Home
        /\ (\A h \in Handler : script[h] \notin Lines) => Up
        /\ \A h \in Handler :
             /\ script[h] \in {"backup", "write"} => Up
             /\ script[h] = "write" /\ conf[Place(h)] # NoFile => bak[Place(h)] = conf[Place(h)]
             /\ script[h] \in Installed => Safe(h)
             /\ script[h] \in {"start", "check"} /\ daemon # Down => Up

\* The file a request writes holds what it asks for.
Made(settings) == conf[settings.path] # NoFile /\ conf[settings.path].set = Restrict(settings, Managed)

\* The NAT rule of a network is there when the settings ask for it.
Ruled(settings) == nat[<<settings.net, default>>] > 0 <=> settings.mode = "NAT"

\* How far the settings of a request nothing overlaps with have come.
SaveStage(h) ==
    /\ stage[h] # "idle" => plan[h].set = Merge(row, plan[h].body)
    /\ stage[h] = "update" => script[h] = "done"
    /\ script[h] \in Installed \cup {"exit 0"} \/ stage[h] = "update" => Made(plan[h].set)
    /\ script[h] \in {"test", "set"} => plan[h].set.mode = "NAT"
    /\ script[h] \in {"reload", "start", "check", "exit 0"} \/ stage[h] = "update" =>
            (last.odd = {} => Ruled(plan[h].set))
    /\ script[h] \in {"start", "check"} => daemon = Down \/ Current
    /\ script[h] = "exit 0" \/ stage[h] = "update" => Current

Saved == Busy = {} /\ Made(row) /\ (last.odd = {} => Ruled(row)) /\ Current

SaveInv ==
    last.alone /\ "unheard" \notin last.odd =>
        /\ Busy \subseteq {last.by}
        /\ \A h \in Busy : SaveStage(h)
        /\ last.answer = "saved" => Saved

\* Where the file is that the latest request has found.
RestoreStage(h) ==
    /\ stage[h] \in {"cat", "apply"} => conf = last.found
    /\ stage[h] = "wait" =>
         /\ script[h] \in {"backup", "write", "exit 1"} => conf = last.found
         /\ script[h] \in Installed =>
              /\ last.found \in [Path -> File \cup {NoFile}] /\ last.found[Home] # NoFile
              /\ \A p \in Path \ {Place(h)} : conf[p] = last.found[p]
              /\ last.found[Place(h)] # NoFile => bak[Place(h)] = last.found[Place(h)]

Restoring ==
    /\ Busy \subseteq {last.by}
    /\ \A h \in Busy : RestoreStage(h)
    /\ last.answer = "rejected" => Busy = {} /\ conf = last.found

RestoreInv ==
    /\ last.by = Nobody => last.answer = "none"
    /\ calm /\ last.by # Nobody => Restoring

-----------------------------------------------------------------------------

USE ConfigAssumption

\* A body names settings, and what it names replaces the old ones.
LEMMA MergeType ==
    ASSUME NEW settings \in Setting, NEW body \in Body PROVE Merge(settings, body) \in Setting
<1>1. PICK s \in Setting, K \in SUBSET Key : body = [k \in K |-> s[k]]
    BY DEF Body, Restrict
<1>2. DOMAIN body = K /\ \A k \in K : body[k] = s[k]
    BY <1>1
<1>3. PICK m : m = Merge(settings, body)
    OBVIOUS
<1>4. /\ m = [k \in Key |-> IF k \in K THEN s[k] ELSE settings[k]]
      /\ m["net"] \in Network /\ m["mode"] \in {"NAT", "ROUTING"} /\ m["other"] \in Other
      /\ m["path"] \in Path
    BY <1>2, <1>3 DEF Merge, Key, Setting
<1>5. m \in Setting
    BY <1>4 DEF Key, Setting
<1> QED BY <1>3, <1>5

LEMMA BuildType ==
    ASSUME NEW own \in BOOLEAN, NEW set \in Setting
    PROVE  /\ Build(own, set) \in File /\ Build(own, set) # NoFile
           /\ Build(own, set).own = own /\ Build(own, set).set = Restrict(set, Managed)
<1>1. PICK r : r = Restrict(set, Managed)
    OBVIOUS
<1>2. r = [k \in Managed |-> set[k]]
    BY <1>1 DEF Restrict
<1>3. r \in [net : Network, mode : {"NAT", "ROUTING"}, other : Other]
    BY <1>2 DEF Setting, Managed
<1> QED BY <1>1, <1>3 DEF Build, File, NoFile

\* A file that is there, and one that is not, are told apart.
LEMMA FileType == NoFile \notin File /\ Down \notin [path : Path, file : File]
BY DEF File, NoFile, Down

LEMMA BootType ==
    ASSUME NEW files \in [Path -> File \cup {NoFile}], NEW path \in Path
    PROVE  Boot(files, path) \in [path : Path, file : File] \cup {Down}
BY DEF Boot, Starts

\* Where a process stands that has been started, or has read its file again.
LEMMA BootIs ==
    ASSUME NEW files, NEW path, Boot(files, path) # Down
    PROVE  /\ Starts(files[path]) /\ Boot(files, path) = [path |-> path, file |-> files[path]]
           /\ Boot(files, path).path = path /\ Boot(files, path).file = files[path]
BY DEF Boot

LEMMA FreshType == ASSUME NEW rules \in Fresh PROVE rules \in [Network \X Interface -> Nat]
BY DEF Fresh

Record == [by : Handler \cup {Nobody}, answer : {"none", "saved", "failed", "rejected"},
           alone : BOOLEAN, odd : SUBSET {"missed", "twice", "unheard"},
           found : [Path -> File \cup {NoFile}] \cup {NoFile}]

\* What an answer, and what it does not say, change in the record of the latest
\* request.
LEMMA AnswerIs ==
    ASSUME last \in Record, NEW h \in Handler, NEW what, Answer(h, what)
    PROVE  /\ last'.by = last.by /\ last'.alone = last.alone /\ last'.odd = last.odd
           /\ last.by # h => last' = last
           /\ last.by = h => last'.answer = what
           /\ what = "rejected" => last'.found = last.found
           /\ what \in {"saved", "failed", "rejected"} => last' \in Record
BY DEF Answer, Record

LEMMA OddIs ==
    ASSUME last \in Record, NEW h \in Handler, NEW what \in {"missed", "twice", "unheard"}, Odd(h, what)
    PROVE  /\ last'.by = last.by /\ last'.alone = last.alone
           /\ last'.answer = last.answer /\ last'.found = last.found
           /\ last.odd \subseteq last'.odd
           /\ last.by # h => last' = last
           /\ last.by = h => what \in last'.odd
           /\ last' \in Record
BY DEF Odd, Record

\* What the record of a new request is.
LEMMA PutIs ==
    ASSUME NEW h \in Handler, NEW body, Put(h, body)
    PROVE  /\ last'.by = h /\ last'.answer = "none" /\ last'.alone = AtRest
           /\ last'.odd = {} /\ last'.found = conf
<1>1. PICK alone : alone = AtRest
    OBVIOUS
<1>2. last' = [by |-> h, answer |-> "none", alone |-> alone, odd |-> {}, found |-> conf]
    BY <1>1 DEF Put
<1> QED BY <1>1, <1>2

LEMMA Types ==
    ASSUME TypeInv
    PROVE  /\ row \in Setting /\ exists \in BOOLEAN
           /\ conf \in [Path -> File \cup {NoFile}] /\ bak \in [Path -> File \cup {NoFile}]
           /\ nat \in [Network \X Interface -> Nat] /\ default \in Interface
           /\ daemon \in [path : Path, file : File] \cup {Down}
           /\ stage \in [Handler -> {"idle", "cat", "apply", "wait", "update"}]
           /\ script \in [Handler -> Lines \cup {"done"} \cup Exit]
           /\ plan \in [Handler -> Job \cup {NoPlan}]
           /\ last \in Record /\ calm \in BOOLEAN
           /\ \A h \in Handler : /\ stage[h] # "idle" \/ script[h] \in Lines => plan[h] \in Job
                                 /\ stage[h] \in {"cat", "apply"} => script[h] = "done"
                                 /\ stage[h] # "wait" => script[h] \notin Exit
           /\ Lines \cap Exit = {} /\ "done" \notin Lines /\ "done" \notin Exit
BY DEF TypeInv, ConfigTypeOK, ScriptOK, Lines, Exit, Job, Record

\* What a script that runs is about.
LEMMA JobIs ==
    ASSUME TypeInv, NEW h \in Handler, script[h] \in Lines
    PROVE  /\ plan[h] \in Job /\ plan[h].set \in Setting /\ plan[h].own \in BOOLEAN
           /\ Place(h) \in Path /\ Rule(h) \in Network \X Interface /\ nat[Rule(h)] \in Nat
<1>1. plan[h] \in Job /\ default \in Interface /\ nat \in [Network \X Interface -> Nat]
    BY Types
<1>2. plan[h].set \in Setting /\ plan[h].own \in BOOLEAN
    BY <1>1 DEF Job
<1>3. Place(h) \in Path /\ Rule(h) \in Network \X Interface
    BY <1>1, <1>2 DEF Place, Rule, Setting
<1> QED BY <1>1, <1>2, <1>3

\* Every variable keeps its type, and what runs has something to run with.
LEMMA ConfigTypeStep == TypeInv /\ [ConfigNext]_config => TypeInv'
<1> SUFFICES ASSUME TypeInv, [ConfigNext]_config PROVE TypeInv'
    OBVIOUS
<1> DEFINE Files == [Path -> File \cup {NoFile}]
<1>t. /\ row \in Setting /\ exists \in BOOLEAN /\ conf \in Files /\ bak \in Files
      /\ nat \in [Network \X Interface -> Nat] /\ default \in Interface
      /\ daemon \in [path : Path, file : File] \cup {Down}
      /\ stage \in [Handler -> {"idle", "cat", "apply", "wait", "update"}]
      /\ script \in [Handler -> Lines \cup {"done"} \cup Exit]
      /\ plan \in [Handler -> Job \cup {NoPlan}]
      /\ last \in Record /\ calm \in BOOLEAN
    BY Types
<1>s. ASSUME NEW h \in Handler
      PROVE  /\ stage[h] # "idle" \/ script[h] \in Lines => plan[h] \in Job
             /\ stage[h] \in {"cat", "apply"} => script[h] = "done"
             /\ stage[h] # "wait" => script[h] \notin Exit
    BY Types
\* The settings and the server, and the handlers, apart.
<1>d. ASSUME row' \in Setting, exists' \in BOOLEAN, conf' \in Files, bak' \in Files,
             nat' \in [Network \X Interface -> Nat], default' \in Interface,
             daemon' \in [path : Path, file : File] \cup {Down},
             last' \in Record, calm' \in BOOLEAN,
             stage' \in [Handler -> {"idle", "cat", "apply", "wait", "update"}],
             script' \in [Handler -> Lines \cup {"done"} \cup Exit],
             plan' \in [Handler -> Job \cup {NoPlan}],
             \A h \in Handler :
                 /\ stage'[h] # "idle" \/ script'[h] \in Lines => plan'[h] \in Job
                 /\ stage'[h] \in {"cat", "apply"} => script'[h] = "done"
                 /\ stage'[h] # "wait" => script'[h] \notin Exit
      PROVE  TypeInv'
    BY <1>d DEF TypeInv, ConfigTypeOK, ScriptOK, Lines, Job, Record
<1>e. /\ UNCHANGED <<stored, server>> => /\ row' \in Setting /\ exists' \in BOOLEAN /\ conf' \in Files
                                         /\ bak' \in Files /\ nat' \in [Network \X Interface -> Nat]
                                         /\ default' \in Interface
                                         /\ daemon' \in [path : Path, file : File] \cup {Down}
      /\ Lines \cap Exit = {} /\ "done" \notin Lines /\ "done" \notin Exit
    BY <1>t DEF stored, server, Lines, Exit
<1> HIDE DEF Files
\* A step that moves one handler.
<1>h. ASSUME NEW h \in Handler, NEW at, NEW line, NEW job,
             stage' = [stage EXCEPT ![h] = at], script' = [script EXCEPT ![h] = line],
             plan' = [plan EXCEPT ![h] = job],
             at \in {"idle", "cat", "apply", "wait", "update"}, line \in Lines \cup {"done"} \cup Exit,
             job \in Job \cup {NoPlan}, at # "idle" \/ line \in Lines => job \in Job,
             at \in {"cat", "apply"} => line = "done", at # "wait" => line \notin Exit,
             row' \in Setting, exists' \in BOOLEAN, conf' \in Files, bak' \in Files,
             nat' \in [Network \X Interface -> Nat], default' \in Interface,
             daemon' \in [path : Path, file : File] \cup {Down}, last' \in Record, calm' \in BOOLEAN
      PROVE  TypeInv'
  <2>1. /\ stage' \in [Handler -> {"idle", "cat", "apply", "wait", "update"}]
        /\ script' \in [Handler -> Lines \cup {"done"} \cup Exit]
        /\ plan' \in [Handler -> Job \cup {NoPlan}]
    BY <1>t, <1>h
  <2>2. \A g \in Handler \ {h} : stage'[g] = stage[g] /\ script'[g] = script[g] /\ plan'[g] = plan[g]
    BY <1>t, <1>h
  <2>3. stage'[h] = at /\ script'[h] = line /\ plan'[h] = job
    BY <1>t, <1>h
  <2>4. \A g \in Handler :
                 /\ stage'[g] # "idle" \/ script'[g] \in Lines => plan'[g] \in Job
                 /\ stage'[g] \in {"cat", "apply"} => script'[g] = "done"
                 /\ stage'[g] # "wait" => script'[g] \notin Exit
    BY <1>s, <1>h, <2>2, <2>3
  <2> QED BY <1>d, <1>h, <2>1, <2>4
\* The same when the handler's place is not named by EXCEPT.
<1>k. \A h \in Handler : /\ stage = [stage EXCEPT ![h] = stage[h]] /\ script = [script EXCEPT ![h] = script[h]]
                         /\ plan = [plan EXCEPT ![h] = plan[h]]
    BY <1>t
<1>1. CASE UNCHANGED config
    BY <1>1 DEF config, TypeInv, ConfigTypeOK, ScriptOK
<1>2. ASSUME NEW h \in Handler, NEW body \in Changes, Put(h, body) PROVE TypeInv'
  <2>1. body \in Body
    BY InputAssumption
  <2>2. PICK job : job = [body |-> body, set |-> Merge(row, body), own |-> TRUE]
    OBVIOUS
  <2>3. job \in Job
    BY <1>t, <2>1, <2>2, MergeType DEF Job
  <2>4. last' \in Record
    <3>1. PICK alone \in BOOLEAN : alone = AtRest
      BY DEF AtRest
    <3>2. last' = [by |-> h, answer |-> "none", alone |-> alone, odd |-> {}, found |-> conf]
      BY <1>2, <3>1 DEF Put
    <3> QED BY <1>t, <3>2 DEF Record, Files
  <2>5. calm' \in BOOLEAN
    BY <1>2 DEF Put
  <2>6. stage' = [stage EXCEPT ![h] = "cat"] /\ plan' = [plan EXCEPT ![h] = job] /\ script[h] = "done"
    BY <1>2, <2>2 DEF Put, Busy
  <2>7. UNCHANGED <<stored, server, script>>
    BY <1>2 DEF Put
  <2>8. script' = [script EXCEPT ![h] = "done"]
    BY <1>k, <2>6, <2>7
  <2>9. UNCHANGED <<stored, server>>
    BY <2>7
  <2> HIDE DEF TypeInv
  <2> QED BY <1>e, <1>h, <2>3, <2>4, <2>5, <2>6, <2>8, <2>9
<1>3. ASSUME NEW h \in Handler, Cat(h) PROVE TypeInv'
  <2>1. stage[h] = "cat" /\ plan[h] \in Job /\ script[h] = "done" /\ plan[h].set.path \in Path
    BY <1>3, <1>s DEF Cat, Job, Setting
  <2>2. PICK own \in BOOLEAN : plan' = [plan EXCEPT ![h].own = own]
    <3>1. conf[plan[h].set.path] # NoFile => conf[plan[h].set.path].own \in BOOLEAN
      BY <1>t, <2>1 DEF Files, File
    <3> QED BY <1>3, <3>1 DEF Cat
  <2>3. PICK job : job = [plan[h] EXCEPT !.own = own]
    OBVIOUS
  <2>4. job \in Job /\ plan' = [plan EXCEPT ![h] = job]
    BY <1>t, <2>1, <2>2, <2>3 DEF Job
  <2>5. stage' = [stage EXCEPT ![h] = "apply"] /\ UNCHANGED <<stored, server, script, last, calm>>
    BY <1>3 DEF Cat
  <2> QED BY <1>e, <1>h, <1>k, <1>t, <2>1, <2>4, <2>5
<1>4. ASSUME NEW h \in Handler, Apply(h) PROVE TypeInv'
  <2>1. /\ stage' = [stage EXCEPT ![h] = "wait"] /\ script' = [script EXCEPT ![h] = "backup"]
        /\ UNCHANGED <<stored, server, plan, last, calm>> /\ plan[h] \in Job
    BY <1>4, <1>s DEF Apply
  <2>2. "backup" \in Lines
    BY DEF Lines
  <2> QED BY <1>e, <1>h, <1>k, <1>t, <2>1, <2>2
\* A handler that ends, with an answer; its script may go on.
<1>q. ASSUME NEW h \in Handler, NEW what \in {"saved", "failed", "rejected"}, Answer(h, what), Leave(h),
             NEW line, script' = [script EXCEPT ![h] = line], line = "done" \/ (line = script[h] /\ line \notin Exit),
             row' \in Setting, exists' \in BOOLEAN, UNCHANGED <<server, calm>>
      PROVE  TypeInv'
  <2>1. last' \in Record /\ script'[h] = line
    BY <1>q, <1>t, AnswerIs
  <2>2. line \in Lines \cup {"done"}
    BY <1>q, <1>t
  <2>3. PICK job : job = IF line = "done" THEN NoPlan ELSE plan[h]
    OBVIOUS
  <2>4. stage' = [stage EXCEPT ![h] = "idle"] /\ plan' = [plan EXCEPT ![h] = job]
    BY <1>q, <2>1, <2>3 DEF Leave
  <2>5. job \in Job \cup {NoPlan} /\ (line \in Lines => job \in Job)
    BY <1>e, <1>q, <1>s, <1>t, <2>2, <2>3
  <2> QED BY <1>e, <1>h, <1>q, <1>t, <2>1, <2>2, <2>4, <2>5 DEF server
<1>5. ASSUME NEW h \in Handler, Unreached(h) \/ UpdateFails(h) PROVE TypeInv'
  <2>1. Answer(h, "failed") /\ Leave(h) /\ UNCHANGED <<script, stored, server, calm>> /\ stage[h] # "wait"
    BY <1>5 DEF Unreached, UpdateFails
  <2>2. row' \in Setting /\ exists' \in BOOLEAN /\ script[h] \notin Exit
    BY <1>s, <1>t, <2>1 DEF stored
  <2> QED BY <1>k, <1>q, <2>1, <2>2
<1>6. ASSUME NEW h \in Handler, StopsWaiting(h) PROVE TypeInv'
  <2>1. PICK line : line = IF script[h] \in Exit THEN "done" ELSE script[h]
    OBVIOUS
  <2>2. /\ Answer(h, "failed") /\ Leave(h) /\ script' = [script EXCEPT ![h] = line]
        /\ UNCHANGED <<stored, server, calm>>
    BY <1>6, <2>1 DEF StopsWaiting
  <2>3. row' \in Setting /\ exists' \in BOOLEAN
    BY <1>t, <2>2 DEF stored
  <2> QED BY <1>e, <1>q, <2>1, <2>2, <2>3
<1>7. ASSUME NEW h \in Handler, Unheard(h) PROVE TypeInv'
  <2>1. PICK line : line = IF script[h] \in Exit THEN "done" ELSE script[h]
    OBVIOUS
  <2>2. /\ stage[h] = "wait" /\ stage' = [stage EXCEPT ![h] = "update"] /\ script' = [script EXCEPT ![h] = line]
        /\ Odd(h, "unheard") /\ UNCHANGED <<stored, server, plan, calm>>
    BY <1>7, <2>1 DEF Unheard
  <2>3. plan[h] \in Job /\ line \in Lines \cup {"done"} /\ line \notin Exit
    BY <1>e, <1>s, <1>t, <2>1, <2>2
  <2>4. last' \in Record
    BY <1>t, <2>2, OddIs
  <2> QED BY <1>e, <1>h, <1>k, <1>t, <2>2, <2>3, <2>4
<1>8. ASSUME NEW h \in Handler, Report(h) PROVE TypeInv'
  <2>1. /\ script' = [script EXCEPT ![h] = "done"] /\ stage[h] = "wait" /\ plan[h] \in Job
        /\ UNCHANGED <<stored, server, calm>>
    BY <1>8, <1>s DEF Report
  <2>2. CASE stage' = [stage EXCEPT ![h] = "update"] /\ UNCHANGED <<plan, last>>
    BY <1>e, <1>h, <1>k, <1>t, <2>1, <2>2
  <2>3. CASE Leave(h) /\ Answer(h, "rejected")
    <3>1. row' \in Setting /\ exists' \in BOOLEAN /\ UNCHANGED <<server, calm>>
      BY <1>t, <2>1 DEF stored
    <3> QED BY <1>q, <2>1, <2>3, <3>1
  <2> QED BY <1>8, <2>2, <2>3 DEF Report
<1>9. ASSUME NEW h \in Handler, Update(h) PROVE TypeInv'
  <2>1. PICK what \in {"saved", "failed"} : Answer(h, what)
    BY <1>9 DEF Update
  <2>2. plan[h].body \in Body /\ script[h] \notin Exit
    BY <1>9, <1>s DEF Update, Job
  <2>3. row' \in Setting /\ exists' \in BOOLEAN
    BY <1>9, <1>t, <2>2, MergeType DEF Update
  <2>4. Leave(h) /\ UNCHANGED <<script, server, calm>>
    BY <1>9 DEF Update
  <2> QED BY <1>k, <1>q, <2>1, <2>2, <2>3, <2>4
<1>10. CASE Delete
    BY <1>10, <1>d, <1>s, <1>t DEF Delete, server
\* The lines of the script.
<1>l. ASSUME NEW h \in Handler, NEW now \in Lines, NEW next \in Lines \cup {"done"} \cup Exit, Line(h, now, next),
             next \in Exit => stage[h] = "wait", NEW job \in Job \cup {NoPlan},
             stage[h] # "idle" \/ next \in Lines => job \in Job,
             plan' = [plan EXCEPT ![h] = job],
             conf' \in Files, bak' \in Files, nat' \in [Network \X Interface -> Nat],
             daemon' \in [path : Path, file : File] \cup {Down}, last' \in Record
      PROVE  TypeInv'
  <2>1. /\ script[h] = now /\ script' = [script EXCEPT ![h] = next]
        /\ UNCHANGED <<row, exists, default, stage, calm>>
    BY <1>l DEF Line, stored
  <2>2. stage[h] \notin {"cat", "apply"}
    BY <1>e, <1>l, <1>s, <2>1
  <2> QED BY <1>h, <1>k, <1>l, <1>t, <2>1, <2>2
<1>11. ASSUME NEW h \in Handler, Backup(h) \/ Write(h) PROVE TypeInv'
  <2>1. PICK now \in Lines, next \in Lines : Line(h, now, next) /\ UNCHANGED <<nat, daemon, plan, last>>
    BY <1>11 DEF Backup, Write, Plain, Lines
  <2>2. /\ plan[h] \in Job /\ plan[h].set \in Setting /\ plan[h].own \in BOOLEAN /\ Place(h) \in Path
    BY JobIs, <2>1 DEF Line
  <2>3. PICK new \in File : new = Build(plan[h].own, plan[h].set)
    BY <2>2, BuildType
  <2>4. conf' \in Files /\ bak' \in Files
    BY <1>11, <1>t, <2>2, <2>3 DEF Backup, Write, Files
  <2> QED BY <1>e, <1>k, <1>l, <1>t, <2>1, <2>2, <2>4
<1>12. ASSUME NEW h \in Handler, Unset(h) \/ Test(h) \/ Set(h) PROVE TypeInv'
  <2>1. PICK now \in Lines, next \in Lines : Line(h, now, next) /\ UNCHANGED <<conf, bak, daemon, plan>>
    BY <1>12 DEF Unset, Test, Set, Plain, Lines
  <2>2. plan[h] \in Job /\ Rule(h) \in Network \X Interface /\ nat[Rule(h)] \in Nat
    BY JobIs, <2>1 DEF Line
  <2>3. \/ nat' = nat
        \/ nat' = [nat EXCEPT ![Rule(h)] = IF @ = 0 THEN 0 ELSE @ - 1]
        \/ nat' = [nat EXCEPT ![Rule(h)] = @ + 1]
    BY <1>12 DEF Unset, Test, Set
  <2>4. nat' \in [Network \X Interface -> Nat]
    BY <1>t, <2>2, <2>3
  <2>5. last' = last \/ \E what \in {"missed", "twice"} : Odd(h, what)
    BY <1>12 DEF Unset, Test, Set, Plain
  <2>6. last' \in Record
    BY <1>t, <2>5, OddIs
  <2> QED BY <1>e, <1>k, <1>l, <1>t, <2>1, <2>2, <2>4, <2>6
<1>13. ASSUME NEW h \in Handler, Reload(h) \/ Start(h) PROVE TypeInv'
  <2>1. PICK now \in Lines, next \in Lines : Line(h, now, next) /\ UNCHANGED <<conf, bak, nat, plan, last>>
    BY <1>13 DEF Reload, Start, Plain, Lines
  <2>2. plan[h] \in Job /\ Place(h) \in Path
    BY JobIs, <2>1 DEF Line
  <2>3. daemon # Down => daemon.path \in Path
    BY <1>t
  <2>4. daemon' \in [path : Path, file : File] \cup {Down}
    BY <1>13, <1>t, <2>2, <2>3, BootType DEF Reload, Start, Files
  <2> QED BY <1>e, <1>k, <1>l, <1>t, <2>1, <2>2, <2>4
<1>14. ASSUME NEW h \in Handler, Check(h) PROVE TypeInv'
  <2>1. PICK next : /\ next = (IF stage[h] = "wait" THEN ExitCode ELSE "done")
                    /\ Line(h, "check", next) /\ UNCHANGED <<bak, nat, last>>
    BY <1>14 DEF Check, Plain
  <2>2. /\ next \in {"done"} \cup Exit /\ (next \in Exit => stage[h] = "wait") /\ "check" \in Lines
        /\ script[h] = "check"
    BY <1>e, <2>1 DEF ExitCode, Exit, Lines, Line
  <2>3. plan[h] \in Job /\ Place(h) \in Path
    BY JobIs, <2>2
  <2>4. PICK new \in Files : new = Restored(h)
    BY <1>t, <2>3 DEF Restored, Files
  <2>5. conf' \in Files /\ daemon' \in [path : Path, file : File] \cup {Down}
    BY <1>14, <1>t, <2>3, <2>4, BootType DEF Check, Files
  <2>6. PICK job : job = IF stage[h] = "idle" THEN NoPlan ELSE plan[h]
    OBVIOUS
  <2>7. plan' = [plan EXCEPT ![h] = job]
    BY <1>14, <2>6 DEF Check
  <2> QED BY <1>e, <1>l, <1>t, <2>1, <2>2, <2>3, <2>5, <2>6, <2>7
<1>15. CASE Restart
  <2>1. /\ script' = [h \in Handler |-> "done"]
        /\ stage' = [h \in Handler |-> IF stage[h] = "wait" THEN "idle" ELSE stage[h]]
        /\ plan' = [h \in Handler |-> IF stage[h] \in {"wait", "idle"} THEN NoPlan ELSE plan[h]]
        /\ calm' \in BOOLEAN /\ last' = NoPut /\ nat' \in Fresh /\ daemon' = Boot(conf, Home)
        /\ UNCHANGED <<row, exists, conf, bak, default>>
    BY <1>15 DEF Restart, stored
  <2>2. last' \in Record
    BY <2>1, NobodyAssumption DEF NoPut, Record
  <2>3. daemon' \in [path : Path, file : File] \cup {Down}
    BY <1>t, <2>1, BootType DEF Files
  <2>4. nat' \in [Network \X Interface -> Nat]
    BY <2>1, FreshType
  <2>5. /\ stage' \in [Handler -> {"idle", "cat", "apply", "wait", "update"}]
        /\ script' \in [Handler -> Lines \cup {"done"} \cup Exit]
        /\ plan' \in [Handler -> Job \cup {NoPlan}]
    BY <1>t, <2>1
  <2>6. \A h \in Handler :
                 /\ stage'[h] # "idle" \/ script'[h] \in Lines => plan'[h] \in Job
                 /\ stage'[h] \in {"cat", "apply"} => script'[h] = "done"
                 /\ stage'[h] # "wait" => script'[h] \notin Exit
    BY <1>e, <1>s, <2>1
  <2> QED BY <1>d, <1>t, <2>1, <2>2, <2>3, <2>4, <2>5, <2>6
<1> HIDE DEF TypeInv
<1> QED BY <1>1, <1>2, <1>3, <1>4, <1>5, <1>6, <1>7, <1>8, <1>9, <1>10, <1>11, <1>12, <1>13, <1>14, <1>15 DEF ConfigNext

\* Every line of the script finds what it relies on, and leaves what the next
\* one does.
LEMMA RunStep == TypeInv /\ RunInv /\ [ConfigNext]_config => RunInv'
<1> SUFFICES ASSUME TypeInv, RunInv, [ConfigNext]_config, calm' PROVE RunInv'
    BY DEF RunInv
<1>t. /\ stage \in [Handler -> {"idle", "cat", "apply", "wait", "update"}]
      /\ script \in [Handler -> Lines \cup {"done"} \cup Exit]
      /\ plan \in [Handler -> Job \cup {NoPlan}]
      /\ conf \in [Path -> File \cup {NoFile}] /\ bak \in [Path -> File \cup {NoFile}]
      /\ daemon \in [path : Path, file : File] \cup {Down}
      /\ Lines \cap Exit = {} /\ "done" \notin Lines /\ "done" \notin Exit
    BY Types
<1>s. ASSUME NEW h \in Handler
      PROVE  /\ stage[h] \in {"cat", "apply"} => script[h] = "done"
             /\ stage[h] # "wait" => script[h] \notin Exit
    BY Types
<1>i. Installed \subseteq Lines /\ {"backup", "write", "start", "check"} \subseteq Lines /\ {"start", "check"} \subseteq Installed
    BY DEF Installed, Lines
\* The parts of RunInv.
<1>r. ASSUME calm
      PROVE  /\ \A h, g \in Busy : h = g
             /\ daemon # Down => daemon.path = Home
             /\ (\A h \in Handler : script[h] \notin Lines) => Up
             /\ \A h \in Handler :
                  /\ script[h] \in {"backup", "write"} => Up
                  /\ script[h] = "write" /\ conf[Place(h)] # NoFile => bak[Place(h)] = conf[Place(h)]
                  /\ script[h] \in Installed => Safe(h)
                  /\ script[h] \in {"start", "check"} /\ daemon # Down => Up
    BY <1>r DEF RunInv
<1>u. ASSUME Up PROVE daemon # Down /\ daemon.path = Home /\ daemon.file = conf[Home] /\ Starts(conf[Home])
    BY <1>u DEF Up, Down
<1>v. ASSUME Up' PROVE (daemon # Down => daemon.path = Home)'
    BY <1>v DEF Up, Down
\* What OpenVPN reads does not change.
<1>w. ASSUME UNCHANGED server
      PROVE  /\ Up' = Up /\ (daemon # Down => daemon.path = Home)' = (daemon # Down => daemon.path = Home)
             /\ \A h \in Handler : Place(h)' = Place(h) =>
                  /\ Safe(h)' = Safe(h)
                  /\ (conf[Place(h)] # NoFile)' = (conf[Place(h)] # NoFile)
                  /\ (bak[Place(h)] = conf[Place(h)])' = (bak[Place(h)] = conf[Place(h)])
    BY <1>w DEF server, Up, Safe, Starts
\* A handler at work, while nothing overlaps, is alone.
<1>b. ASSUME NEW h \in Busy, calm PROVE \A g \in Handler \ {h} : stage[g] = "idle" /\ script[g] = "done"
    BY <1>b, <1>r DEF Busy
\* A step of one handler that touches nothing on the server and starts no script.
<1>q. ASSUME NEW h \in Busy, calm, UNCHANGED server,
             \A g \in Handler \ {h} : stage'[g] = stage[g] /\ script'[g] = script[g],
             script'[h] = script[h] \/ {script[h], script'[h]} \cap Lines = {},
             script[h] \in Lines => Place(h)' = Place(h)
      PROVE  RunInv'
  <2>1. \A g \in Handler \ {h} : stage'[g] = "idle" /\ script'[g] = "done"
    BY <1>b, <1>q
  <2>2. \A g, f \in Busy' : g = f
    BY <2>1 DEF Busy
  <2>3. h \in Handler
    BY DEF Busy
  <2>4. (\A g \in Handler : script'[g] \notin Lines) => Up'
    <3>1. CASE script'[h] \notin Lines
      <4>1. \A g \in Handler : script[g] \notin Lines
        BY <1>b, <1>q, <1>t, <3>1
      <4> QED BY <1>q, <1>r, <1>w, <4>1
    <3> QED BY <2>3, <3>1
  <2>5. ASSUME NEW g \in Handler
        PROVE /\ script'[g] \in {"backup", "write"} => Up'
              /\ script'[g] = "write" /\ (conf[Place(g)] # NoFile)' => (bak[Place(g)] = conf[Place(g)])'
              /\ script'[g] \in Installed => Safe(g)'
              /\ script'[g] \in {"start", "check"} /\ daemon' # Down => Up'
    <3>1. CASE script'[g] \notin Lines
      BY <1>i, <3>1
    <3>2. CASE script'[g] \in Lines
      <4>1. g = h /\ script'[h] = script[h] /\ Place(h)' = Place(h) /\ daemon' = daemon
        BY <1>q, <1>t, <2>1, <3>2 DEF server
      <4> QED BY <1>q, <1>r, <1>w, <2>3, <4>1
    <3> QED BY <3>1, <3>2
  <2> QED BY <1>q, <1>r, <1>w, <2>2, <2>4, <2>5 DEF RunInv
<1>1. CASE UNCHANGED config
  <2>1. calm /\ UNCHANGED server /\ UNCHANGED <<stage, script, plan>>
    BY <1>1 DEF config, server
  <2>2. Busy' = Busy /\ \A h \in Handler : Place(h)' = Place(h) /\ script'[h] = script[h]
    BY <2>1 DEF Busy, Place
  <2>3. daemon' = daemon
    BY <2>1 DEF server
  <2> QED BY <1>r, <1>w, <2>1, <2>2, <2>3 DEF RunInv
<1>2. ASSUME NEW h \in Handler, NEW body \in Changes, Put(h, body) PROVE RunInv'
  <2>1. calm /\ Busy = {} /\ UNCHANGED <<server, script>> /\ stage' = [stage EXCEPT ![h] = "cat"]
    BY <1>2 DEF Put, AtRest
  <2>2. \A g \in Handler : script[g] = "done" /\ stage[g] = "idle"
    BY <2>1 DEF Busy
  <2>3. \A f, g \in Busy' : f = g
    BY <1>t, <2>1, <2>2 DEF Busy
  <2>4. Up'
    BY <1>r, <1>t, <1>w, <2>1, <2>2
  <2>5. \A g \in Handler : script'[g] = "done"
    BY <2>1, <2>2
  <2> QED BY <1>i, <1>t, <1>v, <2>3, <2>4, <2>5 DEF RunInv
<1>3. ASSUME NEW h \in Handler, Cat(h) \/ Unreached(h) PROVE RunInv'
  <2>1. /\ h \in Busy /\ calm /\ UNCHANGED server /\ script[h] \notin Lines /\ UNCHANGED script
        /\ \A g \in Handler \ {h} : stage'[g] = stage[g]
    BY <1>3, <1>s, <1>t DEF Cat, Unreached, Leave, Busy
  <2> QED BY <1>q, <2>1
\* A handler that ends or moves on, whose script may go on.
<1>e. ASSUME NEW h \in Handler, stage[h] # "idle", Leave(h) \/ UNCHANGED plan, calm, UNCHANGED server,
             \A g \in Handler \ {h} : stage'[g] = stage[g] /\ script'[g] = script[g],
             script'[h] = script[h] \/ (script'[h] = "done" /\ script[h] \in Exit)
      PROVE  RunInv'
  <2>1. h \in Busy
    BY <1>e DEF Busy
  <2>2. script[h] \in Lines => Place(h)' = Place(h)
    <3>1. SUFFICES ASSUME script[h] \in Lines PROVE plan'[h] = plan[h]
      BY DEF Place
    <3>2. script'[h] # "done"
      BY <1>e, <1>t, <3>1
    <3>3. UNCHANGED plan \/ plan' = [plan EXCEPT ![h] = plan[h]]
      BY <1>e, <3>2 DEF Leave
    <3> QED BY <1>t, <3>3
  <2>3. script'[h] = script[h] \/ {script[h], script'[h]} \cap Lines = {}
    BY <1>e, <1>t
  <2> QED BY <1>e, <1>q, <2>1, <2>2, <2>3
<1>4. ASSUME NEW h \in Handler, StopsWaiting(h) \/ Unheard(h) \/ Report(h) PROVE RunInv'
  <2>1. stage[h] = "wait" /\ (Leave(h) \/ UNCHANGED plan) /\ calm /\ UNCHANGED server
    BY <1>4 DEF StopsWaiting, Unheard, Report
  <2>2. script'[h] = script[h] \/ (script'[h] = "done" /\ script[h] \in Exit)
    BY <1>4, <1>t DEF StopsWaiting, Unheard, Report
  <2>3. \A g \in Handler \ {h} : stage'[g] = stage[g] /\ script'[g] = script[g]
    BY <1>4, <1>t DEF StopsWaiting, Unheard, Report, Leave
  <2> QED BY <1>e, <2>1, <2>2, <2>3
<1>5. ASSUME NEW h \in Handler, Update(h) \/ UpdateFails(h) PROVE RunInv'
  <2>1. stage[h] = "update" /\ Leave(h) /\ calm /\ UNCHANGED server /\ UNCHANGED script
    BY <1>5 DEF Update, UpdateFails
  <2>2. \A g \in Handler \ {h} : stage'[g] = stage[g] /\ script'[g] = script[g]
    BY <1>t, <2>1 DEF Leave
  <2> QED BY <1>e, <2>1, <2>2
<1>6. ASSUME NEW h \in Handler, Apply(h) PROVE RunInv'
  <2>1. h \in Busy /\ calm /\ UNCHANGED server /\ script[h] = "done"
    BY <1>6, <1>s DEF Apply, Busy
  <2>2. Up'
    BY <1>b, <1>r, <1>t, <1>w, <2>1
  <2>3. script'[h] = "backup" /\ \A g \in Handler \ {h} : stage'[g] = "idle" /\ script'[g] = "done"
    BY <1>6, <1>b, <1>t, <2>1 DEF Apply
  <2>4. \A f, g \in Busy' : f = g
    BY <2>3 DEF Busy
  <2>5. \A g \in Handler : script'[g] \notin Installed \cup {"write", "start", "check"}
    BY <2>3 DEF Installed, Lines
  <2> QED BY <1>v, <2>2, <2>4, <2>5 DEF RunInv
<1>7. CASE Delete
  <2>1. calm /\ UNCHANGED server /\ UNCHANGED <<stage, script, plan>>
    BY <1>7 DEF Delete
  <2>2. Busy' = Busy /\ \A h \in Handler : Place(h)' = Place(h) /\ script'[h] = script[h]
    BY <2>1 DEF Busy, Place
  <2>3. daemon' = daemon
    BY <2>1 DEF server
  <2> QED BY <1>r, <1>w, <2>1, <2>2, <2>3 DEF RunInv
\* The lines of the script.
<1>l. ASSUME NEW h \in Handler, NEW now \in Lines, NEW next \in Lines \cup {"done"} \cup Exit, Line(h, now, next)
      PROVE  /\ calm /\ script[h] = now /\ script'[h] = next /\ Place(h) \in Path
             /\ plan[h].set \in Setting /\ plan[h].own \in BOOLEAN
             /\ \A g \in Handler \ {h} : script'[g] = "done"
             /\ \A f, g \in Busy' : f = g
             /\ ((daemon # Down => daemon.path = Home)' /\ (next \notin Lines => Up')
                   /\ (next = "write" => Up' /\ ((conf[Place(h)] # NoFile)' => (bak[Place(h)] = conf[Place(h)])'))
                   /\ (next \in Installed => Safe(h)') /\ (next \in {"start", "check"} /\ daemon' # Down => Up')
                   /\ next # "backup" => RunInv')
  <2>1. /\ h \in Busy /\ calm /\ script[h] = now /\ script'[h] = next /\ script' = [script EXCEPT ![h] = next]
        /\ stage' = stage
    BY <1>l, <1>t DEF Line, Busy
  <2>2. \A g \in Handler \ {h} : script'[g] = "done" /\ stage'[g] = "idle"
    BY <1>b, <1>t, <2>1
  <2>3. \A f, g \in Busy' : f = g
    BY <2>2 DEF Busy
  <2>4. /\ Place(h) \in Path /\ plan[h].set \in Setting /\ plan[h].own \in BOOLEAN
    BY JobIs, <1>l, <2>1
  <2>5. ASSUME (daemon # Down => daemon.path = Home)', next \notin Lines => Up',
               next = "write" => Up' /\ ((conf[Place(h)] # NoFile)' => (bak[Place(h)] = conf[Place(h)])'),
               next \in Installed => Safe(h)', next \in {"start", "check"} /\ daemon' # Down => Up',
               next # "backup"
        PROVE  RunInv'
    <3>1. (\A g \in Handler : script'[g] \notin Lines) => Up'
      BY <2>1, <2>5
    <3>2. ASSUME NEW g \in Handler
          PROVE /\ script'[g] \in {"backup", "write"} => Up'
                /\ script'[g] = "write" /\ (conf[Place(g)] # NoFile)' => (bak[Place(g)] = conf[Place(g)])'
                /\ script'[g] \in Installed => Safe(g)'
                /\ script'[g] \in {"start", "check"} /\ daemon' # Down => Up'
      <4>1. CASE g = h
        BY <2>1, <2>5, <4>1
      <4>2. CASE g # h
        BY <1>i, <1>t, <2>2, <4>2
      <4> QED BY <4>1, <4>2
    <3> QED BY <2>3, <2>5, <3>1, <3>2 DEF RunInv
  <2> QED BY <2>1, <2>2, <2>3, <2>4, <2>5
<1>8. ASSUME NEW h \in Handler, Backup(h) PROVE RunInv'
  <2>1. /\ Line(h, "backup", "write") /\ UNCHANGED <<conf, daemon, plan>>
        /\ bak' = [bak EXCEPT ![Place(h)] = IF conf[Place(h)] = NoFile THEN @ ELSE conf[Place(h)]]
    BY <1>8 DEF Backup, Plain
  <2>2. "backup" \in Lines /\ "write" \in Lines /\ "write" \notin Installed
    BY DEF Lines, Installed
  <2>3. calm /\ script[h] = "backup" /\ Place(h) \in Path
    BY <1>l, <2>1, <2>2
  <2>4. Up
    BY <1>r, <2>3
  <2>5. Up'
    BY <2>1, <2>4 DEF Up, Starts
  <2>6. (conf[Place(h)] # NoFile)' => (bak[Place(h)] = conf[Place(h)])'
    BY <1>t, <2>1, <2>3 DEF Place
  <2> QED BY <1>l, <1>v, <2>1, <2>2, <2>5, <2>6
<1>9. ASSUME NEW h \in Handler, Write(h) PROVE RunInv'
  <2>1. /\ Line(h, "write", "unset") /\ UNCHANGED <<bak, daemon, plan>>
        /\ conf' = [conf EXCEPT ![Place(h)] = Build(plan[h].own, plan[h].set)]
    BY <1>9 DEF Write, Plain
  <2>2. "write" \in Lines /\ "unset" \in Lines /\ "unset" \notin {"write", "start", "check", "backup"}
    BY DEF Lines
  <2>3. calm /\ script[h] = "write" /\ Place(h) \in Path
    BY <1>l, <2>1, <2>2
  <2>4. Up /\ (conf[Place(h)] # NoFile => bak[Place(h)] = conf[Place(h)])
    BY <1>r, <2>3
  <2>5. Safe(h)'
    <3>1. CASE Place(h) = Home
      <4>1. Starts(bak[Home])
        BY <2>4, <3>1, <1>u DEF Starts
      <4> QED BY <2>1, <3>1, <4>1 DEF Safe, Place, Starts
    <3>2. CASE Place(h) # Home
      <4>1. conf'[Home] = conf[Home]
        BY <1>t, <2>1, <3>2
      <4> QED BY <2>1, <2>4, <3>2, <4>1 DEF Safe, Place, Starts, Up
    <3> QED BY <3>1, <3>2
  <2>6. (daemon # Down => daemon.path = Home)'
    BY <1>r, <2>1, <2>3
  <2> QED BY <1>l, <2>1, <2>2, <2>5, <2>6
<1>10. ASSUME NEW h \in Handler, Unset(h) \/ Test(h) \/ Set(h) PROVE RunInv'
  <2>1. PICK now \in Installed, next \in {"test", "set", "reload"} :
             Line(h, now, next) /\ UNCHANGED <<conf, bak, daemon, plan>>
    BY <1>10 DEF Unset, Test, Set, Plain, Installed, Lines
  <2>2. now \in Lines /\ next \in Lines /\ next \in Installed /\ next \notin {"write", "start", "check", "backup"}
    BY <1>i, <2>1 DEF Lines, Installed
  <2>3. calm /\ script[h] = now
    BY <1>l, <2>1, <2>2
  <2>4. Safe(h) /\ (daemon # Down => daemon.path = Home)
    BY <1>r, <2>1, <2>3
  <2>5. Safe(h)' /\ (daemon # Down => daemon.path = Home)'
    BY <2>1, <2>4 DEF Safe, Place, Starts, Up
  <2> QED BY <1>l, <2>1, <2>2, <2>5
<1>11. ASSUME NEW h \in Handler, Reload(h) PROVE RunInv'
  <2>1. /\ Line(h, "reload", "start") /\ UNCHANGED <<conf, bak, plan>>
        /\ daemon' = IF daemon = Down THEN Down ELSE Boot(conf, daemon.path)
    BY <1>11 DEF Reload, Plain
  <2>2. "reload" \in Lines /\ "start" \in Lines /\ {"reload", "start"} \subseteq Installed /\ "start" \notin {"write", "backup"}
    BY DEF Lines, Installed
  <2>3. calm /\ script[h] = "reload"
    BY <1>l, <2>1, <2>2
  <2>4. Safe(h) /\ (daemon # Down => daemon.path = Home)
    BY <1>r, <2>2, <2>3
  <2>5. daemon' # Down => Up'
    BY <2>1, <2>4, BootIs DEF Up
  <2>6. Safe(h)'
    <3>1. CASE Place(h) = Home
      BY <2>1, <2>4, <3>1 DEF Safe, Place, Starts
    <3>2. CASE Place(h) # Home
      <4>1. Up
        BY <2>4, <3>2 DEF Safe
      <4>2. daemon' = [path |-> Home, file |-> conf[Home]]
        BY <2>1, <4>1, <1>u DEF Boot
      <4> QED BY <2>1, <3>2, <4>1, <4>2 DEF Safe, Place, Starts, Up
    <3> QED BY <3>1, <3>2
  <2> QED BY <1>l, <1>v, <2>1, <2>2, <2>5, <2>6
<1>12. ASSUME NEW h \in Handler, Start(h) PROVE RunInv'
  <2>1. /\ Line(h, "start", "check") /\ UNCHANGED <<conf, bak, plan>>
        /\ daemon' = IF daemon = Down THEN Boot(conf, Place(h)) ELSE daemon
    BY <1>12 DEF Start, Plain
  <2>2. "start" \in Lines /\ "check" \in Lines /\ {"start", "check"} \subseteq Installed /\ "check" \notin {"write", "backup"}
    BY DEF Lines, Installed
  <2>3. calm /\ script[h] = "start"
    BY <1>l, <2>1, <2>2
  <2>4. Safe(h) /\ (daemon # Down => Up)
    BY <1>r, <2>2, <2>3
  <2>5. Place(h) # Home => Up
    BY <2>4 DEF Safe
  <2>6. daemon' # Down => Up'
    <3>1. CASE daemon = Down
      <4>1. Place(h) = Home
        BY <1>u, <2>5, <3>1
      <4> QED BY <2>1, <3>1, <4>1, BootIs DEF Up
    <3>2. CASE daemon # Down
      BY <2>1, <2>4, <3>2 DEF Up
    <3> QED BY <3>1, <3>2
  <2>7. Safe(h)'
    <3>1. CASE Place(h) = Home
      BY <2>1, <2>4, <3>1 DEF Safe, Place, Starts
    <3>2. CASE Place(h) # Home
      BY <1>u, <2>1, <2>5, <3>2 DEF Safe, Place, Starts, Up
    <3> QED BY <3>1, <3>2
  <2> QED BY <1>l, <1>v, <2>1, <2>2, <2>6, <2>7
<1>13. ASSUME NEW h \in Handler, Check(h) PROVE RunInv'
  <2>1. PICK next : /\ next = (IF stage[h] = "wait" THEN ExitCode ELSE "done")
                    /\ Line(h, "check", next)
    BY <1>13 DEF Check, Plain
  <2>2. next \in {"done"} \cup Exit /\ next \notin Lines \cup Installed \cup {"write", "backup", "start", "check"}
    BY <1>i, <1>t, <2>1 DEF ExitCode, Exit
  <2>3. calm /\ script[h] = "check" /\ "check" \in Lines /\ "check" \in Installed
    BY <1>i, <1>l, <2>1, <2>2
  <2>4. Safe(h) /\ (daemon # Down => Up) /\ Place(h) \in Path
    BY <1>l, <1>r, <2>1, <2>2, <2>3
  <2>5. PICK new : new = Restored(h)
    OBVIOUS
  <2>6. conf' = new /\ daemon' = IF daemon = Down THEN Boot(new, Place(h)) ELSE daemon
    BY <1>13, <2>5 DEF Check
  <2>7. CASE daemon # Down
    <3>1. new = conf
      BY <1>t, <2>5, <2>7 DEF Restored
    <3> QED BY <1>l, <1>v, <2>1, <2>2, <2>3, <2>4, <2>6, <2>7, <3>1 DEF Up
  <2>8. CASE daemon = Down
    <3>1. Place(h) = Home /\ Starts(bak[Home])
      BY <1>u, <2>4, <2>8 DEF Safe
    <3>2. new[Home] = bak[Home]
      BY <1>t, <2>5, <2>8, <3>1 DEF Restored, Starts
    <3>3. Up'
      BY <2>6, <2>8, <3>1, <3>2 DEF Up, Boot
    <3> QED BY <1>l, <1>v, <2>1, <2>2, <2>3, <3>3
  <2> QED BY <2>7, <2>8
<1>14. CASE Restart
  <2>1. calm /\ \A h \in Handler : script[h] \notin Lines
    BY <1>14, <1>t DEF Restart
  <2>2. Up
    BY <1>r, <2>1
  <2>3. Up'
    BY <1>14, <2>2 DEF Restart, Up, Boot
  <2>4. \A h \in Handler : script'[h] = "done" /\ (stage'[h] = stage[h] \/ stage'[h] = "idle")
    BY <1>14 DEF Restart
  <2>5. Busy' \subseteq Busy
    BY <2>4 DEF Busy
  <2> QED BY <1>i, <1>r, <1>t, <1>v, <2>1, <2>3, <2>4, <2>5 DEF RunInv
<1> QED BY <1>1, <1>2, <1>3, <1>4, <1>5, <1>6, <1>7, <1>8, <1>9, <1>10, <1>11, <1>12, <1>13, <1>14 DEF ConfigNext

\* The settings of a request nothing overlaps with pass from the handler to the
\* file, the rules, the process and the row, whatever was there before.
LEMMA SaveStep == TypeInv /\ SaveInv /\ [ConfigNext]_config => SaveInv'
<1> SUFFICES ASSUME TypeInv, SaveInv, [ConfigNext]_config, last'.alone, "unheard" \notin last'.odd
             PROVE  SaveInv'
    BY DEF SaveInv
<1>t. /\ stage \in [Handler -> {"idle", "cat", "apply", "wait", "update"}]
      /\ script \in [Handler -> Lines \cup {"done"} \cup Exit]
      /\ plan \in [Handler -> Job \cup {NoPlan}] /\ last \in Record
      /\ conf \in [Path -> File \cup {NoFile}] /\ bak \in [Path -> File \cup {NoFile}]
      /\ nat \in [Network \X Interface -> Nat]
      /\ daemon \in [path : Path, file : File] \cup {Down}
      /\ Lines \cap Exit = {} /\ "done" \notin Lines /\ "done" \notin Exit
    BY Types
<1>s. ASSUME NEW h \in Handler PROVE /\ stage[h] # "idle" \/ script[h] \in Lines => plan[h] \in Job
                                     /\ stage[h] \in {"cat", "apply"} => script[h] = "done"
                                     /\ stage[h] # "wait" => script[h] \notin Exit
    BY Types
<1>i. /\ Lines = {"backup", "write", "unset", "test", "set", "reload", "start", "check"}
      /\ Installed = {"unset", "test", "set", "reload", "start", "check"} /\ Exit = {"exit 0", "exit 1"}
    BY DEF Lines, Installed, Exit
\* A step of the one handler at work.
<1>q. ASSUME NEW h \in Busy, last.alone, "unheard" \notin last.odd, last'.by = last.by,
             \A g \in Handler \ {h} : stage'[g] = stage[g] /\ script'[g] = script[g]
      PROVE  /\ h = last.by /\ last.answer # "saved" /\ SaveStage(h)
             /\ Busy' \subseteq {last.by}
             /\ (h \in Busy' => SaveStage(h)') /\ last'.answer # "saved" => SaveInv'
  <2>1. h = last.by /\ last.answer # "saved" /\ SaveStage(h) /\ Busy \subseteq {last.by}
    BY <1>q DEF SaveInv, Saved
  <2>2. Busy' \subseteq {last.by}
    BY <1>q, <2>1 DEF Busy
  <2> QED BY <1>q, <2>1, <2>2 DEF SaveInv
\* What is on the server does not change.
<1>w. ASSUME UNCHANGED server
      PROVE  /\ Current' = Current
             /\ \A settings \in Setting : Made(settings)' = Made(settings) /\ Ruled(settings)' = Ruled(settings)
    BY <1>w DEF server, Current, Made, Ruled
\* A step that changes none of what SaveInv speaks of.
<1>u. ASSUME UNCHANGED <<row, server, stage, script, plan, last>> PROVE SaveInv'
  <2>1. Busy' = Busy
    BY <1>u DEF Busy
  <2>2. \A h \in Busy : Merge(row, plan[h].body)' = Merge(row, plan[h].body)
    BY <1>u DEF Merge
  <2>3. \A h \in Busy : SaveStage(h) => SaveStage(h)'
    BY <1>u, <2>2 DEF SaveStage, Ruled, Made, Current, server
  <2>4. Saved => Saved'
    BY <1>u, <2>1 DEF Saved, Ruled, Made, Current, server
  <2> QED BY <1>u, <2>1, <2>3, <2>4 DEF SaveInv
<1>1. CASE UNCHANGED config
    BY <1>1, <1>u DEF config, server
<1>2. ASSUME NEW h \in Handler, NEW body \in Changes, Put(h, body) PROVE SaveInv'
  <2>1. PICK job : job = [body |-> body, set |-> Merge(row, body), own |-> TRUE]
    OBVIOUS
  <2>2. /\ plan' = [plan EXCEPT ![h] = job] /\ stage' = [stage EXCEPT ![h] = "cat"]
        /\ h \notin Busy /\ UNCHANGED <<stored, server, script>>
    BY <1>2, <2>1 DEF Put
  <2>3. last'.by = h /\ last'.answer = "none" /\ last'.alone = AtRest
    BY <1>2, PutIs
  <2>4. Busy = {}
    BY <2>3 DEF AtRest
  <2>5. \A g \in Handler : stage[g] = "idle" /\ script[g] = "done"
    BY <2>4 DEF Busy
  <2>6. Busy' = {h} /\ stage'[h] = "cat" /\ script'[h] = "done" /\ plan'[h] = job
    <3>1. plan'[h] = job
      BY <1>t, <2>2
    <3> QED BY <1>t, <2>2, <2>5, <3>1 DEF Busy
  <2>7. plan'[h].set = Merge(row', plan'[h].body)
    BY <2>1, <2>2, <2>6 DEF stored
  <2>8. SaveStage(h)'
    BY <1>i, <2>6, <2>7 DEF SaveStage
  <2> QED BY <2>3, <2>6, <2>8 DEF SaveInv
<1>3. ASSUME NEW h \in Handler, Cat(h) PROVE SaveInv'
  <2>1. PICK own : plan' = [plan EXCEPT ![h].own = own]
    BY <1>3 DEF Cat
  <2>2. stage[h] = "cat" /\ stage' = [stage EXCEPT ![h] = "apply"] /\ UNCHANGED <<stored, server, script, last>>
    BY <1>3 DEF Cat
  <2>3. plan[h] \in Job /\ script[h] = "done" /\ h \in Busy
    BY <1>s, <2>2 DEF Busy
  <2>4. plan'[h].set = plan[h].set /\ plan'[h].body = plan[h].body
    BY <1>t, <2>1, <2>3 DEF Job
  <2>5. stage'[h] = "apply" /\ script'[h] = "done" /\ \A g \in Handler \ {h} : stage'[g] = stage[g] /\ script'[g] = script[g]
    BY <1>t, <2>2, <2>3
  <2>6. last.answer # "saved" /\ SaveStage(h)
    BY <1>q, <2>2, <2>3, <2>5
  <2>7. SaveStage(h)'
    BY <1>i, <2>2, <2>4, <2>5, <2>6 DEF SaveStage, stored, Merge
  <2> QED BY <1>q, <2>2, <2>3, <2>5, <2>6, <2>7
<1>4. ASSUME NEW h \in Handler, Apply(h) PROVE SaveInv'
  <2>1. stage[h] = "apply" /\ h \in Busy /\ stage'[h] = "wait" /\ script'[h] = "backup"
    BY <1>4, <1>t DEF Apply, Busy
  <2>2. \A g \in Handler \ {h} : stage'[g] = stage[g] /\ script'[g] = script[g]
    BY <1>4, <1>t DEF Apply
  <2>3. UNCHANGED <<stored, server, plan, last>>
    BY <1>4 DEF Apply
  <2>4. last.answer # "saved" /\ SaveStage(h)
    BY <1>q, <2>1, <2>2, <2>3
  <2>5. SaveStage(h)'
    BY <1>i, <2>1, <2>3, <2>4 DEF SaveStage, stored, Merge
  <2> QED BY <1>q, <2>1, <2>2, <2>3, <2>4, <2>5
\* A handler that ends without having saved anything; its script may go on.
<1>e. ASSUME NEW h \in Handler, NEW what \in {"failed", "rejected"}, stage[h] # "idle", Answer(h, what), Leave(h),
             script'[h] = script[h] \/ (script'[h] = "done" /\ script[h] \in Exit),
             \A g \in Handler \ {h} : script'[g] = script[g],
             script'[h] \notin Exit, UNCHANGED <<row, server>>
      PROVE  SaveInv'
  <2>1. h \in Busy /\ stage'[h] = "idle" /\ \A g \in Handler \ {h} : stage'[g] = stage[g]
    BY <1>e, <1>t DEF Leave, Busy
  <2>2. /\ last'.by = last.by /\ last'.alone = last.alone /\ last'.odd = last.odd
        /\ last.by = h => last'.answer = what
    BY <1>e, <1>t, AnswerIs
  <2>3. SaveStage(h) /\ h = last.by /\ last'.answer # "saved"
    BY <1>e, <1>q, <2>1, <2>2
  <2>4. CASE script'[h] = "done"
    <3>1. h \notin Busy'
      BY <2>1, <2>4 DEF Busy
    <3> QED BY <1>e, <1>q, <2>1, <2>2, <2>3, <3>1
  <2>5. CASE script'[h] # "done"
    <3>1. script'[h] = script[h] /\ plan'[h] = plan[h] /\ UNCHANGED server
      BY <1>e, <1>t, <2>5 DEF Leave
    <3>2. script[h] \in Lines
      BY <1>e, <1>t, <2>5, <3>1
    <3>3. Made(plan[h].set) => Made(plan[h].set)'
      BY <3>1 DEF Made, server
    <3>4. Ruled(plan[h].set) => Ruled(plan[h].set)'
      BY <3>1 DEF Ruled, server
    <3>5. (daemon = Down \/ Current) => (daemon = Down \/ Current)'
      BY <3>1 DEF Current, server
    <3>6. SaveStage(h)'
      BY <1>i, <2>1, <2>2, <2>3, <3>1, <3>2, <3>3, <3>4, <3>5 DEF SaveStage
    <3> QED BY <1>e, <1>q, <2>1, <2>2, <2>3, <3>6
  <2> QED BY <2>4, <2>5
<1>5. ASSUME NEW h \in Handler, Unreached(h) PROVE SaveInv'
  <2>1. /\ stage[h] \in {"cat", "apply"} /\ Answer(h, "failed") /\ Leave(h) /\ UNCHANGED script
        /\ UNCHANGED <<stored, server>>
    BY <1>5 DEF Unreached
  <2>2. script'[h] \notin Exit
    BY <1>s, <2>1
  <2> QED BY <1>e, <2>1, <2>2 DEF stored
<1>6. ASSUME NEW h \in Handler, UpdateFails(h) PROVE SaveInv'
  <2>1. /\ stage[h] = "update" /\ Answer(h, "failed") /\ Leave(h) /\ UNCHANGED script
        /\ UNCHANGED <<stored, server>>
    BY <1>6 DEF UpdateFails
  <2>2. script'[h] \notin Exit
    BY <1>s, <2>1
  <2> QED BY <1>e, <2>1, <2>2 DEF stored
<1>7. ASSUME NEW h \in Handler, Report(h) PROVE SaveInv'
  <2>1. stage[h] = "wait" /\ script[h] \in Exit /\ h \in Busy /\ script'[h] = "done" /\ UNCHANGED <<stored, server>>
    BY <1>7, <1>t DEF Report, Busy
  <2>2. \A g \in Handler \ {h} : script'[g] = script[g]
    BY <1>7, <1>t DEF Report
  <2>3. CASE script[h] = "exit 0"
    <3>1. stage'[h] = "update" /\ UNCHANGED <<plan, last>> /\ \A g \in Handler \ {h} : stage'[g] = stage[g]
      BY <1>7, <1>t, <2>3 DEF Report
    <3>2. SaveStage(h) /\ last'.answer # "saved" /\ last.alone
      BY <1>q, <2>1, <2>2, <3>1
    <3>3. plan'[h].set = Merge(row', plan'[h].body) /\ plan[h].set \in Setting
      <4>1. plan[h] \in Job
        BY <1>s, <2>1
      <4> QED BY <2>1, <3>1, <3>2, <4>1 DEF SaveStage, stored, Merge, Job
    <3>4. SaveStage(h)'
      BY <1>i, <1>w, <2>1, <2>3, <3>1, <3>2, <3>3 DEF SaveStage
    <3> QED BY <1>q, <2>1, <2>2, <3>1, <3>2, <3>4
  <2>4. CASE script[h] = "exit 1"
    <3>1. Leave(h) /\ Answer(h, "rejected")
      BY <1>7, <2>4 DEF Report
    <3>2. script'[h] \notin Exit
      BY <1>t, <2>1
    <3> QED BY <1>e, <2>1, <2>2, <3>1, <3>2 DEF stored
  <2> QED BY <1>i, <2>1, <2>3, <2>4
<1>8. ASSUME NEW h \in Handler, Update(h) PROVE SaveInv'
  <2>1. /\ stage[h] = "update" /\ h \in Busy /\ Leave(h) /\ stage'[h] = "idle"
        /\ row' = Merge(row, plan[h].body) /\ UNCHANGED <<server, script>>
        /\ \A g \in Handler \ {h} : stage'[g] = stage[g]
    BY <1>8, <1>t DEF Update, Busy, Leave
  <2>2. PICK what \in {"saved", "failed"} : Answer(h, what)
    BY <1>8 DEF Update
  <2>3. last'.by = last.by /\ last'.alone = last.alone /\ last'.odd = last.odd /\ (last.by = h => last'.answer = what)
    BY <1>t, <2>2, AnswerIs
  <2>4. SaveStage(h) /\ Busy' \subseteq {last.by} /\ h = last.by
    BY <1>q, <2>1, <2>3
  <2>5. script[h] = "done"
    BY <2>1, <2>4 DEF SaveStage
  <2>6. Busy' = {}
    BY <2>1, <2>4, <2>5 DEF Busy
  <2>7. plan[h].set = row' /\ plan[h].set \in Setting
    <3>1. plan[h] \in Job
      BY <1>s, <2>1
    <3> QED BY <2>1, <2>4, <3>1 DEF SaveStage, Job
  <2>8. Made(row)' /\ (last'.odd = {} => Ruled(row)') /\ Current'
    <3>1. Made(row') /\ (last.odd = {} => Ruled(row')) /\ Current
      BY <2>1, <2>4, <2>7 DEF SaveStage
    <3> QED BY <2>1, <2>3, <3>1 DEF Made, Ruled, Current, server
  <2> QED BY <2>6, <2>8 DEF SaveInv, Saved
<1>9. CASE Delete
    BY <1>9, <1>u DEF Delete
<1>10. ASSUME NEW h \in Handler, StopsWaiting(h) PROVE SaveInv'
  <2>1. stage[h] = "wait" /\ Answer(h, "failed") /\ Leave(h) /\ UNCHANGED <<stored, server>>
    BY <1>10 DEF StopsWaiting
  <2>2. script'[h] = script[h] \/ (script'[h] = "done" /\ script[h] \in Exit)
    BY <1>10, <1>t DEF StopsWaiting
  <2>3. \A g \in Handler \ {h} : script'[g] = script[g]
    BY <1>10, <1>t DEF StopsWaiting
  <2>4. script'[h] \notin Exit
    BY <1>10, <1>t DEF StopsWaiting
  <2> QED BY <1>e, <2>1, <2>2, <2>3, <2>4 DEF stored
\* A request of which no exit code has been heard is the latest, or not alone.
<1>11. ASSUME NEW h \in Handler, Unheard(h) PROVE SaveInv'
  <2>1. /\ Odd(h, "unheard") /\ stage[h] = "wait"
    BY <1>11 DEF Unheard
  <2>2. last.by # h /\ last'.alone = last.alone /\ last.odd \subseteq last'.odd
    BY <1>t, <2>1, OddIs
  <2>3. h \in Busy /\ h \notin {last.by}
    BY <2>1, <2>2 DEF Busy
  <2> QED BY <2>2, <2>3 DEF SaveInv
\* The lines of the script.
<1>l. ASSUME NEW h \in Handler, NEW now \in Lines, NEW next \in Lines \cup {"done"} \cup Exit, Line(h, now, next),
             UNCHANGED last \/ \E what \in {"missed", "twice"} : Odd(h, what)
      PROVE  /\ SaveStage(h) /\ script[h] = now /\ script'[h] = next /\ row' = row /\ default' = default
             /\ stage[h] \in {"idle", "wait"} /\ stage'[h] = stage[h]
             /\ plan[h] \in Job /\ plan[h].set \in Setting /\ plan[h].own \in BOOLEAN
             /\ Place(h) = plan[h].set.path /\ Place(h) \in Path
             /\ Rule(h) = <<plan[h].set.net, default>> /\ Rule(h) \in Network \X Interface /\ nat[Rule(h)] \in Nat
             /\ last.odd \subseteq last'.odd /\ h = last.by
             /\ (h \in Busy' => SaveStage(h)') => SaveInv'
  <2>1. h \in Busy /\ script[h] = now /\ script'[h] = next /\ UNCHANGED <<stored, stage, default>>
    BY <1>l, <1>t DEF Line, Busy
  <2>2. \A g \in Handler \ {h} : stage'[g] = stage[g] /\ script'[g] = script[g]
    BY <1>l, <1>t, <2>1 DEF Line
  <2>3. /\ last.by = last'.by /\ last.alone /\ "unheard" \notin last.odd /\ last.odd \subseteq last'.odd
        /\ last'.answer = last.answer
    BY <1>l, <1>t, OddIs
  <2>4. SaveStage(h) /\ last.answer # "saved" /\ h = last.by
    BY <1>q, <2>1, <2>2, <2>3
  <2>5. /\ plan[h] \in Job /\ plan[h].set \in Setting /\ plan[h].own \in BOOLEAN
        /\ Place(h) \in Path /\ Rule(h) \in Network \X Interface /\ nat[Rule(h)] \in Nat
    BY JobIs, <2>1
  <2>6. stage[h] \in {"idle", "wait"}
    BY <1>s, <1>t, <2>1, <2>4 DEF SaveStage
  <2> QED BY <1>q, <2>1, <2>2, <2>3, <2>4, <2>5, <2>6 DEF stored, Place, Rule
\* The settings of the handler that waits are still the row's and the body's.
<1>p. ASSUME NEW h \in Handler, SaveStage(h), UNCHANGED <<row, plan>>, stage'[h] = stage[h]
      PROVE  stage'[h] # "idle" => plan'[h].set = Merge(row', plan'[h].body)
    BY <1>p DEF SaveStage, Merge
<1>12. ASSUME NEW h \in Handler, Backup(h) PROVE SaveInv'
  <2>1. Line(h, "backup", "write") /\ UNCHANGED <<plan, last>> /\ "backup" \in Lines /\ "write" \in Lines
    BY <1>12, <1>i DEF Backup, Plain
  <2>2. /\ SaveStage(h) /\ script'[h] = "write" /\ row' = row
        /\ stage[h] \in {"idle", "wait"} /\ stage'[h] = stage[h]
    BY <1>l, <2>1
  <2>3. stage'[h] # "idle" => plan'[h].set = Merge(row', plan'[h].body)
    BY <1>p, <2>1, <2>2
  <2>4. SaveStage(h)'
    BY <1>i, <2>2, <2>3 DEF SaveStage
  <2> QED BY <1>l, <2>1, <2>4
<1>13. ASSUME NEW h \in Handler, Write(h) PROVE SaveInv'
  <2>1. /\ Line(h, "write", "unset") /\ UNCHANGED <<plan, last>> /\ "write" \in Lines /\ "unset" \in Lines
        /\ conf' = [conf EXCEPT ![Place(h)] = Build(plan[h].own, plan[h].set)]
    BY <1>13, <1>i DEF Write, Plain
  <2>2. /\ plan[h].set \in Setting /\ plan[h].own \in BOOLEAN /\ Place(h) \in Path
        /\ Place(h) = plan[h].set.path
        /\ SaveStage(h) /\ script'[h] = "unset" /\ row' = row
        /\ stage[h] \in {"idle", "wait"} /\ stage'[h] = stage[h]
    BY <1>l, <2>1
  <2>3. Made(plan[h].set)'
    <3>1. conf'[Place(h)] = Build(plan[h].own, plan[h].set)
      BY <1>t, <2>1, <2>2
    <3>2. conf'[plan'[h].set.path] # NoFile /\ conf'[plan'[h].set.path].set = Restrict(plan'[h].set, Managed)
      BY <2>1, <2>2, <3>1, BuildType
    <3> QED BY <3>2 DEF Made
  <2>4. stage'[h] # "idle" => plan'[h].set = Merge(row', plan'[h].body)
    BY <1>p, <2>1, <2>2
  <2>5. SaveStage(h)'
    BY <1>i, <2>2, <2>3, <2>4 DEF SaveStage
  <2> QED BY <1>l, <2>1, <2>5
\* A line of iptables, the file and the process being as they were.
<1>r. ASSUME NEW h \in Handler, NEW now \in {"unset", "test", "set"}, NEW next \in {"test", "set", "reload"},
             Line(h, now, next), UNCHANGED <<plan, conf>>,
             UNCHANGED last \/ \E what \in {"missed", "twice"} : Odd(h, what),
             next \in {"test", "set"} => plan[h].set.mode = "NAT",
             next = "reload" /\ last'.odd = {} => Ruled(plan[h].set)'
      PROVE  SaveInv'
  <2>1. now \in Lines /\ next \in Lines
    BY <1>i
  <2>2. /\ SaveStage(h) /\ script[h] = now /\ script'[h] = next /\ row' = row
        /\ stage[h] \in {"idle", "wait"} /\ stage'[h] = stage[h]
    BY <1>l, <1>r, <2>1
  <2>3. stage'[h] # "idle" => plan'[h].set = Merge(row', plan'[h].body)
    BY <1>p, <1>r, <2>2
  <2>4. Made(plan[h].set)'
    BY <1>i, <1>r, <2>2 DEF SaveStage, Made
  <2>5. SaveStage(h)'
    BY <1>i, <1>r, <2>2, <2>4, <2>3 DEF SaveStage
  <2> QED BY <1>l, <1>r, <2>1, <2>5
<1>14. ASSUME NEW h \in Handler, Unset(h) PROVE SaveInv'
  <2>1. PICK next \in {"test", "reload"} : /\ next = (IF Routing(h) THEN "reload" ELSE "test")
                                           /\ Line(h, "unset", next) /\ UNCHANGED <<plan, conf>>
    BY <1>14 DEF Unset
  <2>2. UNCHANGED last \/ \E what \in {"missed", "twice"} : Odd(h, what)
    BY <1>14 DEF Unset
  <2>3. /\ Rule(h) = <<plan[h].set.net, default>> /\ Rule(h) \in Network \X Interface /\ nat[Rule(h)] \in Nat
        /\ h = last.by /\ default' = default /\ plan[h].set \in Setting
    BY <1>i, <1>l, <2>1, <2>2
  <2>4. next \in {"test", "set"} => plan[h].set.mode = "NAT"
    BY <2>1, <2>3 DEF Routing, Setting
  <2>5. ASSUME next = "reload", last'.odd = {} PROVE Ruled(plan[h].set)'
    <3>1. Routing(h)
      BY <2>1, <2>5
    <3>2. ~Odd(h, "missed") /\ ~Odd(h, "twice")
      BY <1>t, <2>3, <2>5, OddIs
    <3>3. nat[Rule(h)] \in {0, 1} /\ nat' = [nat EXCEPT ![Rule(h)] = IF @ = 0 THEN 0 ELSE @ - 1]
      BY <1>14, <2>3, <3>1, <3>2 DEF Unset
    <3>4. nat'[Rule(h)] = 0
      BY <1>t, <2>3, <3>3
    <3>5. <<plan'[h].set.net, default'>> = Rule(h) /\ plan'[h].set.mode = "ROUTING"
      BY <2>1, <2>3, <3>1 DEF Routing
    <3> QED BY <3>4, <3>5 DEF Ruled
  <2> QED BY <1>r, <2>1, <2>2, <2>4, <2>5
<1>15. ASSUME NEW h \in Handler, Test(h) PROVE SaveInv'
  <2>1. PICK next \in {"set", "reload"} : /\ next = "reload" => nat[Rule(h)] # 0
                                          /\ Line(h, "test", next) /\ UNCHANGED <<plan, conf, nat, last>>
    BY <1>15 DEF Test, Plain
  <2>2. /\ Rule(h) = <<plan[h].set.net, default>> /\ nat[Rule(h)] \in Nat
        /\ default' = default /\ SaveStage(h) /\ script[h] = "test"
    BY <1>i, <1>l, <2>1
  <2>3. plan[h].set.mode = "NAT"
    BY <2>2 DEF SaveStage
  <2>4. next = "reload" => Ruled(plan[h].set)'
    <3>1. SUFFICES ASSUME next = "reload" PROVE nat'[<<plan'[h].set.net, default'>>] > 0 /\ plan'[h].set.mode = "NAT"
      BY DEF Ruled
    <3>2. nat[Rule(h)] > 0
      BY <2>1, <2>2, <3>1
    <3> QED BY <2>1, <2>2, <2>3, <3>2
  <2> QED BY <1>r, <2>1, <2>3, <2>4
<1>16. ASSUME NEW h \in Handler, Set(h) PROVE SaveInv'
  <2>1. Line(h, "set", "reload") /\ UNCHANGED <<plan, conf>>
    BY <1>16 DEF Set
  <2>2. UNCHANGED last \/ \E what \in {"missed", "twice"} : Odd(h, what)
    BY <1>16 DEF Set
  <2>3. /\ Rule(h) = <<plan[h].set.net, default>> /\ Rule(h) \in Network \X Interface /\ nat[Rule(h)] \in Nat
        /\ h = last.by /\ default' = default /\ SaveStage(h) /\ script[h] = "set"
    BY <1>i, <1>l, <2>1, <2>2
  <2>4. plan[h].set.mode = "NAT"
    BY <2>3 DEF SaveStage
  <2>5. ASSUME last'.odd = {} PROVE Ruled(plan[h].set)'
    <3>1. ~Odd(h, "missed")
      BY <1>t, <2>3, <2>5, OddIs
    <3>2. nat' = [nat EXCEPT ![Rule(h)] = @ + 1]
      BY <1>16, <3>1 DEF Set
    <3>3. nat'[Rule(h)] > 0
      BY <1>t, <2>3, <3>2
    <3>4. <<plan'[h].set.net, default'>> = Rule(h) /\ plan'[h].set.mode = "NAT"
      BY <2>1, <2>3, <2>4
    <3> QED BY <3>3, <3>4 DEF Ruled
  <2> QED BY <1>r, <2>1, <2>2, <2>5
<1>17. ASSUME NEW h \in Handler, Reload(h) \/ Start(h) PROVE SaveInv'
  <2>1. PICK now \in {"reload", "start"}, next \in {"start", "check"} :
            Line(h, now, next) /\ UNCHANGED <<plan, last, conf, nat>>
    BY <1>17 DEF Reload, Start, Plain
  <2>2. now \in Lines /\ next \in Lines
    BY <1>i
  <2>3. /\ SaveStage(h) /\ script[h] = now /\ script'[h] = next /\ default' = default /\ row' = row
        /\ stage[h] \in {"idle", "wait"} /\ stage'[h] = stage[h]
    BY <1>l, <2>2, <2>1
  <2>4. stage'[h] # "idle" => plan'[h].set = Merge(row', plan'[h].body)
    BY <1>p, <2>1, <2>3
  <2>5. Made(plan[h].set)' /\ (last'.odd = {} => Ruled(plan[h].set)')
    <3>1. Made(plan[h].set) /\ (last.odd = {} => Ruled(plan[h].set))
      BY <1>i, <2>1, <2>3 DEF SaveStage
    <3> QED BY <2>1, <2>3, <3>1 DEF Made, Ruled
  <2>6. daemon' = Down \/ Current'
    <3>1. CASE Reload(h)
      BY <2>1, <3>1, BootIs DEF Reload, Current
    <3>2. CASE Start(h)
      <4>1. daemon = Down \/ Current
        <5>1. script[h] = "start"
          BY <3>2 DEF Start, Plain, Line
        <5> QED BY <2>3, <5>1 DEF SaveStage
      <4> QED BY <2>1, <3>2, <4>1, BootIs DEF Start, Current
    <3> QED BY <1>17, <3>1, <3>2
  <2>7. SaveStage(h)'
    BY <1>i, <2>1, <2>3, <2>5, <2>6, <2>4 DEF SaveStage
  <2> QED BY <1>l, <2>2, <2>1, <2>7
<1>18. ASSUME NEW h \in Handler, Check(h) PROVE SaveInv'
  <2>1. PICK next : /\ next = (IF stage[h] = "wait" THEN ExitCode ELSE "done")
                    /\ Line(h, "check", next) /\ UNCHANGED <<nat, last>>
    BY <1>18 DEF Check, Plain
  <2>2. next \in {"done"} \cup Exit /\ "check" \in Lines
    BY <1>i, <2>1 DEF ExitCode
  <2>3. /\ SaveStage(h) /\ script[h] = "check" /\ script'[h] = next /\ default' = default /\ row' = row
        /\ stage[h] \in {"idle", "wait"} /\ stage'[h] = stage[h] /\ plan[h] \in Job /\ plan[h].set \in Setting
    BY <1>l, <2>1, <2>2
  <2>4. CASE stage[h] = "wait"
    <3>1. UNCHANGED plan
      <4>1. plan' = [plan EXCEPT ![h] = plan[h]]
        BY <1>18, <2>4 DEF Check
      <4> QED BY <1>t, <4>1
    <3>2. next = "exit 0" => daemon # Down /\ daemon' = daemon /\ conf' = conf
      <4>1. SUFFICES ASSUME next = "exit 0" PROVE daemon # Down /\ daemon' = daemon /\ conf' = conf
        OBVIOUS
      <4>2. daemon # Down
        BY <2>1, <2>4, <4>1 DEF ExitCode
      <4>3. Restored(h) = conf
        BY <1>t, <4>2 DEF Restored
      <4> QED BY <1>18, <4>2, <4>3 DEF Check
    <3>3. next \in Exit
      BY <1>i, <2>1, <2>4 DEF ExitCode
    <3>4. plan'[h].set = Merge(row', plan'[h].body)
      BY <1>p, <2>3, <2>4, <3>1
    <3>5. Made(plan[h].set) /\ (last.odd = {} => Ruled(plan[h].set)) /\ (daemon = Down \/ Current)
      BY <1>i, <2>3 DEF SaveStage
    <3>6. next = "exit 0" => Made(plan[h].set)' /\ (last'.odd = {} => Ruled(plan[h].set)') /\ Current'
      BY <2>1, <2>3, <3>1, <3>2, <3>5 DEF Made, Ruled, Current
    <3>7. SaveStage(h)'
      BY <1>i, <2>3, <2>4, <3>3, <3>4, <3>6 DEF SaveStage
    <3> QED BY <1>l, <2>1, <2>2, <3>7
  <2>5. CASE stage[h] = "idle"
    <3>1. h \notin Busy'
      BY <2>1, <2>3, <2>5 DEF Busy
    <3> QED BY <1>l, <2>1, <2>2, <3>1
  <2> QED BY <2>3, <2>4, <2>5
<1>19. CASE Restart
    BY <1>19 DEF Restart, NoPut
<1> QED BY <1>1, <1>2, <1>3, <1>4, <1>5, <1>6, <1>7, <1>8, <1>9, <1>10, <1>11, <1>12, <1>13, <1>14, <1>15,
           <1>16, <1>17, <1>18, <1>19 DEF ConfigNext

\* While nothing overlaps, the file a request has found goes to the backup, and
\* from there back when the script fails.
LEMMA RestoreStep == TypeInv /\ RunInv /\ RestoreInv /\ [ConfigNext]_config => RestoreInv'
<1>n. TypeInv /\ RestoreInv /\ [ConfigNext]_config => (last.by = Nobody => last.answer = "none")'
  <2> SUFFICES ASSUME TypeInv, RestoreInv, [ConfigNext]_config PROVE (last.by = Nobody => last.answer = "none")'
      OBVIOUS
  <2>t. last \in Record
    BY Types
  <2>1. CASE last' = last
    BY <2>1 DEF RestoreInv
  <2>2. ASSUME NEW h \in Handler, NEW what, Answer(h, what) PROVE (last.by = Nobody => last.answer = "none")'
    BY <2>2, <2>t, AnswerIs, NobodyAssumption DEF RestoreInv
  <2>3. ASSUME NEW h \in Handler, NEW body \in Changes, Put(h, body) PROVE last'.by # Nobody
    BY <2>3, PutIs, NobodyAssumption
  <2>4. CASE Restart
    BY <2>4 DEF Restart, NoPut
  <2>5. ASSUME NEW h \in Handler, Unreached(h) \/ StopsWaiting(h) \/ Report(h) \/ Update(h) \/ UpdateFails(h)
        PROVE  last' = last \/ \E what : Answer(h, what)
    BY <2>5 DEF Unreached, StopsWaiting, Report, Update, UpdateFails
  <2>6. ASSUME NEW h \in Handler, \/ Cat(h) \/ Apply(h) \/ Backup(h) \/ Write(h)
                                 \/ Reload(h) \/ Start(h) \/ Check(h)
        PROVE  last' = last
    BY <2>6 DEF Cat, Apply, Backup, Write, Reload, Start, Check, Plain
  <2>7. ASSUME NEW h \in Handler, Unheard(h) \/ Unset(h) \/ Test(h) \/ Set(h)
        PROVE  (last.by = Nobody => last.answer = "none")'
    <3>1. last' = last \/ \E what \in {"missed", "twice", "unheard"} : Odd(h, what)
      BY <2>7 DEF Unheard, Unset, Test, Set, Plain
    <3> QED BY <2>t, <3>1, OddIs DEF RestoreInv
  <2>8. Delete \/ UNCHANGED config => last' = last
    BY DEF Delete, config
  <2> QED BY <2>1, <2>2, <2>3, <2>4, <2>5, <2>6, <2>7, <2>8 DEF ConfigNext
<1> SUFFICES ASSUME TypeInv, RunInv, RestoreInv, [ConfigNext]_config, calm', last'.by # Nobody PROVE Restoring'
    BY <1>n DEF RestoreInv
<1>t. /\ stage \in [Handler -> {"idle", "cat", "apply", "wait", "update"}]
      /\ script \in [Handler -> Lines \cup {"done"} \cup Exit]
      /\ plan \in [Handler -> Job \cup {NoPlan}] /\ last \in Record
      /\ conf \in [Path -> File \cup {NoFile}] /\ bak \in [Path -> File \cup {NoFile}]
      /\ Lines \cap Exit = {} /\ "done" \notin Lines /\ "done" \notin Exit
    BY Types
<1>s. ASSUME NEW h \in Handler PROVE /\ stage[h] \in {"cat", "apply"} => script[h] = "done"
                                     /\ stage[h] # "wait" => script[h] \notin Exit
    BY Types
<1>i. /\ Lines = {"backup", "write", "unset", "test", "set", "reload", "start", "check"}
      /\ Installed = {"unset", "test", "set", "reload", "start", "check"} /\ Exit = {"exit 0", "exit 1"}
    BY DEF Lines, Installed, Exit
\* A step of the one handler at work.
<1>q. ASSUME NEW h \in Busy, calm, last'.by = last.by,
             \A g \in Handler \ {h} : stage'[g] = stage[g] /\ script'[g] = script[g]
      PROVE  /\ h = last.by /\ last.answer # "rejected" /\ RestoreStage(h)
             /\ Busy' \subseteq {last.by}
             /\ (h \in Busy' => RestoreStage(h)') /\ last'.answer # "rejected" => Restoring'
  <2>1. h = last.by /\ last.answer # "rejected" /\ RestoreStage(h) /\ Busy \subseteq {last.by}
    BY <1>q DEF RestoreInv, Restoring
  <2>2. Busy' \subseteq {last.by}
    BY <1>q, <2>1 DEF Busy
  <2> QED BY <1>q, <2>1, <2>2 DEF Restoring
\* A step that changes none of what RestoreInv speaks of.
<1>u. ASSUME UNCHANGED <<conf, bak, stage, script, plan, last, calm>> PROVE Restoring'
  <2>1. Busy' = Busy
    BY <1>u DEF Busy
  <2>2. \A h \in Busy : RestoreStage(h) => RestoreStage(h)'
    BY <1>u DEF RestoreStage, Place
  <2> QED BY <1>u, <2>1, <2>2 DEF RestoreInv, Restoring
<1>1. CASE UNCHANGED config
    BY <1>1, <1>u DEF config
<1>2. ASSUME NEW h \in Handler, NEW body \in Changes, Put(h, body) PROVE Restoring'
  <2>1. /\ stage' = [stage EXCEPT ![h] = "cat"] /\ h \notin Busy /\ UNCHANGED <<server, script>>
        /\ Busy = {}
    BY <1>2 DEF Put, AtRest
  <2>2. last'.by = h /\ last'.answer = "none" /\ last'.found = conf
    BY <1>2, PutIs
  <2>3. Busy' = {h} /\ stage'[h] = "cat" /\ conf' = conf
    BY <1>t, <2>1 DEF Busy, server
  <2> QED BY <2>2, <2>3 DEF Restoring, RestoreStage
<1>3. ASSUME NEW h \in Handler, Cat(h) \/ Apply(h) PROVE Restoring'
  <2>1. /\ \/ stage[h] = "cat" /\ stage'[h] = "apply"
           \/ stage[h] = "apply" /\ stage'[h] = "wait" /\ script'[h] = "backup"
        /\ h \in Busy /\ calm /\ UNCHANGED <<server, last>>
    <3>1. CASE Cat(h)
      BY <1>t, <3>1 DEF Cat, Busy
    <3>2. CASE Apply(h)
      BY <1>t, <3>2 DEF Apply, Busy
    <3> QED BY <1>3, <3>1, <3>2
  <2>2. \A g \in Handler \ {h} : stage'[g] = stage[g] /\ script'[g] = script[g]
    BY <1>3, <1>t DEF Cat, Apply
  <2>3. RestoreStage(h) /\ last.answer # "rejected"
    BY <1>q, <2>1, <2>2
  <2>4. RestoreStage(h)'
    BY <1>i, <2>1, <2>3 DEF RestoreStage, server
  <2> QED BY <1>q, <2>1, <2>2, <2>3, <2>4
\* A handler that ends without a 502 of its script, which may go on.
<1>4. ASSUME NEW h \in Handler, NEW what \in {"failed", "saved"}, Answer(h, what), stage[h] # "idle", calm,
             Leave(h), \A g \in Handler \ {h} : script'[g] = script[g]
      PROVE  Restoring'
  <2>1. h \in Busy /\ stage'[h] = "idle" /\ \A g \in Handler \ {h} : stage'[g] = stage[g]
    BY <1>4, <1>t DEF Leave, Busy
  <2>2. last'.by = last.by /\ (last.by = h => last'.answer = what)
    BY <1>4, <1>t, AnswerIs
  <2>3. last'.answer # "rejected"
    BY <1>4, <1>q, <2>1, <2>2
  <2>4. RestoreStage(h)'
    BY <2>1 DEF RestoreStage
  <2> QED BY <1>4, <1>q, <2>1, <2>2, <2>3, <2>4
<1>5. ASSUME NEW h \in Handler, Unreached(h) \/ UpdateFails(h) \/ StopsWaiting(h) PROVE Restoring'
  <2>1. stage[h] # "idle" /\ calm /\ Leave(h) /\ Answer(h, "failed")
    BY <1>5 DEF Unreached, UpdateFails, StopsWaiting
  <2>2. \A g \in Handler \ {h} : script'[g] = script[g]
    BY <1>5, <1>t DEF Unreached, UpdateFails, StopsWaiting
  <2> QED BY <1>4, <2>1, <2>2
<1>6. ASSUME NEW h \in Handler, Update(h) PROVE Restoring'
  <2>1. stage[h] # "idle" /\ calm /\ Leave(h) /\ UNCHANGED script
    BY <1>6 DEF Update
  <2>2. PICK what \in {"failed", "saved"} : Answer(h, what)
    BY <1>6 DEF Update
  <2> QED BY <1>4, <2>1, <2>2
<1>7. ASSUME NEW h \in Handler, Report(h) PROVE Restoring'
  <2>1. stage[h] = "wait" /\ script[h] \in Exit /\ h \in Busy /\ script'[h] = "done" /\ calm /\ UNCHANGED server
    BY <1>7, <1>t DEF Report, Busy
  <2>2. \A g \in Handler \ {h} : stage'[g] = stage[g] /\ script'[g] = script[g]
    BY <1>7, <1>t DEF Report, Leave
  <2>3. CASE script[h] = "exit 0"
    <3>1. stage'[h] = "update" /\ last' = last
      BY <1>7, <1>t, <2>3 DEF Report
    <3>2. RestoreStage(h)'
      BY <3>1 DEF RestoreStage
    <3> QED BY <1>q, <2>1, <2>2, <3>1, <3>2
  <2>4. CASE script[h] = "exit 1"
    <3>1. Leave(h) /\ Answer(h, "rejected")
      BY <1>7, <2>4 DEF Report
    <3>2. last'.by = last.by /\ last'.found = last.found
      BY <1>t, <3>1, AnswerIs
    <3>3. h \notin Busy'
      BY <1>t, <2>1, <3>1 DEF Busy, Leave
    <3>4. RestoreStage(h) /\ Busy' \subseteq {last.by} /\ h = last.by
      BY <1>q, <2>1, <2>2, <3>2
    <3>5. Busy' = {}
      BY <3>3, <3>4
    <3>6. conf' = last'.found
      BY <2>1, <2>4, <3>2, <3>4 DEF RestoreStage, server
    <3> QED BY <3>5, <3>6 DEF Restoring
  <2> QED BY <1>i, <2>1, <2>3, <2>4
<1>8. CASE Delete
    BY <1>8, <1>u DEF Delete, server
<1>9. ASSUME NEW h \in Handler, Unheard(h) PROVE Restoring'
  <2>1. stage[h] = "wait" /\ stage'[h] = "update" /\ h \in Busy /\ calm /\ Odd(h, "unheard")
    BY <1>9, <1>t DEF Unheard, Busy
  <2>2. last'.by = last.by /\ last'.answer = last.answer
    BY <1>t, <2>1, OddIs
  <2>3. \A g \in Handler \ {h} : stage'[g] = stage[g] /\ script'[g] = script[g]
    BY <1>9, <1>t DEF Unheard
  <2>4. RestoreStage(h)'
    BY <2>1 DEF RestoreStage
  <2> QED BY <1>q, <2>1, <2>2, <2>3, <2>4
\* The lines of the script.
<1>l. ASSUME NEW h \in Handler, NEW now \in Lines, NEW next \in Lines \cup {"done"} \cup Exit, Line(h, now, next),
             UNCHANGED last \/ \E what \in {"missed", "twice"} : Odd(h, what)
      PROVE  /\ calm /\ RestoreStage(h) /\ last'.found = last.found
             /\ script[h] = now /\ script'[h] = next
             /\ stage[h] \notin {"cat", "apply"} /\ stage'[h] = stage[h] /\ Place(h) \in Path
             /\ ((h \in Busy' => RestoreStage(h)') => Restoring')
  <2>1. h \in Busy /\ calm /\ script[h] = now /\ script'[h] = next /\ UNCHANGED stage
    BY <1>l, <1>t DEF Line, Busy
  <2>2. \A g \in Handler \ {h} : stage'[g] = stage[g] /\ script'[g] = script[g]
    BY <1>l, <1>t, <2>1 DEF Line
  <2>3. last'.by = last.by /\ last'.answer = last.answer /\ last'.found = last.found
    BY <1>l, <1>t, OddIs
  <2>4. stage[h] \notin {"cat", "apply"} /\ Place(h) \in Path
    BY <1>l, <1>s, <1>t, <2>1, JobIs
  <2> QED BY <1>q, <2>1, <2>2, <2>3, <2>4
<1>10. ASSUME NEW h \in Handler, Backup(h) PROVE Restoring'
  <2>1. Line(h, "backup", "write") /\ UNCHANGED <<conf, last>> /\ "backup" \in Lines /\ "write" \in Lines
    BY <1>10, <1>i DEF Backup, Plain
  <2>2. /\ calm /\ RestoreStage(h) /\ script[h] = "backup" /\ script'[h] = "write"
        /\ stage[h] \notin {"cat", "apply"} /\ stage'[h] = stage[h]
    BY <1>l, <2>1
  <2>3. RestoreStage(h)'
    BY <1>i, <2>1, <2>2 DEF RestoreStage
  <2> QED BY <1>l, <2>1, <2>3
<1>11. ASSUME NEW h \in Handler, Write(h) PROVE Restoring'
  <2>1. /\ Line(h, "write", "unset") /\ UNCHANGED <<bak, last, plan>> /\ "write" \in Lines /\ "unset" \in Lines
        /\ conf' = [conf EXCEPT ![Place(h)] = Build(plan[h].own, plan[h].set)]
    BY <1>11, <1>i DEF Write, Plain
  <2>2. /\ calm /\ RestoreStage(h) /\ script[h] = "write" /\ script'[h] = "unset"
        /\ stage[h] \notin {"cat", "apply"} /\ stage'[h] = stage[h] /\ Place(h) \in Path
    BY <1>l, <2>1
  <2>3. Up /\ (conf[Place(h)] # NoFile => bak[Place(h)] = conf[Place(h)])
    BY <2>2 DEF RunInv
  <2>4. ASSUME stage[h] = "wait"
        PROVE  /\ last.found \in [Path -> File \cup {NoFile}] /\ last.found[Home] # NoFile
               /\ \A p \in Path \ {Place(h)} : conf'[p] = last.found[p]
               /\ last.found[Place(h)] # NoFile => bak'[Place(h)] = last.found[Place(h)]
    <3>1. last.found = conf
      BY <2>2, <2>4 DEF RestoreStage
    <3>2. conf[Home] # NoFile
      BY <2>3 DEF Up, Starts
    <3> QED BY <1>t, <2>1, <2>2, <2>3, <3>1, <3>2
  <2>5. Place(h)' = Place(h)
    BY <2>1 DEF Place
  <2>6. RestoreStage(h)'
    BY <1>i, <2>1, <2>2, <2>4, <2>5 DEF RestoreStage
  <2> QED BY <1>l, <2>1, <2>6
\* A line after the file is written that leaves it and the backup.
<1>r. ASSUME NEW h \in Handler, NEW now \in Installed, NEW next \in Installed, Line(h, now, next),
             UNCHANGED <<conf, bak, plan>>, UNCHANGED last \/ \E what \in {"missed", "twice"} : Odd(h, what)
      PROVE  Restoring'
  <2>1. now \in Lines /\ next \in Lines
    BY <1>i
  <2>2. /\ calm /\ RestoreStage(h) /\ last'.found = last.found /\ script[h] = now /\ script'[h] = next
        /\ stage[h] \notin {"cat", "apply"} /\ stage'[h] = stage[h]
    BY <1>l, <1>r, <2>1
  <2>3. RestoreStage(h)'
    BY <1>i, <1>r, <2>2 DEF RestoreStage, Place
  <2> QED BY <1>l, <1>r, <2>1, <2>3
<1>12. ASSUME NEW h \in Handler, Unset(h) \/ Test(h) \/ Set(h) \/ Reload(h) \/ Start(h) PROVE Restoring'
  <2>1. PICK now \in Installed, next \in Installed : Line(h, now, next) /\ UNCHANGED <<conf, bak, plan>>
    BY <1>12, <1>i DEF Unset, Test, Set, Reload, Start, Plain
  <2>2. UNCHANGED last \/ \E what \in {"missed", "twice"} : Odd(h, what)
    BY <1>12 DEF Unset, Test, Set, Reload, Start, Plain
  <2> QED BY <1>r, <2>1, <2>2
<1>13. ASSUME NEW h \in Handler, Check(h) PROVE Restoring'
  <2>1. PICK next : /\ next = (IF stage[h] = "wait" THEN ExitCode ELSE "done")
                    /\ Line(h, "check", next) /\ UNCHANGED <<bak, last>>
    BY <1>13 DEF Check, Plain
  <2>2. next \in {"exit 0", "exit 1", "done"} /\ "check" \in Lines
    BY <1>i, <2>1 DEF ExitCode
  <2>3. /\ calm /\ RestoreStage(h) /\ script'[h] = next /\ script[h] = "check"
        /\ stage[h] \notin {"cat", "apply"} /\ stage'[h] = stage[h] /\ Place(h) \in Path
    BY <1>i, <1>l, <2>1, <2>2
  <2>4. ASSUME stage[h] = "wait", next = "exit 1" PROVE conf' = last'.found
    <3>1. daemon = Down
      BY <2>1, <2>4 DEF ExitCode
    <3>2. Place(h) = Home /\ Starts(bak[Home])
      BY <1>i, <2>3, <3>1 DEF RunInv, Safe, Up, Down
    <3>3. /\ last.found \in [Path -> File \cup {NoFile}]
          /\ \A p \in Path \ {Home} : conf[p] = last.found[p]
          /\ bak[Home] = last.found[Home]
      BY <1>i, <2>3, <2>4, <3>2 DEF RestoreStage
    <3>4. conf' = [conf EXCEPT ![Home] = bak[Home]]
      BY <1>13, <3>1, <3>2 DEF Check, Restored, Starts
    <3>5. conf' = last.found
      BY <1>t, <3>3, <3>4
    <3> QED BY <2>1, <3>5
  <2>5. RestoreStage(h)'
    BY <1>i, <2>1, <2>2, <2>3, <2>4 DEF RestoreStage
  <2> QED BY <1>i, <1>l, <2>1, <2>2, <2>5
<1>14. CASE Restart
    BY <1>14 DEF Restart, NoPut
<1> QED BY <1>1, <1>2, <1>3, <1>5, <1>6, <1>7, <1>8, <1>9, <1>10, <1>11, <1>12, <1>13, <1>14 DEF ConfigNext

-----------------------------------------------------------------------------

IInv == TypeInv /\ RunInv /\ SaveInv /\ RestoreInv

LEMMA ConfigInvariant == ConfigSpec => []IInv
<1>1. ConfigInit => IInv
  <2> SUFFICES ASSUME ConfigInit PROVE IInv
      OBVIOUS
  <2>1. PICK o \in Other \ Refused :
          conf = [p \in Path |->
                    IF p = Home THEN Build(TRUE, [net |-> Initial, mode |-> "NAT", other |-> o]) ELSE NoFile]
    BY DEF ConfigInit
  <2>2. PICK set : set = [net |-> Initial, mode |-> "NAT", other |-> o]
    OBVIOUS
  <2>3. PICK r : r = Restrict(set, Managed)
    OBVIOUS
  <2>4. r = [k \in Managed |-> set[k]]
    BY <2>3 DEF Restrict
  <2>5. r \in [net : Network, mode : {"NAT", "ROUTING"}, other : Other] /\ r.other \notin Refused
    BY <2>2, <2>4 DEF Managed
  <2>6. PICK file : file = [own |-> TRUE, set |-> r]
    OBVIOUS
  <2>7. file \in File /\ Starts(file)
    BY <2>5, <2>6 DEF File, NoFile, Starts
  <2>8. conf = [p \in Path |-> IF p = Home THEN file ELSE NoFile]
    BY <2>1, <2>2, <2>3, <2>6 DEF Build
  <2>9. conf \in [Path -> File \cup {NoFile}] /\ conf[Home] = file
    BY <2>7, <2>8
  <2>10. daemon = [path |-> Home, file |-> file]
    BY <2>7, <2>9 DEF ConfigInit, Boot
  <2>11. nat \in [Network \X Interface -> Nat]
    BY FreshType DEF ConfigInit
  <2>12. TypeInv
    <3>1. row \in Setting /\ bak \in [Path -> File \cup {NoFile}] /\ default \in Interface
      BY InputAssumption DEF ConfigInit
    <3>2. daemon \in [path : Path, file : File] \cup {Down}
      BY <2>7, <2>10
    <3> QED BY <2>9, <2>11, <3>1, <3>2, NobodyAssumption DEF ConfigInit, TypeInv, ConfigTypeOK, ScriptOK, NoPut, Exit, Lines
  <2>13. Up
    BY <2>7, <2>9, <2>10 DEF Up
  <2>14. RunInv
    <3>1. Busy = {} /\ \A h \in Handler : script[h] = "done"
      BY DEF ConfigInit, Busy
    <3>2. daemon.path = Home
      BY <2>10
    <3> QED BY <2>13, <3>1, <3>2 DEF RunInv, Installed, Lines
  <2>15. SaveInv /\ RestoreInv
    BY DEF ConfigInit, SaveInv, RestoreInv, NoPut
  <2> QED BY <2>12, <2>14, <2>15 DEF IInv
<1>2. IInv /\ [ConfigNext]_config => IInv'
    BY ConfigTypeStep, RunStep, SaveStep, RestoreStep DEF IInv
<1> QED BY <1>1, <1>2, PTL DEF ConfigSpec

\* Every variable keeps its type, whatever bodies requests have.
THEOREM ConfigTypeCorrect == ConfigSpec => []ConfigTypeOK
<1>1. IInv => ConfigTypeOK
    BY DEF IInv, TypeInv
<1> QED BY <1>1, ConfigInvariant, PTL

\* PUT /api/servers/[id] with its script of rollback: while no two requests
\* overlap and no script is cut off, any number of requests, bad settings, moves
\* of serverConf and faults leaves OpenVPN running on the file the container
\* starts it with, as that file is now.
THEOREM ServerKeepsRunning == ConfigSpec => []KeepsRunning
<1>1. IInv => KeepsRunning
  <2> SUFFICES ASSUME RunInv, calm, Busy = {} PROVE Up
      BY DEF IInv, KeepsRunning, AtRest, Up
  <2>1. \A h \in Handler : script[h] \notin Lines
    BY DEF Busy, Lines
  <2> QED BY <2>1 DEF RunInv
<1> QED BY <1>1, ConfigInvariant, PTL

\* A 200 of PUT /api/servers/[id] that nothing overlapped with, and whose exit
\* code was heard, means that the file the row names is as the row says and the
\* process has read its own; and, unless the iptables command that counts failed
\* or there were several rules to remove, that the NAT rule of the network is as
\* the row says, whatever lost updates, overlaps and restarts came before.
THEOREM AnsweredIsApplied == ConfigSpec => []SavedIsApplied
<1>1. IInv => SavedIsApplied
    BY DEF IInv, SaveInv, Saved, Made, Ruled, Current, SavedIsApplied
<1> QED BY <1>1, ConfigInvariant, PTL

\* A 502 of the script means that the files are those the request found and the
\* process has read its own, while no requests overlap and no script is cut off.
THEOREM RefusedIsUndone == ConfigSpec => []RejectedIsRestored
<1>1. IInv => RejectedIsRestored
  <2> SUFFICES ASSUME IInv, AtRest, calm, last.answer = "rejected"
               PROVE  conf = last.found /\ daemon = [path |-> Home, file |-> conf[Home]]
      BY DEF RejectedIsRestored
  <2>1. \A h \in Handler : script[h] \notin Lines
    BY DEF AtRest, Busy, Lines
  <2>2. daemon = [path |-> Home, file |-> conf[Home]]
    BY <2>1 DEF IInv, RunInv, Up
  <2>3. last.by # Nobody
    BY DEF IInv, RestoreInv
  <2> QED BY <2>2, <2>3 DEF IInv, RestoreInv, Restoring
<1> QED BY <1>1, ConfigInvariant, PTL

-----------------------------------------------------------------------------
(* The synchronisation with Google. *)

USE EmailAssumption, MappingAssumption, BoundAssumption

\* All snapshots are taken.
Past == {"members", "lookup", "create", "upsert", "flag", "end", "done"}

\* Users are being added or flagged for the mapping in hand.
Batch == {"lookup", "create", "upsert", "flag"}

SnapshotOK(s) ==
    pc[s] # "idle" =>
        /\ \A g \in GoogleGroup :
             work[s].always[g] \subseteq directory[g] /\ directory[g] \subseteq work[s].ever[g]
        /\ \A m \in Mapping : work[s].got[m] \subseteq work[s].ever[m.google]
        /\ \A m \in work[s].list \ work[s].unread :
             \/ pc[s] = "fetch" /\ m \in work[s].todo
             \/ work[s].always[m.google] \subseteq work[s].got[m]

BatchOK(s) ==
    /\ pc[s] \notin Batch => work[s].new = {} /\ work[s].gone = {}
    /\ pc[s] \notin {"create", "upsert"} => work[s].email = {}
    /\ pc[s] \in {"list", "fetch"} => work[s].at = {}
    /\ pc[s] = "flag" => work[s].new = {}
    /\ work[s].todo \subseteq work[s].list
    /\ pc[s] \in {"end", "done"} => work[s].todo = {}
    /\ \A e, f \in work[s].email : e = f
    /\ \A m, n \in work[s].at : m = n
    /\ \A m \in work[s].at :
         /\ m \in work[s].list
         /\ work[s].new \union work[s].email \subseteq work[s].got[m]
         /\ \A o \in work[s].list : o.vpn = m.vpn => work[s].gone \intersect work[s].got[o] = {}

\* Whoever is a member of a Google group is in the VPN group, or about to be.
ServedOK(s) ==
    pc[s] \in Past =>
        \A m \in work[s].list \ (work[s].todo \union work[s].unread) :
            \A e \in work[s].always[m.google] \ (work[s].errors \union work[s].touched) :
                \/ name[e] # 0 /\ member[e][m.vpn] = "GOOGLE_SYNC"
                \/ m \in work[s].at /\ e \in work[s].new \union work[s].email

\* Whoever is in the VPN group by Google and has left is flagged, or about to be.
LeftOK(s) ==
    pc[s] \in Past =>
        \A m \in work[s].list \ work[s].todo,
           e \in Email \ (work[s].errors \union work[s].touched \union work[s].joined) :
            member[e][m.vpn] = "GOOGLE_SYNC" =>
                \/ e \in flagged
                \/ \E o \in Mapped(s, m) : e \in work[s].ever[o.google]
                \/ m \in work[s].at /\ e \in work[s].gone

SyncInv == \A s \in Sync : SnapshotOK(s) /\ BatchOK(s) /\ ServedOK(s) /\ LeftOK(s)

-----------------------------------------------------------------------------
(* Types. *)

\* generateUniqueName: there is a name for whoever has none, and it is free.
LEMMA FreeNameIsFree ==
    ASSUME name \in [Email -> 0..MaxName], NEW e \in Email, name[e] = 0
    PROVE  /\ FreeName \in 1..MaxName
           /\ \A f \in Email : name[f] # FreeName
<1>1. /\ MaxName \in Nat \ {0}
      /\ IsFiniteSet(Email \ {e})
      /\ Cardinality(Email \ {e}) = MaxName - 1
  <2>1. MaxName \in Nat /\ MaxName # 0
    BY FS_CardinalityType, FS_EmptySet DEF MaxName
  <2>2. QED
    BY <2>1, FS_RemoveElement DEF MaxName
<1>2. IsFiniteSet(1..MaxName) /\ Cardinality(1..MaxName) = MaxName
  BY <1>1, FS_Interval
<1>3. \E n \in 1..MaxName : \A f \in Email : name[f] # n
  <2>1. SUFFICES ASSUME \A n \in 1..MaxName : \E f \in Email : name[f] = n
                 PROVE  FALSE
    OBVIOUS
  <2> DEFINE holder == [n \in 1..MaxName |-> CHOOSE f \in Email : name[f] = n]
  <2>2. \A n \in 1..MaxName : holder[n] \in Email \ {e} /\ name[holder[n]] = n
    BY <2>1
  <2>3. holder \in [1..MaxName -> Email \ {e}]
    BY <2>2
  <2> HIDE DEF holder
  <2>4. PICK n, k \in 1..MaxName : n # k /\ holder[n] = holder[k]
    BY <1>1, <1>2, <2>3, FS_PigeonHole
  <2>5. QED
    BY <2>2, <2>4
<1> DEFINE free == (1..MaxName + 1) \ {name[f] : f \in Email}
<1>4. \E n \in free : \A k \in free : n <= k
  <2>1. free \subseteq Nat /\ free # {}
    BY <1>1, <1>3
  <2> HIDE DEF free
  <2> DEFINE below == {0..n : n \in free}
  <2>2. below \subseteq FiniteSubsetsOf(Nat) /\ below # {}
    <3>1. ASSUME NEW n \in free
          PROVE  0..n \in FiniteSubsetsOf(Nat)
      <4>1. n \in Nat /\ 0 \in Int /\ n \in Int
        BY <2>1
      <4>2. IsFiniteSet(0..n)
        BY <4>1, FS_Interval
      <4>3. QED
        BY <4>1, <4>2 DEF FiniteSubsetsOf
    <3>2. QED
      BY <2>1, <3>1
  <2>3. \E x \in below : \A y \in below : <<y, x>> \notin StrictSubsetOrdering(Nat)
    <3> HIDE DEF below
    <3>1. IsWellFoundedOn(StrictSubsetOrdering(Nat), FiniteSubsetsOf(Nat))
      BY FS_StrictSubsetOrderingWellFounded
    <3>2. QED
      BY <2>2, <3>1, WFMin
  <2>4. PICK n \in free : \A k \in free : <<0..k, 0..n>> \notin StrictSubsetOrdering(Nat)
    BY <2>3
  <2>5. ASSUME NEW k \in free, k < n
        PROVE  FALSE
    <3>1. k \in Nat /\ n \in Nat /\ n \in 0..n /\ n \notin 0..k /\ 0..k \subseteq 0..n /\ 0..n \subseteq Nat
      BY <2>1, <2>5
    <3>2. QED
      BY <2>4, <3>1 DEF StrictSubsetOrdering
  <2>6. QED
    BY <2>1, <2>5
<1>5. FreeName \in free /\ \A k \in free : FreeName <= k
  <2>1. FreeName = CHOOSE n \in free : \A k \in free : n <= k
    BY DEF FreeName, Min
  <2> HIDE DEF free
  <2>2. QED
    BY <1>4, <2>1
<1>6. PICK n \in 1..MaxName : \A f \in Email : name[f] # n
  BY <1>3
<1>7. n \in free
  BY <1>1, <1>6
<1>8. QED
  BY <1>1, <1>5, <1>7

Label == {"idle", "list", "fetch", "members", "lookup", "create", "upsert", "flag", "end", "done"}

DataOK ==
    /\ directory \in [GoogleGroup -> SUBSET Email]
    /\ mappings \subseteq {m \in Mapping : m.vpn \in groups}
    /\ groups \subseteq VpnGroup

UsersOK ==
    /\ name \in [Email -> 0..MaxName]
    /\ \A e, f \in Email : name[e] = name[f] => name[e] = 0 \/ e = f
    /\ flagged \subseteq {e \in Email : name[e] # 0}
    /\ member \in [Email -> [VpnGroup -> Membership]]
    /\ \A e \in Email, v \in VpnGroup : member[e][v] # "none" => name[e] # 0 /\ v \in groups

PlacesOK ==
    /\ pc \in [Sync -> Label]
    /\ work \in [Sync -> Work]

BoundsOK == moves \in 0..MaxMoves /\ syncs \in 0..MaxSyncs

LEMMA TypeParts == TypeOK <=> DataOK /\ UsersOK /\ PlacesOK /\ BoundsOK
BY DEF TypeOK, DataOK, UsersOK, PlacesOK, BoundsOK, Label

LEMMA MaxNameType == MaxName \in Nat
BY FS_CardinalityType DEF MaxName

LEMMA NoWorkType == NoWork \in Work
<1>1. 0 \in 0..MaxName
  BY MaxNameType
<1>2. QED
  BY <1>1 DEF NoWork, Work

LEMMA InitType == Init => TypeOK
<1> SUFFICES ASSUME Init PROVE TypeOK
  OBVIOUS
<1>1. DataOK /\ BoundsOK
  BY DEF Init, DataOK, BoundsOK
<1>2. UsersOK
  BY MaxNameType DEF Init, UsersOK, Membership
<1>3. PlacesOK
  BY NoWorkType DEF Init, PlacesOK, Label
<1>4. QED
  BY <1>1, <1>2, <1>3, TypeParts

LEMMA GotoType ==
    ASSUME PlacesOK, NEW s \in Sync, NEW l \in Label, NEW w \in Work, Goto(s, l, w)
    PROVE  /\ PlacesOK'
           /\ pc'[s] = l /\ work'[s] = w
           /\ \A t \in Sync \ {s} : pc'[t] = pc[t] /\ work'[t] = work[t]
BY DEF PlacesOK, Goto

LEMMA AfterType ==
    ASSUME NEW w
    PROVE  /\ After(w) \in {"lookup", "flag", "members", "end"}
           /\ After(w) = "lookup" <=> w.new # {}
           /\ After(w) = "flag" <=> w.new = {} /\ w.gone # {}
           /\ After(w) = "members" <=> w.new = {} /\ w.gone = {} /\ w.todo # {}
           /\ After(w) = "end" <=> w.new = {} /\ w.gone = {} /\ w.todo = {}
BY DEF After

\* What a sync has seen of others, and the snapshots it works from.
SameHistory(s, w) ==
    /\ w.always = work[s].always /\ w.ever = work[s].ever
    /\ w.touched = work[s].touched /\ w.joined = work[s].joined
SameSnapshots(s, w) ==
    /\ w.list = work[s].list /\ w.got = work[s].got /\ w.unread = work[s].unread

\* What an error about a user leaves in hand.
LEMMA ProblemWork ==
    ASSUME PlacesOK, NEW s \in Sync, NEW e \in Email, Problem(s, e)
    PROVE  \E w \in Work :
             /\ Goto(s, After(w), w)
             /\ w.new = work[s].new \ {e} /\ w.gone = work[s].gone \ {e} /\ w.email = {}
             /\ w.errors = work[s].errors \union {e}
             /\ w.todo = work[s].todo /\ w.at = work[s].at
             /\ SameHistory(s, w) /\ SameSnapshots(s, w)
<1>1. PICK v \in Work : v = work[s]
  BY DEF PlacesOK
<1>2. PICK w : w = [v EXCEPT !.new = @ \ {e}, !.gone = @ \ {e}, !.email = {}, !.name = 0,
                             !.errors = @ \union {e}]
  OBVIOUS
<1>3. Goto(s, After(w), w)
  BY <1>1, <1>2 DEF Problem, Step
<1>4. 0 \in 0..MaxName
  BY MaxNameType
<1>5. /\ w \in Work
      /\ w.new = v.new \ {e} /\ w.gone = v.gone \ {e} /\ w.email = {}
      /\ w.errors = v.errors \union {e}
      /\ w.list = v.list /\ w.todo = v.todo /\ w.got = v.got
      /\ w.unread = v.unread /\ w.at = v.at /\ w.always = v.always /\ w.ever = v.ever
      /\ w.touched = v.touched /\ w.joined = v.joined
  BY <1>2, <1>4 DEF Work
<1>6. QED
  BY <1>1, <1>3, <1>5 DEF SameHistory, SameSnapshots

LEMMA BeginWork ==
    ASSUME DataOK, PlacesOK, NEW s \in Sync, Begin(s)
    PROVE  \E w \in Work :
             /\ Goto(s, "list", w)
             /\ w.list = {} /\ w.todo = {} /\ w.unread = {} /\ w.at = {}
             /\ w.new = {} /\ w.gone = {} /\ w.email = {} /\ w.errors = {}
             /\ w.got = [m \in Mapping |-> {}]
             /\ w.always = directory /\ w.ever = directory
<1>1. PICK w : w = [NoWork EXCEPT !.always = directory, !.ever = directory]
  OBVIOUS
<1>2. /\ w \in Work
      /\ w.list = {} /\ w.todo = {} /\ w.unread = {} /\ w.at = {}
      /\ w.new = {} /\ w.gone = {} /\ w.email = {} /\ w.errors = {}
      /\ w.got = [m \in Mapping |-> {}]
      /\ w.always = directory /\ w.ever = directory
  BY <1>1, NoWorkType DEF NoWork, Work, DataOK
<1>3. QED
  BY <1>1, <1>2 DEF Begin

LEMMA ListWork ==
    ASSUME DataOK, PlacesOK, NEW s \in Sync, ListMappings(s)
    PROVE  \E w \in Work :
             /\ Goto(s, IF mappings = {} THEN "end" ELSE "fetch", w)
             /\ w.list = mappings /\ w.todo = mappings /\ w.unread = work[s].unread
             /\ w.got = work[s].got /\ w.at = work[s].at
             /\ w.new = work[s].new /\ w.gone = work[s].gone /\ w.email = work[s].email
             /\ SameHistory(s, w)
<1>1. PICK v \in Work : v = work[s]
  BY DEF PlacesOK
<1>2. PICK w : w = [v EXCEPT !.list = mappings, !.todo = mappings]
  OBVIOUS
<1>3. /\ w \in Work
      /\ w.list = mappings /\ w.todo = mappings /\ w.unread = v.unread
      /\ w.got = v.got /\ w.at = v.at
      /\ w.new = v.new /\ w.gone = v.gone /\ w.email = v.email
      /\ w.always = v.always /\ w.ever = v.ever
      /\ w.touched = v.touched /\ w.joined = v.joined
  BY <1>2 DEF Work, DataOK
<1>4. QED
  BY <1>1, <1>2, <1>3, ZenonT(30) DEF ListMappings, SameHistory

\* A sync that has read one more mapping.
HasRead(s, m, emails, unread, w) ==
    /\ Goto(s, IF work[s].todo = {m} THEN "members" ELSE "fetch", w)
    /\ w.todo = IF work[s].todo = {m} THEN work[s].list ELSE work[s].todo \ {m}
    /\ w.list = work[s].list /\ w.unread = work[s].unread \union unread
    /\ w.got[m] = emails
    /\ \A o \in Mapping \ {m} : w.got[o] = work[s].got[o]
    /\ w.at = work[s].at
    /\ w.new = work[s].new /\ w.gone = work[s].gone /\ w.email = work[s].email
    /\ SameHistory(s, w)

LEMMA FetchWork ==
    ASSUME PlacesOK, NEW s \in Sync, NEW m, NEW emails, NEW unread, m \in work[s].todo,
           emails \subseteq Email, unread \subseteq Mapping, Fetched(s, m, emails, unread)
    PROVE  \E w \in Work : HasRead(s, m, emails, unread, w)
<1>1. PICK v \in Work : v = work[s]
  BY DEF PlacesOK
<1>2. PICK w : w = [v EXCEPT !.got[m] = emails, !.unread = @ \union unread,
                             !.todo = IF v.todo = {m} THEN v.list ELSE @ \ {m}]
  OBVIOUS
<1>3. m \in Mapping
  BY <1>1 DEF Work
<1>4. /\ w \in Work
      /\ w.todo = IF v.todo = {m} THEN v.list ELSE v.todo \ {m}
      /\ w.list = v.list /\ w.unread = v.unread \union unread
      /\ w.got[m] = emails
      /\ \A o \in Mapping \ {m} : w.got[o] = v.got[o]
      /\ w.at = v.at
      /\ w.new = v.new /\ w.gone = v.gone /\ w.email = v.email
      /\ w.always = v.always /\ w.ever = v.ever
      /\ w.touched = v.touched /\ w.joined = v.joined
  BY <1>2, <1>3 DEF Work
<1>5. Goto(s, IF v.todo = {m} THEN "members" ELSE "fetch", w)
  BY <1>1, <1>2 DEF Fetched
<1>6. QED
  BY <1>1, <1>4, <1>5 DEF SameHistory, HasRead

\* Who is in a VPN group by Google.
Google(v) == {e \in Email : member[e][v] = "GOOGLE_SYNC"}

LEMMA ReadWork ==
    ASSUME PlacesOK, NEW s \in Sync, ReadMembers(s)
    PROVE  \E w \in Work, m \in work[s].todo :
             /\ Goto(s, After(w), w)
             /\ w.at = {m} /\ w.todo = work[s].todo \ {m}
             /\ w.new = work[s].got[m] \ Google(m.vpn)
             /\ w.gone = (Google(m.vpn) \ work[s].got[m]) \ Others(s, m)
             /\ w.email = work[s].email /\ w.errors = work[s].errors
             /\ SameHistory(s, w) /\ SameSnapshots(s, w)
<1>1. PICK v \in Work : v = work[s]
  BY DEF PlacesOK
<1>2. PICK m \in v.todo :
        Step(s, [v EXCEPT !.at = {m}, !.todo = @ \ {m}, !.stale = {},
                          !.new = v.got[m] \ Google(m.vpn),
                          !.gone = (Google(m.vpn) \ v.got[m]) \ Others(s, m)])
  BY <1>1 DEF ReadMembers, Google
<1>3. PICK w : w = [v EXCEPT !.at = {m}, !.todo = @ \ {m}, !.stale = {},
                             !.new = v.got[m] \ Google(m.vpn),
                             !.gone = (Google(m.vpn) \ v.got[m]) \ Others(s, m)]
  OBVIOUS
<1>4. m \in Mapping /\ v.got[m] \subseteq Email /\ Google(m.vpn) \subseteq Email
  BY DEF Work, Google
<1>5. /\ w \in Work
      /\ w.at = {m} /\ w.todo = v.todo \ {m}
      /\ w.new = v.got[m] \ Google(m.vpn)
      /\ w.gone = (Google(m.vpn) \ v.got[m]) \ Others(s, m)
      /\ w.email = v.email /\ w.errors = v.errors
      /\ w.list = v.list /\ w.got = v.got /\ w.unread = v.unread
      /\ w.always = v.always /\ w.ever = v.ever
      /\ w.touched = v.touched /\ w.joined = v.joined
  BY <1>3, <1>4 DEF Work
<1>6. Goto(s, After(w), w)
  BY <1>2, <1>3 DEF Step
<1>7. QED
  BY <1>1, <1>5, <1>6 DEF SameHistory, SameSnapshots

LEMMA LookupWork ==
    ASSUME UsersOK, PlacesOK, NEW s \in Sync, Lookup(s)
    PROVE  \E w \in Work, e \in work[s].new :
             /\ Goto(s, IF name[e] = 0 THEN "create" ELSE "upsert", w)
             /\ w.new = work[s].new \ {e} /\ w.email = {e} /\ w.gone = work[s].gone
             /\ w.errors = work[s].errors /\ w.todo = work[s].todo /\ w.at = work[s].at
             /\ SameHistory(s, w) /\ SameSnapshots(s, w)
<1>1. PICK v \in Work : v = work[s]
  BY DEF PlacesOK
<1>2. PICK e \in v.new :
        Goto(s, IF name[e] = 0 THEN "create" ELSE "upsert",
             [v EXCEPT !.new = @ \ {e}, !.email = {e}, !.stale = @ \ {e},
                       !.name = IF name[e] = 0 THEN FreeName ELSE 0])
  BY <1>1 DEF Lookup
<1>3. PICK n : n = IF name[e] = 0 THEN FreeName ELSE 0
  OBVIOUS
<1>4. PICK w : w = [v EXCEPT !.new = @ \ {e}, !.email = {e}, !.stale = @ \ {e}, !.name = n]
  OBVIOUS
<1>5. e \in Email /\ n \in 0..MaxName
  <2>1. e \in Email
    BY DEF Work
  <2>2. QED
    BY <1>3, <2>1, FreeNameIsFree, MaxNameType DEF UsersOK
<1>6. /\ w \in Work
      /\ w.new = v.new \ {e} /\ w.email = {e} /\ w.gone = v.gone
      /\ w.errors = v.errors /\ w.todo = v.todo /\ w.at = v.at
      /\ w.list = v.list /\ w.got = v.got /\ w.unread = v.unread
      /\ w.always = v.always /\ w.ever = v.ever
      /\ w.touched = v.touched /\ w.joined = v.joined
  BY <1>4, <1>5 DEF Work
<1>7. Goto(s, IF name[e] = 0 THEN "create" ELSE "upsert", w)
  BY <1>2, <1>3, <1>4
<1>8. QED
  BY <1>1, <1>6, <1>7 DEF SameHistory, SameSnapshots

LEMMA CreateWork ==
    ASSUME PlacesOK, NEW s \in Sync, Create(s)
    PROVE  \E e \in work[s].email :
             \/ /\ name[e] = 0 /\ \A f \in Email : name[f] # work[s].name
                /\ name' = [name EXCEPT ![e] = work[s].name]
                /\ \E w \in Work :
                     /\ Goto(s, "upsert", w)
                     /\ w.new = work[s].new /\ w.email = work[s].email /\ w.gone = work[s].gone
                     /\ w.errors = work[s].errors /\ w.todo = work[s].todo /\ w.at = work[s].at
                     /\ SameHistory(s, w) /\ SameSnapshots(s, w)
             \/ Problem(s, e) /\ UNCHANGED name
<1>1. PICK v \in Work : v = work[s]
  BY DEF PlacesOK
<1>2. PICK e \in v.email :
        \/ /\ name[e] = 0 /\ \A f \in Email : name[f] # v.name
           /\ name' = [name EXCEPT ![e] = v.name]
           /\ Goto(s, "upsert", [v EXCEPT !.name = 0])
        \/ Problem(s, e) /\ UNCHANGED name
  BY <1>1 DEF Create
<1>3. PICK w : w = [v EXCEPT !.name = 0]
  OBVIOUS
<1>4. /\ w \in Work
      /\ w.new = v.new /\ w.email = v.email /\ w.gone = v.gone
      /\ w.errors = v.errors /\ w.todo = v.todo /\ w.at = v.at
      /\ w.list = v.list /\ w.got = v.got /\ w.unread = v.unread
      /\ w.always = v.always /\ w.ever = v.ever
      /\ w.touched = v.touched /\ w.joined = v.joined
  <2>1. 0 \in 0..MaxName
    BY MaxNameType
  <2>2. QED
    BY <1>3, <2>1 DEF Work
<1>5. \/ /\ name[e] = 0 /\ \A f \in Email : name[f] # v.name
         /\ name' = [name EXCEPT ![e] = v.name]
         /\ Goto(s, "upsert", w)
      \/ Problem(s, e) /\ UNCHANGED name
  BY <1>2, <1>3
<1>6. QED
  BY <1>1, <1>4, <1>5 DEF SameHistory, SameSnapshots

\* What others see of a membership that becomes one of Google.
Saw(t, e) == /\ work'[t].joined \subseteq Email
             /\ work[t].joined \subseteq work'[t].joined
             /\ pc[t] # "idle" => e \in work'[t].joined
             /\ pc[t] = "idle" => work'[t] = work[t]
             /\ pc'[t] = pc[t]

\* Nothing else of a sync changes but what it has seen of others.
SameWork(t) ==
    /\ work'[t].list = work[t].list /\ work'[t].todo = work[t].todo
    /\ work'[t].got = work[t].got /\ work'[t].unread = work[t].unread
    /\ work'[t].at = work[t].at /\ work'[t].new = work[t].new
    /\ work'[t].gone = work[t].gone /\ work'[t].email = work[t].email
    /\ work'[t].errors = work[t].errors

LEMMA UpsertWork ==
    ASSUME PlacesOK, NEW s \in Sync, Upsert(s)
    PROVE  \E e \in work[s].email, m \in work[s].at :
             \/ Problem(s, e) /\ UNCHANGED member
             \/ /\ name[e] # 0 /\ m.vpn \in groups
                /\ member' = [member EXCEPT ![e][m.vpn] = "GOOGLE_SYNC"]
                /\ PlacesOK'
                /\ pc'[s] = After(work'[s])
                /\ work'[s].new = work[s].new /\ work'[s].email = {}
                /\ work'[s].gone = work[s].gone /\ work'[s].errors = work[s].errors
                /\ work'[s].todo = work[s].todo /\ work'[s].at = work[s].at
                /\ SameHistory(s, work'[s]) /\ SameSnapshots(s, work'[s])
                /\ \A t \in Sync \ {s} :
                     Saw(t, e) /\ SameWork(t)
                     /\ work'[t].always = work[t].always /\ work'[t].ever = work[t].ever
                     /\ work'[t].touched = work[t].touched
                /\ UNCHANGED <<directory, mappings, groups>>
<1>1. PICK v \in Work : v = work[s]
  BY DEF PlacesOK
<1>2. PICK e \in v.email, m \in v.at :
        \/ Problem(s, e) /\ UNCHANGED member
        \/ /\ name[e] # 0 /\ m.vpn \in groups
           /\ member' = [member EXCEPT ![e][m.vpn] = "GOOGLE_SYNC"]
           /\ pc' = [pc EXCEPT ![s] = After(work[s])]
           /\ work' = [t \in Sync |->
                         CASE t = s -> [work[s] EXCEPT !.email = {}]
                           [] t # s /\ pc[t] = "idle" -> work[t]
                           [] OTHER -> [work[t] EXCEPT !.joined = @ \union {e}]]
           /\ UNCHANGED <<directory, mappings, groups>>
  BY <1>1 DEF Upsert
<1>3. e \in Email
  BY DEF Work
<1> SUFFICES ASSUME ~(Problem(s, e) /\ UNCHANGED member)
             PROVE  /\ PlacesOK'
                    /\ pc'[s] = After(work'[s])
                    /\ work'[s].new = work[s].new /\ work'[s].email = {}
                    /\ work'[s].gone = work[s].gone /\ work'[s].errors = work[s].errors
                    /\ work'[s].todo = work[s].todo /\ work'[s].at = work[s].at
                    /\ SameHistory(s, work'[s]) /\ SameSnapshots(s, work'[s])
                    /\ \A t \in Sync \ {s} :
                         Saw(t, e) /\ SameWork(t)
                         /\ work'[t].always = work[t].always /\ work'[t].ever = work[t].ever
                         /\ work'[t].touched = work[t].touched
  BY <1>1, <1>2
<1>4. PICK w : w = [v EXCEPT !.email = {}]
  OBVIOUS
<1>5. /\ w \in Work
      /\ w.new = v.new /\ w.email = {} /\ w.gone = v.gone
      /\ w.errors = v.errors /\ w.todo = v.todo /\ w.at = v.at
      /\ w.list = v.list /\ w.got = v.got /\ w.unread = v.unread
      /\ w.always = v.always /\ w.ever = v.ever
      /\ w.touched = v.touched /\ w.joined = v.joined
  BY <1>4 DEF Work
<1>6. work'[s] = w /\ work' = [t \in Sync |-> work'[t]]
  BY <1>1, <1>2, <1>4
<1>7. ASSUME NEW t \in Sync \ {s}
      PROVE  /\ work'[t] \in Work /\ Saw(t, e) /\ SameWork(t)
             /\ work'[t].always = work[t].always /\ work'[t].ever = work[t].ever
             /\ work'[t].touched = work[t].touched
  <2>1. PICK u \in Work : u = work[t]
    BY DEF PlacesOK
  <2>2. CASE pc[t] = "idle"
    <3>1. work'[t] = u /\ pc'[t] = pc[t]
      BY <1>2, <2>1, <2>2 DEF PlacesOK
    <3>2. QED
      BY <2>1, <2>2, <3>1 DEF Saw, SameWork, Work
  <2>3. CASE pc[t] # "idle"
    <3>1. PICK x : x = [u EXCEPT !.joined = @ \union {e}]
      OBVIOUS
    <3>2. work'[t] = x /\ pc'[t] = pc[t]
      BY <1>2, <2>1, <2>3, <3>1 DEF PlacesOK
    <3>3. /\ x \in Work /\ x.joined = u.joined \union {e}
          /\ x.new = u.new /\ x.email = u.email /\ x.gone = u.gone
          /\ x.errors = u.errors /\ x.todo = u.todo /\ x.at = u.at
          /\ x.list = u.list /\ x.got = u.got /\ x.unread = u.unread
          /\ x.always = u.always /\ x.ever = u.ever
          /\ x.touched = u.touched
      BY <1>3, <3>1 DEF Work
    <3>4. u.joined \subseteq Email
      BY DEF Work
    <3>5. QED
      BY <1>3, <2>1, <2>3, <3>2, <3>3, <3>4 DEF Saw, SameWork
  <2>4. QED
    BY <2>2, <2>3
<1>8. pc' = [pc EXCEPT ![s] = After(v)] /\ After(w) = After(v)
  <2>1. After(w) = After(v)
    BY <1>5 DEF After
  <2>2. QED
    BY <1>1, <1>2, <2>1
<1>9. PlacesOK' /\ pc'[s] = After(w)
  <2>1. After(w) \in Label
    BY AfterType DEF Label
  <2>2. work' \in [Sync -> Work]
    BY <1>5, <1>6, <1>7
  <2>3. QED
    BY <1>8, <2>1, <2>2 DEF PlacesOK
<1>10. QED
  BY <1>1, <1>5, <1>6, <1>7, <1>9 DEF SameHistory, SameSnapshots

LEMMA FlagWork ==
    ASSUME PlacesOK, NEW s \in Sync, Flag(s)
    PROVE  \E e \in work[s].gone :
             \/ Problem(s, e) /\ UNCHANGED flagged
             \/ /\ name[e] # 0 /\ flagged' = flagged \union {e}
                /\ \E w \in Work :
                     /\ Goto(s, After(w), w)
                     /\ w.new = work[s].new /\ w.email = work[s].email
                     /\ w.gone = work[s].gone \ {e}
                     /\ w.errors = work[s].errors /\ w.todo = work[s].todo /\ w.at = work[s].at
                     /\ SameHistory(s, w) /\ SameSnapshots(s, w)
<1>1. PICK v \in Work : v = work[s]
  BY DEF PlacesOK
<1>2. PICK e \in v.gone :
        \/ Problem(s, e) /\ UNCHANGED flagged
        \/ /\ name[e] # 0 /\ flagged' = flagged \union {e}
           /\ Step(s, [v EXCEPT !.gone = @ \ {e}])
  BY <1>1 DEF Flag
<1>3. PICK w : w = [v EXCEPT !.gone = @ \ {e}]
  OBVIOUS
<1>4. /\ w \in Work
      /\ w.new = v.new /\ w.email = v.email /\ w.gone = v.gone \ {e}
      /\ w.errors = v.errors /\ w.todo = v.todo /\ w.at = v.at
      /\ w.list = v.list /\ w.got = v.got /\ w.unread = v.unread
      /\ w.always = v.always /\ w.ever = v.ever
      /\ w.touched = v.touched /\ w.joined = v.joined
  BY <1>3 DEF Work
<1>5. \/ Problem(s, e) /\ UNCHANGED flagged
      \/ name[e] # 0 /\ flagged' = flagged \union {e} /\ Goto(s, After(w), w)
  BY <1>2, <1>3 DEF Step
<1>6. QED
  BY <1>1, <1>4, <1>5 DEF SameHistory, SameSnapshots

\* Others only add to what a sync has seen.
LEMMA TouchWork ==
    ASSUME PlacesOK, NEW emails \in SUBSET Email, NEW deleted \in SUBSET Email, Touch(emails, deleted)
    PROVE  /\ PlacesOK' /\ pc' = pc /\ directory' = directory
           /\ \A t \in Sync :
                /\ SameWork(t)
                /\ work'[t].always = work[t].always /\ work'[t].ever = work[t].ever
                /\ work'[t].joined = work[t].joined /\ work[t].touched \subseteq work'[t].touched
                /\ pc[t] # "idle" => emails \subseteq work'[t].touched
                /\ pc[t] = "idle" => work'[t] = work[t]
<1>1. work' = [t \in Sync |-> work'[t]] /\ pc' = pc /\ directory' = directory
  BY DEF Touch, Move
<1>2. ASSUME NEW t \in Sync
      PROVE  /\ work'[t] \in Work /\ SameWork(t)
             /\ work'[t].always = work[t].always /\ work'[t].ever = work[t].ever
             /\ work'[t].joined = work[t].joined /\ work[t].touched \subseteq work'[t].touched
             /\ pc[t] # "idle" => emails \subseteq work'[t].touched
             /\ pc[t] = "idle" => work'[t] = work[t]
  <2>1. PICK u \in Work : u = work[t]
    BY DEF PlacesOK
  <2>2. CASE pc[t] = "idle"
    BY <2>1, <2>2 DEF Touch, SameWork
  <2>3. CASE pc[t] # "idle"
    <3>1. PICK x : x = [u EXCEPT !.touched = @ \union emails, !.stale = @ \union deleted]
      OBVIOUS
    <3>2. work'[t] = x
      BY <2>1, <2>3, <3>1 DEF Touch
    <3>3. /\ x \in Work /\ x.touched = u.touched \union emails
          /\ x.new = u.new /\ x.email = u.email /\ x.gone = u.gone
          /\ x.errors = u.errors /\ x.todo = u.todo /\ x.at = u.at
          /\ x.list = u.list /\ x.got = u.got /\ x.unread = u.unread
          /\ x.always = u.always /\ x.ever = u.ever /\ x.joined = u.joined
      BY <3>1 DEF Work
    <3>4. QED
      BY <2>1, <2>3, <3>2, <3>3 DEF SameWork
  <2>4. QED
    BY <2>2, <2>3
<1>3. QED
  BY <1>1, <1>2 DEF PlacesOK

LEMMA ChangeWork ==
    ASSUME PlacesOK, NEW g \in GoogleGroup, NEW e \in Email, ChangeGroup(g, e)
    PROVE  /\ PlacesOK' /\ pc' = pc
           /\ \A t \in Sync :
                /\ SameWork(t)
                /\ work'[t].touched = work[t].touched /\ work'[t].joined = work[t].joined
                /\ pc[t] # "idle" =>
                     /\ work'[t].always = [work[t].always EXCEPT ![g] = @ \ {e}]
                     /\ work'[t].ever = [work[t].ever EXCEPT ![g] = @ \union {e}]
                /\ pc[t] = "idle" => work'[t] = work[t]
<1>1. work' = [t \in Sync |-> work'[t]] /\ pc' = pc
  BY DEF ChangeGroup, Move
<1>2. ASSUME NEW t \in Sync
      PROVE  /\ work'[t] \in Work /\ SameWork(t)
             /\ work'[t].touched = work[t].touched /\ work'[t].joined = work[t].joined
             /\ pc[t] # "idle" =>
                  /\ work'[t].always = [work[t].always EXCEPT ![g] = @ \ {e}]
                  /\ work'[t].ever = [work[t].ever EXCEPT ![g] = @ \union {e}]
             /\ pc[t] = "idle" => work'[t] = work[t]
  <2>1. PICK u \in Work : u = work[t]
    BY DEF PlacesOK
  <2>2. CASE pc[t] = "idle"
    BY <2>1, <2>2 DEF ChangeGroup, SameWork
  <2>3. CASE pc[t] # "idle"
    <3>1. PICK x : x = [u EXCEPT !.always[g] = @ \ {e}, !.ever[g] = @ \union {e}]
      OBVIOUS
    <3>2. work'[t] = x
      BY <2>1, <2>3, <3>1 DEF ChangeGroup
    <3>3. /\ x \in Work
          /\ x.always = [u.always EXCEPT ![g] = @ \ {e}]
          /\ x.ever = [u.ever EXCEPT ![g] = @ \union {e}]
          /\ x.new = u.new /\ x.email = u.email /\ x.gone = u.gone
          /\ x.errors = u.errors /\ x.todo = u.todo /\ x.at = u.at
          /\ x.list = u.list /\ x.got = u.got /\ x.unread = u.unread
          /\ x.touched = u.touched /\ x.joined = u.joined
      BY <3>1 DEF Work
    <3>4. QED
      BY <2>1, <2>3, <3>2, <3>3 DEF SameWork
  <2>4. QED
    BY <2>2, <2>3
<1>3. QED
  BY <1>1, <1>2 DEF PlacesOK

\* A step of a sync that is not an added membership moves that sync alone.
LEMMA SyncMoves ==
    ASSUME TypeOK, NEW s \in Sync,
           \/ Begin(s) \/ ListMappings(s) \/ Fetch(s) \/ FetchFails(s) \/ ReadMembers(s)
           \/ Lookup(s) \/ Create(s) \/ Flag(s) \/ StatementFails(s) \/ Succeed(s) \/ Return(s)
    PROVE  \E l \in Label, w \in Work : Goto(s, l, w)
<1> USE TypeParts
<1>1. CASE Begin(s)
  BY <1>1, BeginWork DEF Label
<1>2. CASE ListMappings(s)
  BY <1>2, ListWork DEF Label
<1>3. CASE Fetch(s) \/ FetchFails(s)
  <2>1. PICK m \in work[s].todo : Fetched(s, m, Members(m), {}) \/ Fetched(s, m, {}, {m})
    BY <1>3 DEF Fetch, FetchFails
  <2>2. m \in Mapping
    BY DEF PlacesOK, Work
  <2>3. Members(m) \in SUBSET Email
    BY <2>2 DEF DataOK, Members
  <2>4. PICK emails \in SUBSET Email, unread \in SUBSET Mapping : Fetched(s, m, emails, unread)
    BY <2>1, <2>2, <2>3
  <2>5. PICK w \in Work : HasRead(s, m, emails, unread, w)
    BY <2>4, FetchWork
  <2>6. QED
    BY <2>5 DEF HasRead, Label
<1>4. CASE ReadMembers(s)
  BY <1>4, ReadWork, AfterType DEF Label
<1>5. CASE Lookup(s)
  BY <1>5, LookupWork DEF Label
<1>6. ASSUME NEW e \in Email, Problem(s, e)
      PROVE  \E l \in Label, w \in Work : Goto(s, l, w)
  BY <1>6, ProblemWork, AfterType DEF Label
<1>7. work[s].new \subseteq Email /\ work[s].gone \subseteq Email /\ work[s].email \subseteq Email
  BY DEF PlacesOK, Work
<1>8. CASE Create(s)
  BY <1>6, <1>7, <1>8, CreateWork DEF Label
<1>9. CASE Flag(s)
  BY <1>6, <1>7, <1>9, FlagWork, AfterType DEF Label
<1>10. CASE StatementFails(s)
  BY <1>6, <1>7, <1>10, NoWorkType DEF StatementFails, Label
<1>11. CASE Succeed(s) \/ Return(s)
  BY <1>11, NoWorkType DEF Succeed, Return, Label, PlacesOK
<1>12. QED
  BY <1>1, <1>2, <1>3, <1>4, <1>5, <1>8, <1>9, <1>10, <1>11

\* The users that an action of an administrator touches.
LEMMA Touches ==
    ASSUME NEW e \in Email
    PROVE  /\ CreateUser(e) => Touch({e}, {})
           /\ DeleteUser(e) => Touch({e}, {e})
           /\ Dismiss(e) => Touch({e}, {})
           /\ \A v \in VpnGroup :
                AddToGroup(e, v) \/ RemoveFromGroup(e, v) \/ Reassign(e, v) => Touch({e}, {})
BY DEF CreateUser, DeleteUser, Dismiss, AddToGroup, RemoveFromGroup, Reassign

LEMMA PlacesStep == TypeOK /\ [Next]_vars => PlacesOK'
<1> SUFFICES ASSUME TypeOK, [Next]_vars PROVE PlacesOK'
  OBVIOUS
<1>p. PlacesOK
  BY TypeParts
<1>1. CASE UNCHANGED vars
  BY <1>1, <1>p DEF vars, PlacesOK
<1>2. ASSUME NEW s \in Sync,
             \/ Begin(s) \/ ListMappings(s) \/ Fetch(s) \/ FetchFails(s) \/ ReadMembers(s)
             \/ Lookup(s) \/ Create(s) \/ Flag(s) \/ StatementFails(s) \/ Succeed(s) \/ Return(s)
      PROVE  PlacesOK'
  BY <1>p, <1>2, SyncMoves, GotoType
<1>3. ASSUME NEW s \in Sync, Upsert(s) PROVE PlacesOK'
  <2>1. work[s].email \subseteq Email
    BY <1>p DEF PlacesOK, Work
  <2>2. ASSUME NEW e \in Email, Problem(s, e) PROVE PlacesOK'
    BY <1>p, <2>2, ProblemWork, AfterType, GotoType DEF Label
  <2>3. QED
    BY <1>p, <1>3, <2>1, <2>2, UpsertWork
<1>4. ASSUME NEW g \in GoogleGroup, NEW e \in Email, ChangeGroup(g, e) PROVE PlacesOK'
  BY <1>p, <1>4, ChangeWork
<1>5. ASSUME NEW e \in Email, NEW d \in {{}, {e}}, Touch({e}, d) PROVE PlacesOK'
  BY <1>p, <1>5, TouchWork
<1>6. ASSUME NEW e \in Email, CreateUser(e) \/ DeleteUser(e) \/ Dismiss(e) PROVE PlacesOK'
  BY <1>5, <1>6, Touches
<1>7. ASSUME NEW e \in Email, NEW v \in VpnGroup,
             AddToGroup(e, v) \/ RemoveFromGroup(e, v) \/ Reassign(e, v)
      PROVE  PlacesOK'
  BY <1>5, <1>7, Touches
<1>8. ASSUME NEW m \in Mapping, AddMapping(m) \/ RemoveMapping(m) PROVE PlacesOK'
  BY <1>p, <1>8 DEF AddMapping, RemoveMapping, Move, PlacesOK
<1>9. ASSUME NEW v \in VpnGroup, DeleteGroup(v) PROVE PlacesOK'
  BY <1>p, <1>9, TouchWork DEF DeleteGroup
<1>10. QED
  BY <1>1, <1>2, <1>3, <1>4, <1>6, <1>7, <1>8, <1>9 DEF Next

LEMMA DataStep == TypeOK /\ [Next]_vars => DataOK' /\ BoundsOK'
<1> SUFFICES ASSUME TypeOK, [Next]_vars PROVE DataOK' /\ BoundsOK'
  OBVIOUS
<1>p. DataOK /\ BoundsOK
  BY TypeParts
<1>0. ASSUME UNCHANGED <<directory, mappings, groups>> PROVE DataOK'
  BY <1>0, <1>p DEF DataOK
<1>1. CASE UNCHANGED vars
  BY <1>1, <1>p DEF vars, DataOK, BoundsOK
<1>2. ASSUME NEW s \in Sync, \/ Begin(s) \/ ListMappings(s) \/ Fetch(s) \/ FetchFails(s) \/ ReadMembers(s)
                             \/ Lookup(s) \/ Create(s) \/ Flag(s) \/ StatementFails(s) \/ Succeed(s) \/ Return(s)
                             \/ Upsert(s)
      PROVE  DataOK' /\ BoundsOK'
  <2>1. UNCHANGED <<directory, mappings, groups>>
    <3>1. CASE Upsert(s)
      BY <3>1 DEF Upsert, Problem, Step, Goto
    <3>2. CASE ~Upsert(s)
      BY <1>2, <3>2, SyncMoves DEF Goto
    <3>3. QED
      BY <3>1, <3>2
  <2>2. BoundsOK'
    <3>1. moves' = moves \/ Failure
      <4>1. CASE Begin(s) \/ FetchFails(s) \/ StatementFails(s)
        BY <4>1 DEF Begin, FetchFails, StatementFails
      <4>2. CASE ListMappings(s) \/ Fetch(s) \/ ReadMembers(s) \/ Lookup(s) \/ Create(s)
        BY <4>2 DEF ListMappings, Fetch, ReadMembers, Lookup, Create
      <4>3. CASE Upsert(s) \/ Flag(s) \/ Succeed(s) \/ Return(s)
        BY <4>3 DEF Upsert, Flag, Succeed, Return
      <4>4. QED
        BY <1>2, <4>1, <4>2, <4>3
    <3>2. syncs' = syncs \/ (syncs < MaxSyncs /\ syncs' = syncs + 1)
      <4>1. CASE Begin(s) \/ FetchFails(s) \/ StatementFails(s)
        BY <4>1 DEF Begin, FetchFails, StatementFails
      <4>2. CASE ListMappings(s) \/ Fetch(s) \/ ReadMembers(s) \/ Lookup(s) \/ Create(s)
        BY <4>2 DEF ListMappings, Fetch, ReadMembers, Lookup, Create
      <4>3. CASE Upsert(s) \/ Flag(s) \/ Succeed(s) \/ Return(s)
        BY <4>3 DEF Upsert, Flag, Succeed, Return
      <4>4. QED
        BY <1>2, <4>1, <4>2, <4>3
    <3>3. QED
      BY <3>1, <3>2, <1>p DEF BoundsOK, Failure
  <2>3. QED
    BY <1>0, <2>1, <2>2
<1>3. ASSUME Move PROVE BoundsOK'
  BY <1>3, <1>p DEF Move, BoundsOK
<1>4. ASSUME NEW g \in GoogleGroup, NEW e \in Email, ChangeGroup(g, e) PROVE DataOK' /\ BoundsOK'
  BY <1>3, <1>4, <1>p DEF ChangeGroup, DataOK
<1>5. ASSUME NEW e \in Email, CreateUser(e) \/ DeleteUser(e) \/ Dismiss(e) PROVE DataOK' /\ BoundsOK'
  BY <1>0, <1>3, <1>5 DEF CreateUser, DeleteUser, Dismiss, Touch
<1>6. ASSUME NEW e \in Email, NEW v \in VpnGroup,
             AddToGroup(e, v) \/ RemoveFromGroup(e, v) \/ Reassign(e, v)
      PROVE  DataOK' /\ BoundsOK'
  BY <1>0, <1>3, <1>6 DEF AddToGroup, RemoveFromGroup, Reassign, Touch
<1>7. ASSUME NEW m \in Mapping, AddMapping(m) \/ RemoveMapping(m) PROVE DataOK' /\ BoundsOK'
  BY <1>3, <1>7, <1>p DEF AddMapping, RemoveMapping, DataOK
<1>8. ASSUME NEW v \in VpnGroup, DeleteGroup(v) PROVE DataOK' /\ BoundsOK'
  BY <1>3, <1>8, <1>p DEF DeleteGroup, Touch, DataOK
<1>9. QED
  BY <1>1, <1>2, <1>4, <1>5, <1>6, <1>7, <1>8 DEF Next

\* Rows that only lose memberships and flags, or win memberships of users there are.
LEMMA UsersKeep ==
    ASSUME UsersOK, name' = name, groups' = groups, flagged' \subseteq {e \in Email : name[e] # 0},
           member' \in [Email -> [VpnGroup -> Membership]],
           \A e \in Email, v \in VpnGroup :
               member'[e][v] # "none" => member[e][v] # "none" \/ (name[e] # 0 /\ v \in groups)
    PROVE  UsersOK'
BY DEF UsersOK

LEMMA UsersStep == TypeOK /\ [Next]_vars => UsersOK'
<1> SUFFICES ASSUME TypeOK, [Next]_vars PROVE UsersOK'
  OBVIOUS
<1>p. DataOK /\ UsersOK /\ PlacesOK
  BY TypeParts
<1>0. ASSUME UNCHANGED users, UNCHANGED groups PROVE UsersOK'
  BY <1>0, <1>p DEF users, UsersOK
<1>1. CASE UNCHANGED vars
  BY <1>0, <1>1 DEF vars, users
<1>2. ASSUME NEW s \in Sync, \/ Begin(s) \/ ListMappings(s) \/ Fetch(s) \/ FetchFails(s) \/ ReadMembers(s)
                             \/ Lookup(s) \/ StatementFails(s) \/ Succeed(s) \/ Return(s)
      PROVE  UsersOK'
  <2>1. UNCHANGED users
    BY <1>2 DEF Begin, ListMappings, Fetch, FetchFails, ReadMembers, Lookup, StatementFails, Succeed, Return
  <2>2. UNCHANGED groups
    BY <1>2, SyncMoves DEF Goto
  <2>3. QED
    BY <1>0, <2>1, <2>2
<1>g. ASSUME NEW s \in Sync, Create(s) \/ Flag(s) PROVE UNCHANGED groups
  BY <1>g, SyncMoves DEF Goto
<1>w. ASSUME NEW s \in Sync
      PROVE  /\ work[s].email \subseteq Email /\ work[s].gone \subseteq Email
             /\ work[s].at \subseteq Mapping /\ work[s].name \in 0..MaxName
  BY <1>p DEF PlacesOK, Work
<1>3. ASSUME NEW s \in Sync, Create(s) PROVE UsersOK'
  <2>1. UNCHANGED <<flagged, member, groups>>
    BY <1>3, <1>g DEF Create
  <2>2. CASE UNCHANGED name
    BY <1>0, <2>1, <2>2 DEF users
  <2>3. ASSUME NEW e \in Email, name[e] = 0, \A f \in Email : name[f] # work[s].name,
               name' = [name EXCEPT ![e] = work[s].name]
        PROVE  UsersOK'
    <3>1. work[s].name \in 0..MaxName /\ work[s].name # 0
      BY <1>w, <2>3
    <3>2. /\ name' \in [Email -> 0..MaxName]
          /\ \A f, g \in Email : name'[f] = name'[g] => name'[f] = 0 \/ f = g
          /\ \A f \in Email : name[f] # 0 => name'[f] # 0
      BY <1>p, <2>3, <3>1 DEF UsersOK
    <3>3. QED
      BY <1>p, <2>1, <3>2 DEF UsersOK
  <2>4. QED
    BY <1>3, <1>p, <1>w, <2>2, <2>3, CreateWork
<1>4. ASSUME NEW s \in Sync, Upsert(s) PROVE UsersOK'
  <2>1. UNCHANGED <<name, flagged, groups>>
    BY <1>4 DEF Upsert, Problem, Step, Goto
  <2>2. CASE UNCHANGED member
    BY <1>0, <2>1, <2>2 DEF users
  <2>3. ASSUME NEW e \in Email, NEW v \in VpnGroup, name[e] # 0, v \in groups,
               member' = [member EXCEPT ![e][v] = "GOOGLE_SYNC"]
        PROVE  UsersOK'
    <3>1. member' \in [Email -> [VpnGroup -> Membership]]
      BY <1>p, <2>3 DEF UsersOK, Membership, MembershipSource
    <3>2. \A f \in Email, u \in VpnGroup : member'[f][u] = IF f = e /\ u = v THEN "GOOGLE_SYNC" ELSE member[f][u]
      BY <1>p, <2>3 DEF UsersOK
    <3>3. QED
      BY <1>p, <2>1, <2>3, <3>1, <3>2, UsersKeep DEF UsersOK
  <2>4. QED
    BY <1>4, <1>p, <1>w, <2>2, <2>3, UpsertWork
<1>5. ASSUME NEW s \in Sync, Flag(s) PROVE UsersOK'
  <2>1. UNCHANGED <<name, member, groups>>
    BY <1>5, <1>g DEF Flag
  <2>2. PICK e \in Email : UNCHANGED flagged \/ (name[e] # 0 /\ flagged' = flagged \union {e})
    BY <1>5, <1>p, <1>w, FlagWork
  <2>3. QED
    BY <1>p, <2>1, <2>2 DEF UsersOK
<1>6. ASSUME NEW g \in GoogleGroup, NEW e \in Email, ChangeGroup(g, e) PROVE UsersOK'
  BY <1>0, <1>6 DEF ChangeGroup
<1>7. ASSUME NEW e \in Email, CreateUser(e) PROVE UsersOK'
  <2>1. FreeName \in 1..MaxName /\ \A f \in Email : name[f] # FreeName
    BY <1>7, <1>p, FreeNameIsFree DEF CreateUser, UsersOK
  <2>2. /\ name[e] = 0 /\ name' = [name EXCEPT ![e] = FreeName]
        /\ UNCHANGED <<groups, flagged, member>>
    BY <1>7 DEF CreateUser
  <2>3. /\ name' \in [Email -> 0..MaxName]
        /\ \A f, g \in Email : name'[f] = name'[g] => name'[f] = 0 \/ f = g
        /\ \A f \in Email : name[f] # 0 => name'[f] # 0
    BY <1>p, <2>1, <2>2, MaxNameType DEF UsersOK
  <2>4. QED
    BY <1>p, <2>2, <2>3 DEF UsersOK
<1>8. ASSUME NEW e \in Email, DeleteUser(e) PROVE UsersOK'
  <2>1. /\ name' = [name EXCEPT ![e] = 0] /\ flagged' = flagged \ {e}
        /\ member' = [member EXCEPT ![e] = NoMembership] /\ groups' = groups
    BY <1>8 DEF DeleteUser
  <2>2. NoMembership \in [VpnGroup -> Membership] /\ \A v \in VpnGroup : NoMembership[v] = "none"
    BY DEF NoMembership, Membership
  <2>3. 0 \in 0..MaxName
    BY MaxNameType
  <2>4. QED
    BY <1>p, <2>1, <2>2, <2>3 DEF UsersOK
<1>9. ASSUME NEW e \in Email, Dismiss(e) PROVE UsersOK'
  BY <1>9, <1>p, UsersKeep DEF Dismiss, UsersOK
<1>10. ASSUME NEW e \in Email, NEW v \in VpnGroup, AddToGroup(e, v) PROVE UsersOK'
  <2>1. PICK source \in MembershipSource : member' = [member EXCEPT ![e][v] = source]
    BY <1>10 DEF AddToGroup
  <2>2. member' \in [Email -> [VpnGroup -> Membership]]
    BY <1>p, <2>1 DEF UsersOK, Membership
  <2>3. \A f \in Email, u \in VpnGroup : member'[f][u] = IF f = e /\ u = v THEN source ELSE member[f][u]
    BY <1>p, <2>1 DEF UsersOK
  <2>4. QED
    BY <1>10, <1>p, <2>2, <2>3, UsersKeep DEF AddToGroup, UsersOK
<1>11. ASSUME NEW e \in Email, NEW v \in VpnGroup, RemoveFromGroup(e, v) PROVE UsersOK'
  <2>1. member' = [member EXCEPT ![e][v] = "none"]
    BY <1>11 DEF RemoveFromGroup
  <2>2. member' \in [Email -> [VpnGroup -> Membership]]
    BY <1>p, <2>1 DEF UsersOK, Membership
  <2>3. \A f \in Email, u \in VpnGroup : member'[f][u] = IF f = e /\ u = v THEN "none" ELSE member[f][u]
    BY <1>p, <2>1 DEF UsersOK
  <2>4. QED
    BY <1>11, <1>p, <2>2, <2>3, UsersKeep DEF RemoveFromGroup, UsersOK
<1>12. ASSUME NEW e \in Email, NEW v \in VpnGroup, Reassign(e, v) PROVE UsersOK'
  <2>1. /\ e \in flagged /\ v \in groups /\ name' = name /\ groups' = groups
        /\ flagged' \subseteq flagged
    BY <1>12 DEF Reassign
  <2>2. PICK own \in [VpnGroup -> Membership] :
          /\ member' = [member EXCEPT ![e] = own]
          /\ \A u \in VpnGroup : own[u] # "none" => u = v
    BY <1>12 DEF Reassign, NoMembership, Membership, MembershipSource
  <2>3. name[e] # 0
    BY <1>p, <2>1 DEF UsersOK
  <2>4. /\ member' \in [Email -> [VpnGroup -> Membership]]
        /\ \A f \in Email, u \in VpnGroup : member'[f][u] = IF f = e THEN own[u] ELSE member[f][u]
    BY <1>p, <2>2 DEF UsersOK
  <2>5. QED
    BY <1>p, <2>1, <2>2, <2>3, <2>4, UsersKeep DEF UsersOK
<1>13. ASSUME NEW m \in Mapping, AddMapping(m) \/ RemoveMapping(m) PROVE UsersOK'
  BY <1>0, <1>13 DEF AddMapping, RemoveMapping
<1>14. ASSUME NEW v \in VpnGroup, DeleteGroup(v) PROVE UsersOK'
  <2>1. /\ member' = [e \in Email |-> [member[e] EXCEPT ![v] = "none"]]
        /\ groups' = groups \ {v} /\ name' = name /\ flagged' = flagged
    BY <1>14 DEF DeleteGroup
  <2>2. /\ member' \in [Email -> [VpnGroup -> Membership]]
        /\ \A e \in Email, u \in VpnGroup : member'[e][u] = IF u = v THEN "none" ELSE member[e][u]
    BY <1>p, <2>1 DEF UsersOK, Membership
  <2>3. QED
    BY <1>p, <2>1, <2>2 DEF UsersOK
<1>15. QED
  BY <1>1, <1>2, <1>3, <1>4, <1>5, <1>6, <1>7, <1>8, <1>9, <1>10, <1>11, <1>12, <1>13, <1>14 DEF Next

LEMMA TypeStep == TypeOK /\ [Next]_vars => TypeOK'
<1>1. DataOK' /\ UsersOK' /\ PlacesOK' /\ BoundsOK' => TypeOK'
  BY DEF TypeOK, DataOK, UsersOK, PlacesOK, BoundsOK, Label
<1>2. QED
  BY <1>1, DataStep, UsersStep, PlacesStep

\* Every variable keeps its type: common names are unique, flags and memberships are
\* of users and groups there are, and there is always a free name (google-sync.ts).
THEOREM GoogleTypeCorrect == Spec => []TypeOK
BY InitType, TypeStep, PTL DEF Spec

-----------------------------------------------------------------------------
(* Members, leavers and flags. *)

OK(s) == SnapshotOK(s) /\ BatchOK(s) /\ ServedOK(s) /\ LeftOK(s)

\* What a step of somebody else may do to a sync that is in flight.
Watches(t) ==
    /\ SameWork(t)
    /\ \A g \in GoogleGroup :
         /\ work'[t].always[g] \subseteq work[t].always[g] \intersect directory'[g]
         /\ work[t].ever[g] \union directory'[g] \subseteq work'[t].ever[g]
    /\ work[t].touched \subseteq work'[t].touched
    /\ work[t].joined \subseteq work'[t].joined
    /\ \A e \in Email \ work'[t].touched :
         /\ name[e] # 0 => name'[e] # 0
         /\ e \in flagged => e \in flagged'
         /\ \A v \in VpnGroup :
              /\ member[e][v] = "GOOGLE_SYNC" => member'[e][v] = "GOOGLE_SYNC"
              /\ member'[e][v] = "GOOGLE_SYNC" => member[e][v] = "GOOGLE_SYNC" \/ e \in work'[t].joined

LEMMA WatchKeeps ==
    ASSUME TypeOK, PlacesOK', NEW t \in Sync, OK(t), pc'[t] = pc[t],
           IF pc[t] = "idle" THEN work'[t] = work[t] ELSE Watches(t)
    PROVE  OK(t)'
<1> USE DEF OK
<1>1. CASE pc[t] = "idle"
  BY <1>1 DEF SnapshotOK, BatchOK, ServedOK, LeftOK, Past
<1>2. CASE pc[t] # "idle"
  <2>0. Watches(t)
    BY <1>2
  <2>w. work[t] \in Work /\ work'[t] \in Work
    BY TypeParts DEF PlacesOK
  <2>m. \A m \in Mapping : m.google \in GoogleGroup /\ m.vpn \in VpnGroup
    OBVIOUS
  <2>l. work[t].list \subseteq Mapping /\ \A g \in GoogleGroup : work[t].always[g] \subseteq Email
    BY <2>w DEF Work
  <2>1. SnapshotOK(t)'
    BY <1>2, <2>0, <2>m, <2>l DEF SnapshotOK, Watches, SameWork
  <2>2. BatchOK(t)'
    BY <2>0 DEF BatchOK, Watches, SameWork
  <2>3. ServedOK(t)'
    <3>1. SUFFICES ASSUME pc[t] \in Past, NEW m \in work[t].list \ (work[t].todo \union work[t].unread),
                          NEW e \in work'[t].always[m.google] \ (work[t].errors \union work'[t].touched)
                   PROVE  \/ name'[e] # 0 /\ member'[e][m.vpn] = "GOOGLE_SYNC"
                          \/ m \in work[t].at /\ e \in work[t].new \union work[t].email
      BY <2>0 DEF ServedOK, Watches, SameWork
    <3>2. m \in Mapping /\ m.google \in GoogleGroup /\ m.vpn \in VpnGroup
      BY <2>m, <2>l
    <3>3. e \in work[t].always[m.google] \ (work[t].errors \union work[t].touched) /\ e \in Email
      BY <2>0, <2>l, <3>2 DEF Watches
    <3>4. \/ name[e] # 0 /\ member[e][m.vpn] = "GOOGLE_SYNC"
          \/ m \in work[t].at /\ e \in work[t].new \union work[t].email
      BY <3>1, <3>3 DEF ServedOK
    <3>5. QED
      BY <2>0, <3>1, <3>2, <3>3, <3>4 DEF Watches
  <2>4. LeftOK(t)'
    <3>1. SUFFICES ASSUME pc[t] \in Past, NEW m \in work[t].list \ work[t].todo,
                          NEW e \in Email \ (work[t].errors \union work'[t].touched \union work'[t].joined),
                          member'[e][m.vpn] = "GOOGLE_SYNC"
                   PROVE  \/ e \in flagged'
                          \/ \E o \in Mapped(t, m) : e \in work'[t].ever[o.google]
                          \/ m \in work[t].at /\ e \in work[t].gone
      BY <2>0 DEF LeftOK, Watches, SameWork, Mapped
    <3>2. m \in Mapping /\ m.vpn \in VpnGroup
      BY <2>m, <2>l
    <3>3. e \notin work[t].touched /\ e \notin work[t].joined /\ member[e][m.vpn] = "GOOGLE_SYNC"
      BY <2>0, <3>1, <3>2 DEF Watches
    <3>4. \/ e \in flagged
          \/ \E o \in Mapped(t, m) : e \in work[t].ever[o.google]
          \/ m \in work[t].at /\ e \in work[t].gone
      BY <3>1, <3>3 DEF LeftOK
    <3>5. e \in flagged => e \in flagged'
      BY <2>0, <3>1 DEF Watches
    <3>6. \A o \in Mapped(t, m) : work[t].ever[o.google] \subseteq work'[t].ever[o.google]
      BY <2>0, <2>m, <2>l DEF Watches, Mapped
    <3>7. QED
      BY <3>4, <3>5, <3>6
  <2>5. QED
    BY <2>1, <2>2, <2>3, <2>4
<1>3. QED
  BY <1>1, <1>2

\* Administrators and Google only do what a sync that is in flight takes note of.
LEMMA OthersKeep ==
    ASSUME TypeOK, SyncInv, PlacesOK',
           \/ \E g \in GoogleGroup, e \in Email : ChangeGroup(g, e)
           \/ \E e \in Email : CreateUser(e) \/ DeleteUser(e) \/ Dismiss(e)
           \/ \E e \in Email, v \in VpnGroup :
                AddToGroup(e, v) \/ RemoveFromGroup(e, v) \/ Reassign(e, v)
           \/ \E m \in Mapping : AddMapping(m) \/ RemoveMapping(m)
           \/ \E v \in VpnGroup : DeleteGroup(v)
    PROVE  SyncInv'
<1>p. DataOK /\ UsersOK /\ PlacesOK
  BY TypeParts
<1> SUFFICES ASSUME NEW t \in Sync
             PROVE  pc'[t] = pc[t] /\ IF pc[t] = "idle" THEN work'[t] = work[t] ELSE Watches(t)
  BY WatchKeeps DEF SyncInv, OK
<1>w. work[t] \in Work
  BY <1>p DEF PlacesOK
<1>s. pc[t] # "idle" => \A g \in GoogleGroup : work[t].always[g] \subseteq directory[g] /\ directory[g] \subseteq work[t].ever[g]
  BY DEF SyncInv, SnapshotOK
<1>0. ASSUME UNCHANGED <<work, pc, directory, users>>
      PROVE  pc'[t] = pc[t] /\ IF pc[t] = "idle" THEN work'[t] = work[t] ELSE Watches(t)
  BY <1>0, <1>s DEF Watches, SameWork, users
<1>1. ASSUME NEW g \in GoogleGroup, NEW e \in Email, ChangeGroup(g, e)
      PROVE  pc'[t] = pc[t] /\ IF pc[t] = "idle" THEN work'[t] = work[t] ELSE Watches(t)
  <2>1. /\ pc'[t] = pc[t] /\ SameWork(t)
        /\ work'[t].touched = work[t].touched /\ work'[t].joined = work[t].joined
        /\ pc[t] # "idle" =>
             /\ work'[t].always = [work[t].always EXCEPT ![g] = @ \ {e}]
             /\ work'[t].ever = [work[t].ever EXCEPT ![g] = @ \union {e}]
        /\ pc[t] = "idle" => work'[t] = work[t]
    BY <1>p, <1>1, ChangeWork
  <2>2. /\ directory' = [directory EXCEPT ![g] = IF e \in @ THEN @ \ {e} ELSE @ \union {e}]
        /\ UNCHANGED users
    BY <1>1 DEF ChangeGroup
  <2>3. CASE pc[t] # "idle"
    <3>1. ASSUME NEW k \in GoogleGroup
          PROVE  /\ work'[t].always[k] \subseteq work[t].always[k] \intersect directory'[k]
                 /\ work[t].ever[k] \union directory'[k] \subseteq work'[t].ever[k]
      <4>1. /\ work'[t].always[k] = IF k = g THEN work[t].always[k] \ {e} ELSE work[t].always[k]
            /\ work'[t].ever[k] = IF k = g THEN work[t].ever[k] \union {e} ELSE work[t].ever[k]
        BY <1>w, <2>1, <2>3 DEF Work
      <4>2. IF k = g THEN directory'[k] = IF e \in directory[k] THEN directory[k] \ {e} ELSE directory[k] \union {e}
            ELSE directory'[k] = directory[k]
        BY <1>p, <2>2 DEF DataOK
      <4>3. QED
        BY <1>s, <2>3, <4>1, <4>2
    <3>2. QED
      BY <2>1, <2>2, <2>3, <3>1 DEF Watches, users
  <2>4. QED
    BY <2>1, <2>3
<1>2. ASSUME NEW emails \in SUBSET Email, NEW deleted \in SUBSET Email, Touch(emails, deleted),
             \A e \in Email \ emails :
               /\ name'[e] = name[e] /\ (e \in flagged => e \in flagged')
               /\ \A v \in VpnGroup : member'[e][v] = member[e][v]
      PROVE  pc'[t] = pc[t] /\ IF pc[t] = "idle" THEN work'[t] = work[t] ELSE Watches(t)
  <2>1. /\ pc'[t] = pc[t] /\ directory' = directory /\ SameWork(t)
        /\ work'[t].always = work[t].always /\ work'[t].ever = work[t].ever
        /\ work'[t].joined = work[t].joined /\ work[t].touched \subseteq work'[t].touched
        /\ pc[t] # "idle" => emails \subseteq work'[t].touched
        /\ pc[t] = "idle" => work'[t] = work[t]
    BY <1>p, <1>2, TouchWork
  <2>2. CASE pc[t] # "idle"
    BY <1>2, <1>s, <2>1, <2>2 DEF Watches
  <2>3. QED
    BY <2>1, <2>2
<1>3. ASSUME NEW e \in Email, CreateUser(e) \/ DeleteUser(e) \/ Dismiss(e)
      PROVE  pc'[t] = pc[t] /\ IF pc[t] = "idle" THEN work'[t] = work[t] ELSE Watches(t)
  <2>1. \E deleted \in SUBSET Email : Touch({e}, deleted)
    BY <1>3, Touches
  <2>2. \A f \in Email \ {e} :
               /\ name'[f] = name[f] /\ (f \in flagged => f \in flagged')
               /\ \A v \in VpnGroup : member'[f][v] = member[f][v]
    BY <1>3, <1>p DEF CreateUser, DeleteUser, Dismiss, UsersOK
  <2>3. QED
    BY <1>2, <2>1, <2>2
<1>4. ASSUME NEW e \in Email, NEW v \in VpnGroup,
             AddToGroup(e, v) \/ RemoveFromGroup(e, v) \/ Reassign(e, v)
      PROVE  pc'[t] = pc[t] /\ IF pc[t] = "idle" THEN work'[t] = work[t] ELSE Watches(t)
  <2>1. Touch({e}, {})
    BY <1>4, Touches
  <2>2. \A f \in Email \ {e} :
               /\ name'[f] = name[f] /\ (f \in flagged => f \in flagged')
               /\ \A u \in VpnGroup : member'[f][u] = member[f][u]
    BY <1>4, <1>p DEF AddToGroup, RemoveFromGroup, Reassign, UsersOK
  <2>3. QED
    BY <1>2, <2>1, <2>2
<1>5. ASSUME NEW m \in Mapping, AddMapping(m) \/ RemoveMapping(m)
      PROVE  pc'[t] = pc[t] /\ IF pc[t] = "idle" THEN work'[t] = work[t] ELSE Watches(t)
  BY <1>0, <1>5 DEF AddMapping, RemoveMapping, Move
<1>6. ASSUME NEW v \in VpnGroup, DeleteGroup(v)
      PROVE  pc'[t] = pc[t] /\ IF pc[t] = "idle" THEN work'[t] = work[t] ELSE Watches(t)
  BY <1>2, <1>6 DEF DeleteGroup
<1>7. QED
  BY <1>1, <1>3, <1>4, <1>5, <1>6

\* A step of one sync is no concern of the others, unless it adds a membership.
LEMMA OneMoves ==
    ASSUME TypeOK, PlacesOK', SyncInv, NEW s \in Sync, NEW l \in Label, NEW w \in Work, Goto(s, l, w),
           \A e \in Email : name[e] # 0 => name'[e] # 0,
           flagged \subseteq flagged', member' = member, OK(s)'
    PROVE  SyncInv'
<1>p. PlacesOK
  BY TypeParts
<1> SUFFICES ASSUME NEW t \in Sync \ {s} PROVE OK(t)'
  BY DEF SyncInv, OK
<1>1. pc'[t] = pc[t] /\ work'[t] = work[t] /\ directory' = directory
  BY <1>p, GotoType DEF Goto
<1>2. pc[t] # "idle" => \A g \in GoogleGroup : work[t].always[g] \subseteq directory[g] /\ directory[g] \subseteq work[t].ever[g]
  BY DEF SyncInv, SnapshotOK
<1>3. pc[t] # "idle" => Watches(t)
  BY <1>1, <1>2 DEF Watches, SameWork
<1>4. QED
  BY <1>1, <1>3, WatchKeeps DEF SyncInv, OK

\* The snapshots stay what they are once all are taken.
LEMMA SnapshotStays ==
    ASSUME NEW s \in Sync, SnapshotOK(s), pc[s] \in Past, directory' = directory,
           SameHistory(s, work'[s]), SameSnapshots(s, work'[s])
    PROVE  SnapshotOK(s)'
BY DEF SnapshotOK, SameHistory, SameSnapshots, Past

\* An error about a user is an answer to what the sync owes that user.
LEMMA ProblemKeeps ==
    ASSUME TypeOK, PlacesOK', SyncInv, NEW s \in Sync, NEW e \in Email, pc[s] \in Batch, Problem(s, e),
           e \in work[s].email \/ work[s].email = {}, UNCHANGED <<name, flagged, member>>
    PROVE  SyncInv'
<1>p. PlacesOK
  BY TypeParts
<1>1. PICK w \in Work :
        /\ Goto(s, After(w), w)
        /\ w.new = work[s].new \ {e} /\ w.gone = work[s].gone \ {e} /\ w.email = {}
        /\ w.errors = work[s].errors \union {e}
        /\ w.todo = work[s].todo /\ w.at = work[s].at
        /\ SameHistory(s, w) /\ SameSnapshots(s, w)
  BY <1>p, ProblemWork
<1>2. /\ After(w) \in {"lookup", "flag", "members", "end"} /\ After(w) \in Label
      /\ pc'[s] = After(w) /\ work'[s] = w /\ directory' = directory
  <2>1. PICK l : l = After(w)
    OBVIOUS
  <2>2. l \in {"lookup", "flag", "members", "end"}
    BY <2>1, AfterType
  <2>3. l \in Label
    BY <2>2 DEF Label
  <2>4. Goto(s, l, w)
    BY <1>1, <2>1
  <2>5. pc'[s] = l /\ work'[s] = w
    BY <1>p, <2>3, <2>4, GotoType
  <2>6. directory' = directory
    BY <2>4 DEF Goto
  <2>7. QED
    BY <2>1, <2>2, <2>3, <2>5, <2>6
<1>3. OK(s)
  BY DEF SyncInv, OK
<1>4. SnapshotOK(s)'
  BY <1>1, <1>2, <1>3, SnapshotStays DEF OK, Batch, Past
<1>5. BatchOK(s)'
  <2>1. /\ pc'[s] = "lookup" <=> w.new # {}
        /\ pc'[s] = "flag" <=> w.new = {} /\ w.gone # {}
        /\ pc'[s] = "members" <=> w.new = {} /\ w.gone = {} /\ w.todo # {}
        /\ pc'[s] = "end" <=> w.new = {} /\ w.gone = {} /\ w.todo = {}
    BY <1>2, AfterType
  <2>2. QED
    BY <1>1, <1>2, <1>3, <2>1 DEF OK, BatchOK, Batch, SameSnapshots
<1>6. \A f \in work[s].email : f = e
  BY <1>3 DEF OK, BatchOK
<1>7. ServedOK(s)'
  BY <1>1, <1>2, <1>3, <1>6 DEF OK, ServedOK, Batch, Past, SameHistory, SameSnapshots
<1>8. LeftOK(s)'
  BY <1>1, <1>2, <1>3 DEF OK, LeftOK, Batch, Past, SameHistory, SameSnapshots, Mapped
<1>9. QED
  BY <1>1, <1>2, <1>4, <1>5, <1>7, <1>8, OneMoves DEF OK

\* Where a sync goes after a user or a snapshot, and with what.
LEMMA StepPlace ==
    ASSUME PlacesOK, NEW s \in Sync, NEW w \in Work, Goto(s, After(w), w)
    PROVE  /\ pc'[s] = After(w) /\ work'[s] = w /\ directory' = directory
           /\ pc'[s] \in {"lookup", "flag", "members", "end"}
           /\ pc'[s] = "lookup" <=> w.new # {}
           /\ pc'[s] = "flag" <=> w.new = {} /\ w.gone # {}
           /\ pc'[s] = "members" <=> w.new = {} /\ w.gone = {} /\ w.todo # {}
           /\ pc'[s] = "end" <=> w.new = {} /\ w.gone = {} /\ w.todo = {}
<1>1. PICK l : l = After(w)
  OBVIOUS
<1>2. /\ l \in {"lookup", "flag", "members", "end"}
      /\ l = "lookup" <=> w.new # {}
      /\ l = "flag" <=> w.new = {} /\ w.gone # {}
      /\ l = "members" <=> w.new = {} /\ w.gone = {} /\ w.todo # {}
      /\ l = "end" <=> w.new = {} /\ w.gone = {} /\ w.todo = {}
  BY <1>1, AfterType
<1>3. l \in Label /\ Goto(s, l, w)
  BY <1>1, <1>2 DEF Label
<1>4. pc'[s] = l /\ work'[s] = w /\ directory' = directory
  <2>1. pc'[s] = l /\ work'[s] = w
    BY <1>3, GotoType
  <2>2. directory' = directory
    BY <1>3 DEF Goto
  <2>3. QED
    BY <2>1, <2>2
<1>5. QED
  BY <1>1, <1>2, <1>4

LEMMA BeginKeeps ==
    ASSUME TypeOK, PlacesOK', SyncInv, NEW s \in Sync, Begin(s)
    PROVE  SyncInv'
<1>p. DataOK /\ PlacesOK
  BY TypeParts
<1>1. PICK w \in Work :
        /\ Goto(s, "list", w)
        /\ w.list = {} /\ w.todo = {} /\ w.unread = {} /\ w.at = {}
        /\ w.new = {} /\ w.gone = {} /\ w.email = {} /\ w.errors = {}
        /\ w.got = [m \in Mapping |-> {}]
        /\ w.always = directory /\ w.ever = directory
  BY <1>p, BeginWork
<1>2. "list" \in Label
  BY DEF Label
<1>3. pc'[s] = "list" /\ work'[s] = w /\ directory' = directory
  BY <1>1, <1>2, <1>p, GotoType, ZenonT(30) DEF Goto
<1>4. SnapshotOK(s)' /\ BatchOK(s)' /\ ServedOK(s)' /\ LeftOK(s)'
  BY <1>1, <1>3 DEF SnapshotOK, BatchOK, ServedOK, LeftOK, Past, Batch
<1>5. UNCHANGED users
  BY DEF Begin
<1>6. QED
  BY <1>1, <1>2, <1>4, <1>5, OneMoves DEF OK, users

LEMMA ListKeeps ==
    ASSUME TypeOK, PlacesOK', SyncInv, NEW s \in Sync, ListMappings(s)
    PROVE  SyncInv'
<1>p. DataOK /\ PlacesOK
  BY TypeParts
<1>1. PICK w \in Work :
        /\ Goto(s, IF mappings = {} THEN "end" ELSE "fetch", w)
        /\ w.list = mappings /\ w.todo = mappings /\ w.unread = work[s].unread
        /\ w.got = work[s].got /\ w.at = work[s].at
        /\ w.new = work[s].new /\ w.gone = work[s].gone /\ w.email = work[s].email
        /\ SameHistory(s, w)
  BY <1>p, ListWork
<1>2. PICK l \in Label : l = (IF mappings = {} THEN "end" ELSE "fetch") /\ Goto(s, l, w)
  BY <1>1 DEF Label
<1>3. pc'[s] = l /\ work'[s] = w /\ directory' = directory
  BY <1>2, <1>p, GotoType, ZenonT(30) DEF Goto
<1>4. OK(s) /\ pc[s] = "list"
  BY DEF SyncInv, OK, ListMappings
<1>5. SnapshotOK(s)'
  BY <1>1, <1>2, <1>3, <1>4 DEF OK, SnapshotOK, SameHistory
<1>6. BatchOK(s)'
  BY <1>1, <1>2, <1>3, <1>4 DEF OK, BatchOK, Batch
<1>7. ServedOK(s)' /\ LeftOK(s)'
  BY <1>1, <1>2, <1>3 DEF ServedOK, LeftOK, Past
<1>8. UNCHANGED users
  BY DEF ListMappings
<1>9. QED
  BY <1>2, <1>5, <1>6, <1>7, <1>8, OneMoves DEF OK, users

LEMMA FetchKeeps ==
    ASSUME TypeOK, PlacesOK', SyncInv, NEW s \in Sync, Fetch(s) \/ FetchFails(s)
    PROVE  SyncInv'
<1>p. DataOK /\ PlacesOK
  BY TypeParts
<1>1. PICK m \in work[s].todo : Fetched(s, m, Members(m), {}) \/ Fetched(s, m, {}, {m})
  BY DEF Fetch, FetchFails
<1>2. m \in Mapping /\ Members(m) \in SUBSET Email /\ Members(m) = directory[m.google]
  <2>1. m \in Mapping
    BY <1>p DEF PlacesOK, Work
  <2>2. QED
    BY <1>p, <2>1 DEF DataOK, Members
<1>3. PICK emails \in SUBSET Email, unread \in SUBSET Mapping :
        /\ Fetched(s, m, emails, unread)
        /\ (emails = directory[m.google] /\ unread = {}) \/ (emails = {} /\ unread = {m})
  BY <1>1, <1>2
<1>f. PICK w \in Work : HasRead(s, m, emails, unread, w)
  <2>1. Fetched(s, m, emails, unread)
    BY <1>3
  <2>2. QED
    BY <1>p, <2>1, FetchWork
<1>4. PICK l \in Label :
        /\ Goto(s, l, w)
        /\ l = IF work[s].todo = {m} THEN "members" ELSE "fetch"
        /\ w.todo = IF work[s].todo = {m} THEN work[s].list ELSE work[s].todo \ {m}
        /\ w.list = work[s].list /\ w.unread = work[s].unread \union unread
        /\ w.got[m] = emails
        /\ \A o \in Mapping \ {m} : w.got[o] = work[s].got[o]
        /\ w.at = work[s].at
        /\ w.new = work[s].new /\ w.gone = work[s].gone /\ w.email = work[s].email
        /\ SameHistory(s, w)
  BY <1>f DEF HasRead, Label
<1>5. w \in Work /\ l \in Label /\ Goto(s, l, w)
  BY <1>4
<1>6. pc'[s] = l /\ work'[s] = w /\ directory' = directory
  <2>1. pc'[s] = l /\ work'[s] = w
    BY <1>5, <1>p, GotoType
  <2>2. directory' = directory
    BY <1>5 DEF Goto
  <2>3. QED
    BY <2>1, <2>2
<1>7. OK(s) /\ pc[s] = "fetch"
  BY DEF SyncInv, OK, Fetch, FetchFails
<1>8. SnapshotOK(s)'
  <2>1. \A g \in GoogleGroup : w.always[g] \subseteq directory[g] /\ directory[g] \subseteq w.ever[g]
    BY <1>4, <1>7 DEF OK, SnapshotOK, SameHistory
  <2>2. m.google \in GoogleGroup
    BY <1>2
  <2>3. \A o \in Mapping : w.got[o] \subseteq w.ever[o.google]
    BY <1>2, <1>3, <1>4, <1>7, <2>1, <2>2 DEF OK, SnapshotOK, SameHistory
  <2>4. ASSUME NEW o \in w.list \ w.unread
        PROVE  (pc'[s] = "fetch" /\ o \in w.todo) \/ w.always[o.google] \subseteq w.got[o]
    <3>1. CASE o = m
      BY <1>2, <1>3, <1>4, <2>1, <2>2, <2>4, <3>1
    <3>2. CASE o # m
      <4>1. o \in Mapping /\ w.got[o] = work[s].got[o]
        BY <1>4, <3>2 DEF Work
      <4>2. o \in work[s].todo \/ work[s].always[o.google] \subseteq work[s].got[o]
        BY <1>4, <1>7, <2>4 DEF OK, SnapshotOK
      <4>3. o \in work[s].todo => l = "fetch" /\ o \in w.todo
        BY <1>4, <1>5, <3>2
      <4>4. QED
        BY <1>4, <1>6, <4>1, <4>2, <4>3 DEF SameHistory
    <3>3. QED
      BY <3>1, <3>2
  <2>5. QED
    BY <1>6, <2>1, <2>3, <2>4 DEF SnapshotOK
<1>9. BatchOK(s)'
  BY <1>4, <1>5, <1>6, <1>7 DEF OK, BatchOK, Batch
<1>10. ServedOK(s)' /\ LeftOK(s)'
  BY <1>4, <1>5, <1>6 DEF ServedOK, LeftOK, Past
<1>11. UNCHANGED users
  BY DEF Fetch, FetchFails
<1>12. QED
  BY <1>5, <1>8, <1>9, <1>10, <1>11, OneMoves DEF OK, users

\* What is read of a group is measured against snapshots that are all taken.
LEMMA ReadKeeps ==
    ASSUME TypeOK, PlacesOK', SyncInv, NEW s \in Sync, ReadMembers(s)
    PROVE  SyncInv'
<1>p. DataOK /\ UsersOK /\ PlacesOK
  BY TypeParts
<1>1. PICK w \in Work, m \in work[s].todo :
        /\ Goto(s, After(w), w)
        /\ w.at = {m} /\ w.todo = work[s].todo \ {m}
        /\ w.new = work[s].got[m] \ Google(m.vpn)
        /\ w.gone = (Google(m.vpn) \ work[s].got[m]) \ Others(s, m)
        /\ w.email = work[s].email /\ w.errors = work[s].errors
        /\ SameHistory(s, w) /\ SameSnapshots(s, w)
  BY <1>p, ReadWork
<1>2. /\ pc'[s] = After(w) /\ work'[s] = w /\ directory' = directory
      /\ pc'[s] \in {"lookup", "flag", "members", "end"}
      /\ pc'[s] = "lookup" <=> w.new # {}
      /\ pc'[s] = "flag" <=> w.new = {} /\ w.gone # {}
      /\ pc'[s] = "members" <=> w.new = {} /\ w.gone = {} /\ w.todo # {}
      /\ pc'[s] = "end" <=> w.new = {} /\ w.gone = {} /\ w.todo = {}
  BY <1>1, <1>p, StepPlace
<1>3. OK(s) /\ pc[s] = "members"
  BY DEF SyncInv, OK, ReadMembers
<1>4. work[s].new = {} /\ work[s].gone = {} /\ work[s].email = {} /\ w.email = {}
  BY <1>1, <1>3 DEF OK, BatchOK, Batch
<1>5. m \in Mapping /\ work[s].list \subseteq Mapping
  BY <1>p DEF PlacesOK, Work
<1>6. m \in work[s].list
  BY <1>3 DEF OK, BatchOK
<1>7. SnapshotOK(s)'
  BY <1>1, <1>2, <1>3, SnapshotStays DEF OK, Past
<1>8. \A o \in work[s].list : o.vpn = m.vpn => w.gone \intersect work[s].got[o] = {}
  BY <1>1 DEF Others
<1>9. BatchOK(s)'
  <2>1. w.todo \subseteq w.list
    BY <1>1, <1>3 DEF OK, BatchOK, SameSnapshots
  <2>2. QED
    BY <1>1, <1>2, <1>4, <1>6, <1>8, <2>1 DEF BatchOK, Batch, SameSnapshots
<1>10. ServedOK(s)'
  <2>1. SUFFICES ASSUME NEW o \in w.list \ (w.todo \union w.unread),
                        NEW e \in w.always[o.google] \ (w.errors \union w.touched)
                 PROVE  \/ name[e] # 0 /\ member[e][o.vpn] = "GOOGLE_SYNC"
                        \/ o \in w.at /\ e \in w.new \union w.email
    <3>1. UNCHANGED <<name, member>>
      BY DEF ReadMembers, users
    <3>2. QED
      BY <1>2, <3>1 DEF ServedOK
  <2>2. CASE o = m
    <3>1. e \in work[s].got[m]
      BY <1>1, <1>3, <2>2 DEF OK, SnapshotOK, SameHistory, SameSnapshots
    <3>2. e \in Email
      BY <1>5, <1>p, <3>1 DEF PlacesOK, Work
    <3>3. e \in w.new \/ member[e][m.vpn] = "GOOGLE_SYNC"
      BY <1>1, <3>1 DEF Google
    <3>4. member[e][m.vpn] = "GOOGLE_SYNC" => name[e] # 0
      BY <1>5, <1>p, <3>2 DEF UsersOK
    <3>5. QED
      BY <1>1, <2>2, <3>3, <3>4
  <2>3. CASE o # m
    BY <1>1, <1>3, <1>4, <2>1, <2>3 DEF OK, ServedOK, Past, SameHistory, SameSnapshots
  <2>4. QED
    BY <2>2, <2>3
<1>11. LeftOK(s)'
  <2>1. SUFFICES ASSUME NEW o \in w.list \ w.todo,
                        NEW e \in Email \ (w.errors \union w.touched \union w.joined),
                        member[e][o.vpn] = "GOOGLE_SYNC"
                 PROVE  \/ e \in flagged
                        \/ \E q \in w.list : q.vpn = o.vpn /\ e \in w.ever[q.google]
                        \/ o \in w.at /\ e \in w.gone
    <3>1. UNCHANGED <<flagged, member>>
      BY DEF ReadMembers, users
    <3>2. QED
      BY <1>2, <3>1 DEF LeftOK, Mapped
  <2>2. CASE o = m
    <3>1. e \in Google(m.vpn)
      BY <2>1, <2>2 DEF Google
    <3>2. CASE e \in w.gone
      BY <1>1, <2>2, <3>2
    <3>3. CASE e \notin w.gone
      <4>1. e \in work[s].got[m] \/ \E q \in work[s].list : q.vpn = m.vpn /\ e \in work[s].got[q]
        BY <1>1, <3>1, <3>3 DEF Others
      <4>2. PICK q \in work[s].list : q.vpn = m.vpn /\ e \in work[s].got[q]
        BY <1>6, <4>1
      <4>3. e \in work[s].ever[q.google]
        BY <1>3, <1>5, <4>2 DEF OK, SnapshotOK
      <4>4. QED
        BY <1>1, <2>2, <4>2, <4>3 DEF SameHistory, SameSnapshots
    <3>4. QED
      BY <3>2, <3>3
  <2>3. CASE o # m
    BY <1>1, <1>3, <1>4, <2>1, <2>3 DEF OK, LeftOK, Past, SameHistory, SameSnapshots, Mapped
  <2>4. QED
    BY <2>2, <2>3
<1>12. UNCHANGED users
  BY DEF ReadMembers
<1>13. After(w) \in Label
  BY <1>2 DEF Label
<1>14. QED
  BY <1>1, <1>7, <1>9, <1>10, <1>11, <1>12, <1>13, OneMoves DEF OK, users

LEMMA LookupKeeps ==
    ASSUME TypeOK, PlacesOK', SyncInv, NEW s \in Sync, Lookup(s)
    PROVE  SyncInv'
<1>p. UsersOK /\ PlacesOK
  BY TypeParts
<1>1. PICK w \in Work, e \in work[s].new :
        /\ Goto(s, IF name[e] = 0 THEN "create" ELSE "upsert", w)
        /\ w.new = work[s].new \ {e} /\ w.email = {e} /\ w.gone = work[s].gone
        /\ w.errors = work[s].errors /\ w.todo = work[s].todo /\ w.at = work[s].at
        /\ SameHistory(s, w) /\ SameSnapshots(s, w)
  BY <1>p, LookupWork
<1>2. PICK l \in Label : l \in {"create", "upsert"} /\ Goto(s, l, w)
  BY <1>1 DEF Label
<1>3. pc'[s] = l /\ work'[s] = w /\ directory' = directory
  <2>1. pc'[s] = l /\ work'[s] = w
    BY <1>2, <1>p, GotoType
  <2>2. directory' = directory
    BY <1>2 DEF Goto
  <2>3. QED
    BY <2>1, <2>2
<1>4. OK(s) /\ pc[s] = "lookup"
  BY DEF SyncInv, OK, Lookup
<1>5. UNCHANGED users
  BY DEF Lookup
<1>6. SnapshotOK(s)'
  BY <1>1, <1>3, <1>4, SnapshotStays DEF OK, Past
<1>7. BatchOK(s)'
  BY <1>1, <1>2, <1>3, <1>4 DEF OK, BatchOK, Batch, SameSnapshots
<1>8. ServedOK(s)'
  <2>1. work[s].new \union work[s].email = w.new \union w.email
    BY <1>1, <1>4 DEF OK, BatchOK
  <2>2. QED
    BY <1>1, <1>2, <1>3, <1>4, <1>5, <2>1 DEF OK, ServedOK, Past, SameHistory, SameSnapshots, users
<1>9. LeftOK(s)'
  BY <1>1, <1>2, <1>3, <1>4, <1>5 DEF OK, LeftOK, Past, SameHistory, SameSnapshots, Mapped, users
<1>10. QED
  BY <1>2, <1>5, <1>6, <1>7, <1>8, <1>9, OneMoves DEF OK, users

LEMMA CreateKeeps ==
    ASSUME TypeOK, TypeOK', SyncInv, NEW s \in Sync, Create(s)
    PROVE  SyncInv'
<1>p. UsersOK /\ PlacesOK /\ UsersOK' /\ PlacesOK'
  BY TypeParts DEF TypeOK, UsersOK, PlacesOK, Label
<1>0. UNCHANGED <<flagged, member>> /\ pc[s] = "create" /\ OK(s)
  BY DEF Create, SyncInv, OK
<1>e. work[s].email \subseteq Email /\ work[s].name \in 0..MaxName
  BY <1>p DEF PlacesOK, Work
<1>1. PICK e \in work[s].email :
             \/ /\ name[e] = 0 /\ \A f \in Email : name[f] # work[s].name
                /\ name' = [name EXCEPT ![e] = work[s].name]
                /\ \E w \in Work :
                     /\ Goto(s, "upsert", w)
                     /\ w.new = work[s].new /\ w.email = work[s].email /\ w.gone = work[s].gone
                     /\ w.errors = work[s].errors /\ w.todo = work[s].todo /\ w.at = work[s].at
                     /\ SameHistory(s, w) /\ SameSnapshots(s, w)
             \/ Problem(s, e) /\ UNCHANGED name
  BY <1>p, CreateWork
<1>2. CASE Problem(s, e) /\ UNCHANGED name
  BY <1>0, <1>e, <1>p, <1>2, ProblemKeeps DEF Batch
<1>3. CASE ~(Problem(s, e) /\ UNCHANGED name)
  <2>1. /\ name[e] = 0 /\ \A f \in Email : name[f] # work[s].name
        /\ name' = [name EXCEPT ![e] = work[s].name]
    BY <1>1, <1>3
  <2>2. PICK w \in Work :
                     /\ Goto(s, "upsert", w)
                     /\ w.new = work[s].new /\ w.email = work[s].email /\ w.gone = work[s].gone
                     /\ w.errors = work[s].errors /\ w.todo = work[s].todo /\ w.at = work[s].at
                     /\ SameHistory(s, w) /\ SameSnapshots(s, w)
    BY <1>1, <1>3
  <2>3. "upsert" \in Label
    BY DEF Label
  <2>4. pc'[s] = "upsert" /\ work'[s] = w /\ directory' = directory
    <3>1. pc'[s] = "upsert" /\ work'[s] = w
      BY <1>p, <2>2, <2>3, GotoType
    <3>2. directory' = directory
      BY <2>2 DEF Goto
    <3>3. QED
      BY <3>1, <3>2
  <2>5. \A f \in Email : name[f] # 0 => name'[f] = name[f]
    BY <1>p, <2>1 DEF UsersOK
  <2>6. SnapshotOK(s)'
    BY <1>0, <2>2, <2>4, SnapshotStays DEF OK, Past
  <2>7. BatchOK(s)'
    BY <1>0, <2>2, <2>4 DEF OK, BatchOK, Batch, SameSnapshots
  <2>8. ServedOK(s)'
    <3>1. \A o \in Mapping : work[s].always[o.google] \subseteq Email
      BY <1>p DEF PlacesOK, Work
    <3>2. work[s].list \subseteq Mapping
      BY <1>p DEF PlacesOK, Work
    <3>3. QED
      BY <1>0, <2>2, <2>4, <2>5, <3>1, <3>2 DEF OK, ServedOK, Past, SameHistory, SameSnapshots
  <2>9. LeftOK(s)'
    BY <1>0, <2>2, <2>4 DEF OK, LeftOK, Past, SameHistory, SameSnapshots, Mapped
  <2>10. \A f \in Email : name[f] # 0 => name'[f] # 0
    BY <2>5
  <2>11. QED
    BY <1>0, <1>p, <2>2, <2>3, <2>6, <2>7, <2>8, <2>9, <2>10, OneMoves DEF OK
<1>4. QED
  BY <1>2, <1>3

LEMMA FlagKeeps ==
    ASSUME TypeOK, PlacesOK', SyncInv, NEW s \in Sync, Flag(s)
    PROVE  SyncInv'
<1>p. UsersOK /\ PlacesOK
  BY TypeParts
<1>0. UNCHANGED <<name, member>> /\ pc[s] = "flag" /\ OK(s)
  BY DEF Flag, SyncInv, OK
<1>e. work[s].gone \subseteq Email /\ work[s].email = {} /\ work[s].new = {}
  BY <1>p, <1>0 DEF PlacesOK, Work, OK, BatchOK
<1>1. PICK e \in work[s].gone :
             \/ Problem(s, e) /\ UNCHANGED flagged
             \/ /\ name[e] # 0 /\ flagged' = flagged \union {e}
                /\ \E w \in Work :
                     /\ Goto(s, After(w), w)
                     /\ w.new = work[s].new /\ w.email = work[s].email
                     /\ w.gone = work[s].gone \ {e}
                     /\ w.errors = work[s].errors /\ w.todo = work[s].todo /\ w.at = work[s].at
                     /\ SameHistory(s, w) /\ SameSnapshots(s, w)
  BY <1>p, FlagWork
<1>2. CASE Problem(s, e) /\ UNCHANGED flagged
  BY <1>0, <1>e, <1>2, ProblemKeeps DEF Batch
<1>3. CASE ~(Problem(s, e) /\ UNCHANGED flagged)
  <2>1. flagged' = flagged \union {e}
    BY <1>1, <1>3
  <2>2. PICK w \in Work :
                     /\ Goto(s, After(w), w)
                     /\ w.new = work[s].new /\ w.email = work[s].email
                     /\ w.gone = work[s].gone \ {e}
                     /\ w.errors = work[s].errors /\ w.todo = work[s].todo /\ w.at = work[s].at
                     /\ SameHistory(s, w) /\ SameSnapshots(s, w)
    BY <1>1, <1>3
  <2>3. /\ pc'[s] = After(w) /\ work'[s] = w /\ directory' = directory
        /\ pc'[s] \in {"lookup", "flag", "members", "end"}
        /\ pc'[s] = "lookup" <=> w.new # {}
        /\ pc'[s] = "flag" <=> w.new = {} /\ w.gone # {}
        /\ pc'[s] = "members" <=> w.new = {} /\ w.gone = {} /\ w.todo # {}
        /\ pc'[s] = "end" <=> w.new = {} /\ w.gone = {} /\ w.todo = {}
    BY <1>p, <2>2, StepPlace
  <2>4. After(w) \in Label
    BY <2>3 DEF Label
  <2>5. SnapshotOK(s)'
    BY <1>0, <2>2, <2>3, SnapshotStays DEF OK, Past
  <2>6. BatchOK(s)'
    BY <1>0, <1>e, <2>2, <2>3 DEF OK, BatchOK, Batch, SameSnapshots
  <2>7. ServedOK(s)'
    BY <1>0, <2>2, <2>3 DEF OK, ServedOK, Past, SameHistory, SameSnapshots
  <2>8. LeftOK(s)'
    BY <1>0, <2>1, <2>2, <2>3 DEF OK, LeftOK, Past, SameHistory, SameSnapshots, Mapped
  <2>9. QED
    BY <1>0, <2>1, <2>2, <2>4, <2>5, <2>6, <2>7, <2>8, OneMoves DEF OK
<1>4. QED
  BY <1>2, <1>3

\* A new membership of Google is of a member, and the other syncs have seen it.
LEMMA UpsertKeeps ==
    ASSUME TypeOK, PlacesOK', SyncInv, NEW s \in Sync, Upsert(s)
    PROVE  SyncInv'
<1>p. UsersOK /\ PlacesOK
  BY TypeParts
<1>0. UNCHANGED <<name, flagged>> /\ pc[s] = "upsert" /\ OK(s)
  BY DEF Upsert, SyncInv, OK
<1>1. PICK e \in work[s].email, m \in work[s].at :
             \/ Problem(s, e) /\ UNCHANGED member
             \/ /\ name[e] # 0 /\ m.vpn \in groups
                /\ member' = [member EXCEPT ![e][m.vpn] = "GOOGLE_SYNC"]
                /\ PlacesOK'
                /\ pc'[s] = After(work'[s])
                /\ work'[s].new = work[s].new /\ work'[s].email = {}
                /\ work'[s].gone = work[s].gone /\ work'[s].errors = work[s].errors
                /\ work'[s].todo = work[s].todo /\ work'[s].at = work[s].at
                /\ SameHistory(s, work'[s]) /\ SameSnapshots(s, work'[s])
                /\ \A t \in Sync \ {s} :
                     Saw(t, e) /\ SameWork(t)
                     /\ work'[t].always = work[t].always /\ work'[t].ever = work[t].ever
                     /\ work'[t].touched = work[t].touched
                /\ UNCHANGED <<directory, mappings, groups>>
  BY <1>p, UpsertWork
<1>e. e \in Email /\ m \in Mapping /\ m.vpn \in VpnGroup /\ work[s].list \subseteq Mapping
  BY <1>p DEF PlacesOK, Work
<1>2. CASE Problem(s, e) /\ UNCHANGED member
  BY <1>0, <1>e, <1>2, ProblemKeeps DEF Batch
<1>3. CASE ~(Problem(s, e) /\ UNCHANGED member)
  <2>1. /\ name[e] # 0
        /\ member' = [member EXCEPT ![e][m.vpn] = "GOOGLE_SYNC"]
        /\ pc'[s] = After(work'[s])
        /\ work'[s].new = work[s].new /\ work'[s].email = {}
        /\ work'[s].gone = work[s].gone /\ work'[s].errors = work[s].errors
        /\ work'[s].todo = work[s].todo /\ work'[s].at = work[s].at
        /\ SameHistory(s, work'[s]) /\ SameSnapshots(s, work'[s])
        /\ directory' = directory
    BY <1>1, <1>3
  <2>2. \A t \in Sync \ {s} :
          /\ Saw(t, e) /\ SameWork(t)
          /\ work'[t].always = work[t].always /\ work'[t].ever = work[t].ever
          /\ work'[t].touched = work[t].touched
    BY <1>1, <1>3
  <2>3. \A f \in Email, v \in VpnGroup :
          member'[f][v] = IF f = e /\ v = m.vpn THEN "GOOGLE_SYNC" ELSE member[f][v]
    BY <1>e, <1>p, <2>1 DEF UsersOK
  <2>4. PICK w : w = work'[s]
    OBVIOUS
  <2>5. /\ pc'[s] \in {"lookup", "flag", "members", "end"}
        /\ pc'[s] = "lookup" <=> w.new # {}
        /\ pc'[s] = "flag" <=> w.new = {} /\ w.gone # {}
        /\ pc'[s] = "members" <=> w.new = {} /\ w.gone = {} /\ w.todo # {}
        /\ pc'[s] = "end" <=> w.new = {} /\ w.gone = {} /\ w.todo = {}
    BY <2>1, <2>4, AfterType
  <2>6. /\ m \in work[s].list /\ e \in work[s].got[m]
        /\ \A f \in work[s].email : f = e
        /\ \A n \in work[s].at : n = m
    BY <1>0 DEF OK, BatchOK
  <2>7. SnapshotOK(s)'
    BY <1>0, <2>1, SnapshotStays DEF OK, Past
  <2>8. BatchOK(s)'
    BY <1>0, <2>1, <2>4, <2>5 DEF OK, BatchOK, Batch, SameSnapshots
  <2>9. ServedOK(s)'
    <3>1. SUFFICES ASSUME NEW o \in work[s].list \ (work[s].todo \union work[s].unread),
                          NEW f \in work[s].always[o.google] \ (work[s].errors \union work[s].touched)
                   PROVE  \/ name[f] # 0 /\ member'[f][o.vpn] = "GOOGLE_SYNC"
                          \/ o \in work[s].at /\ f \in work[s].new
      BY <1>0, <2>1 DEF ServedOK, SameHistory, SameSnapshots
    <3>2. f \in Email /\ o.vpn \in VpnGroup
      BY <1>e, <1>p DEF PlacesOK, Work
    <3>3. \/ name[f] # 0 /\ member[f][o.vpn] = "GOOGLE_SYNC"
          \/ o \in work[s].at /\ f \in work[s].new \union work[s].email
      BY <1>0 DEF OK, ServedOK, Past
    <3>4. QED
      BY <2>1, <2>3, <2>6, <3>2, <3>3
  <2>10. LeftOK(s)'
    <3>1. SUFFICES ASSUME NEW o \in work[s].list \ work[s].todo,
                          NEW f \in Email \ (work[s].errors \union work[s].touched \union work[s].joined),
                          member'[f][o.vpn] = "GOOGLE_SYNC"
                   PROVE  \/ f \in flagged
                          \/ \E q \in work[s].list : q.vpn = o.vpn /\ f \in work[s].ever[q.google]
                          \/ o \in work[s].at /\ f \in work[s].gone
      BY <1>0, <2>1 DEF LeftOK, SameHistory, SameSnapshots, Mapped
    <3>2. o.vpn \in VpnGroup
      BY <1>e
    <3>3. CASE f = e /\ o.vpn = m.vpn
      <4>1. e \in work[s].ever[m.google]
        BY <1>0, <1>e, <2>6 DEF OK, SnapshotOK
      <4>2. QED
        BY <2>6, <3>3, <4>1
    <3>4. CASE ~(f = e /\ o.vpn = m.vpn)
      <4>1. member[f][o.vpn] = "GOOGLE_SYNC"
        BY <2>3, <3>1, <3>2, <3>4
      <4>2. QED
        BY <1>0, <4>1 DEF OK, LeftOK, Past, Mapped
    <3>5. QED
      BY <3>3, <3>4
  <2>11. ASSUME NEW t \in Sync \ {s}
         PROVE  OK(t)'
    <3>1. pc'[t] = pc[t] /\ (pc[t] = "idle" => work'[t] = work[t])
      BY <2>2 DEF Saw
    <3>2. pc[t] # "idle" => \A g \in GoogleGroup : work[t].always[g] \subseteq directory[g] /\ directory[g] \subseteq work[t].ever[g]
      BY DEF SyncInv, SnapshotOK
    <3>3. pc[t] # "idle" => Watches(t)
      BY <1>0, <2>1, <2>2, <2>3, <3>2 DEF Watches, Saw
    <3>4. QED
      BY <3>1, <3>3, WatchKeeps DEF SyncInv, OK
  <2>12. QED
    BY <2>7, <2>8, <2>9, <2>10, <2>11 DEF SyncInv, OK
<1>4. QED
  BY <1>2, <1>3

LEMMA FailKeeps ==
    ASSUME TypeOK, PlacesOK', SyncInv, NEW s \in Sync, StatementFails(s)
    PROVE  SyncInv'
<1>p. PlacesOK
  BY TypeParts
<1>0. UNCHANGED <<name, flagged, member>> /\ OK(s)
  BY DEF StatementFails, users, SyncInv, OK
<1>e. work[s].gone \subseteq Email /\ work[s].email \subseteq Email /\ work[s].new \subseteq Email
  BY <1>p DEF PlacesOK, Work
<1>1. CASE pc[s] \in {"create", "upsert"} /\ \E e \in work[s].email : Problem(s, e)
  BY <1>0, <1>1, <1>e, ProblemKeeps DEF Batch
<1>2. CASE pc[s] \in {"lookup", "flag"} /\ \E e \in work[s].new \union work[s].gone : Problem(s, e)
  <2>1. work[s].email = {}
    BY <1>0, <1>2 DEF OK, BatchOK
  <2>2. QED
    BY <1>0, <1>2, <1>e, <2>1, ProblemKeeps DEF Batch
<1>3. CASE Goto(s, "idle", NoWork)
  <2>1. "idle" \in Label
    BY DEF Label
  <2>2. pc'[s] = "idle" /\ work'[s] = NoWork
    BY <1>3, <1>p, <2>1, NoWorkType, GotoType
  <2>3. OK(s)'
    BY <2>2 DEF OK, SnapshotOK, BatchOK, ServedOK, LeftOK, Past, NoWork
  <2>4. QED
    BY <1>0, <1>3, <2>1, <2>3, NoWorkType, OneMoves
<1>4. QED
  BY <1>1, <1>2, <1>3 DEF StatementFails

LEMMA EndKeeps ==
    ASSUME TypeOK, PlacesOK', SyncInv, NEW s \in Sync, Succeed(s) \/ Return(s)
    PROVE  SyncInv'
<1>p. PlacesOK
  BY TypeParts
<1>0. UNCHANGED <<name, flagged, member>> /\ OK(s)
  BY DEF Succeed, Return, users, SyncInv, OK
<1>1. CASE Succeed(s)
  <2>1. "done" \in Label /\ work[s] \in Work /\ Goto(s, "done", work[s]) /\ pc[s] = "end"
    BY <1>p, <1>1 DEF Succeed, Label, PlacesOK
  <2>2. pc'[s] = "done" /\ work'[s] = work[s]
    BY <1>p, <2>1, GotoType
  <2>3. directory' = directory
    BY <2>1 DEF Goto
  <2>4. OK(s)'
    BY <1>0, <2>1, <2>2, <2>3 DEF OK, SnapshotOK, BatchOK, Batch, ServedOK, LeftOK, Past, Mapped
  <2>5. QED
    BY <1>0, <2>1, <2>4, OneMoves
<1>2. CASE Return(s)
  <2>1. "idle" \in Label /\ Goto(s, "idle", NoWork)
    BY <1>2 DEF Return, Label
  <2>2. pc'[s] = "idle" /\ work'[s] = NoWork
    BY <1>p, <2>1, NoWorkType, GotoType
  <2>3. OK(s)'
    BY <2>2 DEF OK, SnapshotOK, BatchOK, ServedOK, LeftOK, Past, NoWork
  <2>4. QED
    BY <1>0, <2>1, <2>3, NoWorkType, OneMoves
<1>3. QED
  BY <1>1, <1>2

LEMMA SyncInit == Init => SyncInv
BY DEF Init, SyncInv, SnapshotOK, BatchOK, ServedOK, LeftOK, Past, NoWork

LEMMA SyncStep == TypeOK /\ SyncInv /\ [Next]_vars => SyncInv'
<1> SUFFICES ASSUME TypeOK, SyncInv, [Next]_vars PROVE SyncInv'
  OBVIOUS
<1>t. TypeOK'
  BY TypeStep
<1>p. PlacesOK'
  BY PlacesStep
<1>1. CASE UNCHANGED vars
  <2>1. UNCHANGED <<directory, name, flagged, member, pc, work>>
    BY <1>1 DEF vars
  <2>2. QED
    BY <2>1 DEF SyncInv, SnapshotOK, BatchOK, ServedOK, LeftOK, Mapped
<1>2. ASSUME NEW s \in Sync,
             Begin(s) \/ ListMappings(s) \/ Fetch(s) \/ FetchFails(s) \/ ReadMembers(s) \/ Lookup(s)
      PROVE  SyncInv'
  BY <1>2, <1>p, BeginKeeps, ListKeeps, FetchKeeps, ReadKeeps, LookupKeeps
<1>3. ASSUME NEW s \in Sync,
             Create(s) \/ Upsert(s) \/ Flag(s) \/ StatementFails(s) \/ Succeed(s) \/ Return(s)
      PROVE  SyncInv'
  BY <1>3, <1>p, <1>t, CreateKeeps, UpsertKeeps, FlagKeeps, FailKeeps, EndKeeps
<1>4. CASE \/ \E g \in GoogleGroup, e \in Email : ChangeGroup(g, e)
           \/ \E e \in Email : CreateUser(e) \/ DeleteUser(e) \/ Dismiss(e)
           \/ \E e \in Email, v \in VpnGroup :
                AddToGroup(e, v) \/ RemoveFromGroup(e, v) \/ Reassign(e, v)
           \/ \E m \in Mapping : AddMapping(m) \/ RemoveMapping(m)
           \/ \E v \in VpnGroup : DeleteGroup(v)
  BY <1>4, <1>p, OthersKeep
<1>5. QED
  BY <1>1, <1>2, <1>3, <1>4 DEF Next

LEMMA SyncCorrect == Spec => [](TypeOK /\ SyncInv)
<1>1. Init => TypeOK /\ SyncInv
  BY InitType, SyncInit
<1>2. TypeOK /\ SyncInv /\ [Next]_vars => (TypeOK /\ SyncInv)'
  BY TypeStep, SyncStep
<1>3. QED
  BY <1>1, <1>2, PTL DEF Spec

\* runGoogleSync: whoever was in a mapped Google group all the time is in the VPN
\* group when a sync succeeds, or among its errors, whatever else changed meanwhile
\* and however many syncs overlap, unless an administrator changed that very user.
THEOREM MembersAreServed == Spec => []MembersAreIn
<1>1. TypeOK /\ SyncInv => MembersAreIn
  <2> SUFFICES ASSUME SyncInv, NEW s \in Sync, pc[s] = "done"
               PROVE  \A m \in work[s].list \ work[s].unread :
                        \A e \in work[s].always[m.google] \ (work[s].errors \union work[s].touched) :
                            name[e] # 0 /\ member[e][m.vpn] = "GOOGLE_SYNC"
    BY DEF MembersAreIn
  <2>1. work[s].todo = {} /\ work[s].new = {} /\ work[s].email = {}
    BY DEF SyncInv, BatchOK, Batch
  <2>2. QED
    BY <2>1 DEF SyncInv, ServedOK, Past
<1>2. QED
  BY <1>1, SyncCorrect, PTL

\* runGoogleSync: whoever is in a VPN group by Google and was in none of the groups
\* mapped to it is flagged when a sync succeeds, or among its errors, unless an
\* administrator changed that user or another sync added it meanwhile.
THEOREM LeaversAreSeen == Spec => []LeaversAreFlagged
<1>1. TypeOK /\ SyncInv => LeaversAreFlagged
  <2> SUFFICES ASSUME SyncInv, NEW s \in Sync, pc[s] = "done"
               PROVE  \A m \in work[s].list,
                         e \in Email \ (work[s].errors \union work[s].touched \union work[s].joined) :
                          member[e][m.vpn] = "GOOGLE_SYNC" =>
                              e \in flagged \/ \E o \in Mapped(s, m) : e \in work[s].ever[o.google]
    BY DEF LeaversAreFlagged
  <2>1. work[s].todo = {} /\ work[s].gone = {}
    BY DEF SyncInv, BatchOK, Batch
  <2>2. QED
    BY <2>1 DEF SyncInv, LeftOK, Past
<1>2. QED
  BY <1>1, SyncCorrect, PTL

\* runGoogleSync: nobody is flagged who was all the time in a mapped group that could
\* be read, however the snapshots of the groups have aged.
THEOREM MembersAreSpared == Spec => MembersAreNotFlagged
<1>1. TypeOK /\ SyncInv /\ [Next]_vars =>
        [\A e \in flagged' \ flagged, s \in Sync :
          pc[s] = "flag" /\ work'[s] # work[s] =>
              \A m \in work[s].at, o \in work[s].list \ work[s].unread :
                  o.vpn = m.vpn => e \notin work[s].always[o.google]]_vars
  <2> SUFFICES ASSUME TypeOK, SyncInv, Next,
                      NEW e \in flagged' \ flagged, NEW s \in Sync, pc[s] = "flag", work'[s] # work[s],
                      NEW m \in work[s].at, NEW o \in work[s].list \ work[s].unread, o.vpn = m.vpn
               PROVE  e \notin work[s].always[o.google]
    OBVIOUS
  <2>p. UsersOK /\ PlacesOK
    BY TypeParts
  <2>1. PICK t \in Sync : Flag(t)
    <3>1. ASSUME NEW t \in Sync, \/ Begin(t) \/ ListMappings(t) \/ Fetch(t) \/ FetchFails(t) \/ ReadMembers(t)
                                 \/ Lookup(t) \/ StatementFails(t) \/ Succeed(t) \/ Return(t)
          PROVE  FALSE
      BY <3>1 DEF Begin, ListMappings, Fetch, FetchFails, ReadMembers, Lookup, StatementFails, Succeed, Return,
         users
    <3>2. ASSUME NEW t \in Sync, Create(t) \/ Upsert(t)
          PROVE  FALSE
      BY <3>2 DEF Create, Upsert
    <3>3. ASSUME NEW f \in Email, CreateUser(f) \/ DeleteUser(f) \/ Dismiss(f)
          PROVE  FALSE
      BY <3>3 DEF CreateUser, DeleteUser, Dismiss
    <3>4. ASSUME NEW f \in Email, NEW v \in VpnGroup,
                 AddToGroup(f, v) \/ RemoveFromGroup(f, v) \/ Reassign(f, v)
          PROVE  FALSE
      BY <3>4 DEF AddToGroup, RemoveFromGroup, Reassign
    <3>5. ASSUME NEW n \in Mapping, AddMapping(n) \/ RemoveMapping(n)
          PROVE  FALSE
      BY <3>5 DEF AddMapping, RemoveMapping, users
    <3>6. ASSUME \/ \E v \in VpnGroup : DeleteGroup(v)
                 \/ \E g \in GoogleGroup, f \in Email : ChangeGroup(g, f)
          PROVE  FALSE
      BY <3>6 DEF DeleteGroup, ChangeGroup, users
    <3>7. QED
      BY <3>1, <3>2, <3>3, <3>4, <3>5, <3>6 DEF Next
  <2>2. t = s
    <3>1. PICK l \in Label, w \in Work : Goto(t, l, w)
      BY <2>1, SyncMoves
    <3>2. QED
      BY <2>p, <3>1, GotoType
  <2>3. PICK f \in work[s].gone : flagged' \subseteq flagged \union {f}
    BY <2>p, <2>1, <2>2, FlagWork
  <2>4. e \in work[s].gone
    BY <2>3
  <2>5. e \notin work[s].got[o]
    BY <2>4 DEF SyncInv, BatchOK
  <2>6. work[s].always[o.google] \subseteq work[s].got[o]
    BY DEF SyncInv, SnapshotOK
  <2>7. QED
    BY <2>5, <2>6
<1>2. QED
  BY <1>1, SyncCorrect, PTL DEF Spec, MembersAreNotFlagged
=============================================================================
