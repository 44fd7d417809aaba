----------------------------- MODULE Settings -----------------------------
(***************************************************************************)
(* The settings an administrator changes while the proxy runs, and the     *)
(* .env file they are kept in (internal/admin/handler.go, config, auth).   *)
(*                                                                         *)
(* A handler takes a snapshot of all settings, changes its own in it,      *)
(* writes the whole snapshot into .env and then sets its own setting in    *)
(* the runtime.  No lock covers this, so that handlers may overlap.  The   *)
(* file is read, truncated and written; the process may die in between,    *)
(* and the writing may fail.  At a start the outer environment is stronger *)
(* than .env, at a reload .env is stronger than what the environment says; *)
(* a line that is not there changes nothing, so that a variable keeps what *)
(* it had after its line was taken out.                                    *)
(*                                                                         *)
(* Three settings stand for all: "interval" for the scalars, two of which  *)
(* are not to be zero or negative; "control", the prompt that has a line   *)
(* of its own in .env beside its place among the overrides; "other" for    *)
(* the remaining prompts, which only have the latter.  A line of more than *)
(* 64 KB makes .env unreadable for the program that wrote it.  "API_KEY"   *)
(* stands for all lines the runtime does not own.  Two writes that overlap *)
(* leave what the last one wrote, their texts are not mixed.               *)
(***************************************************************************)
EXTENDS Naturals, SequencesExt

CONSTANTS
    Admins,      \* administrators' requests under way at the same time
    ApiKeys,     \* what API_KEY lists, the administrator's key first
    Users,       \* keys an administrator may add and delete
    Outer,       \* what the outer environment may name: a set of sets
    MaxActs      \* bound: requests, edits, and stops of the process, together

ASSUME KeysAssumption  == ApiKeys \in Seq(Users) \ {<<>>}
ASSUME ActsAssumption  == MaxActs \in Nat
ASSUME OuterAssumption == Outer \subseteq SUBSET {"key", "interval", "legacy", "overrides"}

VARIABLES
    file,        \* .env: its lines for the settings, and whether API_KEY is there
    env,         \* the environment of the process
    outer,       \* what was in it before the process looked at .env
    runtime,     \* the settings in force
    keys,        \* the keyring
    up,          \* whether the process runs
    job,         \* job[a]: how far the handler of a is
    synced,      \* the file has been brought up to the settings, or they to it
    hurt,        \* a save overlapped another, or was cut off in its write, or somebody
                 \* took API_KEY out of .env
    acts         \* how many of MaxActs there were

vars == <<file, env, outer, runtime, keys, up, job, synced, hurt, acts>>

-----------------------------------------------------------------------------

Values(f) == CASE f = "interval" -> {"default", "changed", "bad"}
               [] f = "control"  -> {"default", "changed"}
               [] f = "other"    -> {"default", "changed", "long"}

Snapshots == [interval : Values("interval"), control : Values("control"),
              other : Values("other")]

\* The lines of .env and the variables of the environment, any of which may be missing:
\* PROMPT_OVERRIDES_JSON holds both prompts, QWEN_WEB2_CONTROL_PROMPT, from earlier
\* versions, the first once more.
Lines == [interval : Values("interval") \union {"none"},
          legacy   : Values("control") \union {"none"},
          control  : Values("control") \union {"none"},
          other    : Values("other") \union {"none"}]

NoLines == [interval |-> "none", legacy |-> "none", control |-> "none", other |-> "none"]

\* What a handler changes: one setting, or the prompts, of which it has a copy.
Changes == [field : {"interval"}, to : {"default", "changed"}]
             \union [field : {"control"}, to : Values("control")]

NoJob == [step |-> "idle"]

Act == acts < MaxActs /\ acts' = acts + 1

Alone(a)  == \A b \in Admins \ {a} : job[b].step = "idle"
Quiet     == \A a \in Admins : job[a].step = "idle"
Saving(a) == job[a].step \in {"snapshot", "read", "truncate", "write", "set"}

-----------------------------------------------------------------------------
(* Reading *)

DefaultLines == [interval |-> "default", legacy |-> "default",
                 control |-> "default", other |-> "default"]

\* ParseDotEnv: its scanner gives up at a line that is too long.
Readable(f) == f.lines.other # "long"

\* applyEnvMap: only the lines that are there count, and of them those whose variable is
\* not to be left as it is.  Nothing is unset.
Taken(lines, environment, protected, field, name) ==
    IF lines[field] = "none" \/ name \in protected THEN environment[field]
    ELSE lines[field]

Applied(lines, environment, protected) ==
    [interval |-> Taken(lines, environment, protected, "interval", "interval"),
     legacy   |-> Taken(lines, environment, protected, "legacy", "legacy"),
     control  |-> Taken(lines, environment, protected, "control", "overrides"),
     other    |-> Taken(lines, environment, protected, "other", "overrides")]

OrDefault(v) == IF v = "none" THEN "default" ELSE v

\* Load: the old variable counts when the overrides have no control prompt.
Load(environment) ==
    [interval |-> OrDefault(environment.interval),
     control  |-> IF environment.control \notin {"none", "default"} THEN environment.control
                  ELSE OrDefault(environment.legacy),
     other    |-> OrDefault(environment.other)]

OuterEnv(names) ==
    [interval |-> IF "interval" \in names THEN "changed" ELSE "none",
     legacy   |-> IF "legacy" \in names THEN "changed" ELSE "none",
     control  |-> IF "overrides" \in names THEN "changed" ELSE "none",
     other    |-> IF "overrides" \in names THEN "default" ELSE "none"]

\* mutant: EnsureDotEnv writes its template over a file that is there.
EnvFromTemplate == Applied(DefaultLines, OuterEnv(outer), outer)

\* LoadDotEnv says nothing of a file it cannot read.
EnvAtStart == IF Readable(file) THEN Applied(file.lines, OuterEnv(outer), outer)
              ELSE OuterEnv(outer)

Init ==
    /\ file = [key |-> TRUE, lines |-> DefaultLines]
    /\ outer \in Outer
    /\ env = EnvAtStart
    /\ runtime = Load(env)
    /\ keys = ApiKeys
    /\ up = TRUE
    /\ job = [a \in Admins |-> NoJob]
    /\ synced = FALSE
    /\ hurt = FALSE
    /\ acts = 0

-----------------------------------------------------------------------------
(* Saving a setting *)

\* Every request that meets this one at work spoils what it promises.
Met(j) == IF j.step = "idle" THEN NoJob ELSE [j EXCEPT !.alone = FALSE]

Begin(a, new) ==
    /\ job' = [b \in Admins |-> IF b = a THEN new ELSE Met(job[b])]
    /\ Act

Prompts(s) == [control |-> s.control, other |-> s.other]

NoPrompts == [control |-> "default", other |-> "default"]

\* HandleSetPrompts changes one of the prompts, HandleResetPrompts takes all back, in a
\* copy of the runtime's overrides that is older than the snapshot.
StartPrompts(a) ==
    /\ up /\ job[a].step = "idle"
    /\ \E to \in {[Prompts(runtime) EXCEPT !.control = v] : v \in Values("control")}
                   \union {[Prompts(runtime) EXCEPT !.other = v] : v \in Values("other")}
                   \union {NoPrompts} :
          Begin(a, [step |-> "snapshot", change |-> [field |-> "prompts", to |-> to],
                    alone |-> Alone(a)])
    /\ hurt' = (hurt \/ \E b \in Admins : Saving(b))
    /\ UNCHANGED <<file, env, outer, runtime, keys, up, synced>>

\* The other handlers have the new value from the request: zero is replaced, a negative
\* number is refused.
StartSetting(a) ==
    /\ up /\ job[a].step = "idle"
    /\ \E change \in Changes :
          Begin(a, [step |-> "snapshot", change |-> change, alone |-> Alone(a)])
    /\ hurt' = (hurt \/ \E b \in Admins : Saving(b))
    /\ UNCHANGED <<file, env, outer, runtime, keys, up, synced>>

Changed(s, change) ==
    IF change.field = "prompts"
    THEN [s EXCEPT !.control = change.to.control, !.other = change.to.other]
    ELSE [s EXCEPT ![change.field] = change.to]

\* persistRuntimeSettings, RuntimeSnapshotToEnv: what must not be zero is made good in
\* the snapshot, and the control prompt goes into both its lines.
LinesOf(s) ==
    [interval |-> IF s.interval = "bad" THEN "default" ELSE s.interval,
     legacy |-> s.control, control |-> s.control, other |-> s.other]

\* mutant: the handler's change is made in a copy of the snapshot.
TakeSnapshotOnly(a) ==
    /\ up /\ job[a].step = "snapshot"
    /\ job' = [job EXCEPT ![a] = [step |-> "read", change |-> @.change, alone |-> @.alone,
                                  lines |-> LinesOf(runtime)]]
    /\ UNCHANGED <<file, env, outer, runtime, keys, up, synced, hurt, acts>>

TakeSnapshot(a) ==
    /\ up /\ job[a].step = "snapshot"
    /\ job' = [job EXCEPT ![a] = [step |-> "read", change |-> @.change, alone |-> @.alone,
                                  lines |-> LinesOf(Changed(runtime, @.change))]]
    /\ UNCHANGED <<file, env, outer, runtime, keys, up, synced, hurt, acts>>

\* SaveDotEnvValues: the lines it does not own are taken over from what it reads.
\* mutant: those lines are dropped.
KeyDropped(f) == FALSE

KeyKept(f) == f.key

ReadFile(a) ==
    /\ up /\ job[a].step = "read"
    /\ job' = [job EXCEPT ![a] = [step |-> "truncate", change |-> @.change,
                                  alone |-> @.alone,
                                  new |-> [key |-> KeyKept(file), lines |-> @.lines]]]
    /\ UNCHANGED <<file, env, outer, runtime, keys, up, synced, hurt, acts>>

Truncate(a) ==
    /\ up /\ job[a].step = "truncate"
    /\ file' = [key |-> FALSE, lines |-> NoLines]
    /\ job' = [job EXCEPT ![a].step = "write"]
    /\ synced' = FALSE
    /\ UNCHANGED <<env, outer, runtime, keys, up, hurt, acts>>

WriteFile(a) ==
    /\ up /\ job[a].step = "write"
    /\ file' = job[a].new
    /\ job' = [job EXCEPT ![a] = [step |-> "set", change |-> @.change, alone |-> @.alone]]
    /\ UNCHANGED <<env, outer, runtime, keys, up, synced, hurt, acts>>

\* The handler reports an error and leaves the runtime as it is.
SaveFails(a) ==
    /\ up /\ job[a].step \in {"read", "truncate", "write"}
    /\ job' = [job EXCEPT ![a] = NoJob]
    /\ hurt' = (hurt \/ job[a].step = "write")
    /\ UNCHANGED <<file, env, outer, runtime, keys, up, synced, acts>>

\* The setter of the runtime.  That of the prompts replaces them all.
SetRuntime(a) ==
    /\ up /\ job[a].step = "set"
    /\ runtime' = Changed(runtime, job[a].change)
    /\ job' = [job EXCEPT ![a] = NoJob]
    /\ synced' = job[a].alone
    /\ UNCHANGED <<file, env, outer, keys, up, hurt, acts>>

-----------------------------------------------------------------------------
(* Reloading, and editing by hand *)

\* HandleReloadRuntimeConfig: .env, of which the lines that are there are set, ...
ReloadDotEnv(a) ==
    /\ up /\ job[a].step = "idle"
    /\ Readable(file)
    /\ env' = Applied(file.lines, env, {})
    /\ Begin(a, [step |-> "load", alone |-> Alone(a)])
    /\ UNCHANGED <<file, outer, runtime, keys, up, synced, hurt>>

\* ... the settings the environment then makes, ...
LoadConfig(a) ==
    /\ up /\ job[a].step = "load"
    /\ job' = [job EXCEPT ![a] = [step |-> "apply", alone |-> @.alone, loaded |-> Load(env)]]
    /\ UNCHANGED <<file, env, outer, runtime, keys, up, synced, hurt, acts>>

\* ... and the runtime, all of it.
ApplySnapshot(a) ==
    /\ up /\ job[a].step = "apply"
    /\ runtime' = job[a].loaded
    /\ job' = [job EXCEPT ![a] = NoJob]
    /\ synced' = job[a].alone
    /\ UNCHANGED <<file, env, outer, keys, up, hurt, acts>>

\* Somebody changes a line in an editor, or puts it in, or takes it out ...
Edited(lines) ==
    {[lines EXCEPT !.interval = v] : v \in Values("interval") \union {"none"}}
      \union {[lines EXCEPT !.legacy = v] : v \in Values("control") \union {"none"}}
      \union {[lines EXCEPT !.control = v.control, !.other = v.other] :
                 v \in [control : Values("control"), other : Values("other")]
                         \union {[control |-> "none", other |-> "none"]}}

Edit ==
    /\ Act
    /\ \/ /\ \E lines \in Edited(file.lines) : file' = [file EXCEPT !.lines = lines]
          /\ UNCHANGED hurt
       \/ file' = [file EXCEPT !.key = FALSE] /\ hurt' = TRUE
    /\ job' = [a \in Admins |-> Met(job[a])]
    /\ synced' = FALSE
    /\ UNCHANGED <<env, outer, runtime, keys, up>>

\* ... or puts a file right that has lost its lines.
Repair ==
    /\ Act
    /\ Quiet
    /\ ~file.key
    /\ file' = [key |-> TRUE, lines |-> DefaultLines]
    /\ synced' = FALSE
    /\ hurt' = FALSE
    /\ UNCHANGED <<env, outer, runtime, keys, up, job>>

-----------------------------------------------------------------------------
(* The keyring *)

\* mutant: a key that is listed is listed once more.
AddRegularKeyTwice(k) ==
    /\ Act
    /\ up
    /\ keys' = Append(keys, k)
    /\ UNCHANGED <<file, env, outer, runtime, up, job, synced, hurt>>

AddRegularKey(k) ==
    /\ Act
    /\ up
    /\ k \notin ToSet(keys)
    /\ keys' = Append(keys, k)
    /\ UNCHANGED <<file, env, outer, runtime, up, job, synced, hurt>>

DeleteRegularKey(k) ==
    /\ Act
    /\ up
    /\ k # ApiKeys[1]
    /\ k \in ToSet(keys)
    /\ keys' = RemoveFirst(keys, k)
    /\ UNCHANGED <<file, env, outer, runtime, up, job, synced, hurt>>

-----------------------------------------------------------------------------
(* The process *)

Stop ==
    /\ Act
    /\ up
    /\ up' = FALSE
    /\ job' = [a \in Admins |-> NoJob]
    /\ hurt' = (hurt \/ \E a \in Admins : job[a].step = "write")
    /\ UNCHANGED <<file, env, outer, runtime, keys, synced>>

\* main: without keys the process ends at once, but they may come from outside, and .env
\* is then not missed.  EnsureDotEnv writes a new .env only where there is none.
KeysAtStart ==
    IF "key" \in outer \/ (Readable(file) /\ file.key) THEN ApiKeys ELSE <<>>

Start ==
    /\ ~up
    /\ KeysAtStart # <<>>
    /\ up' = TRUE
    /\ env' = EnvAtStart
    /\ runtime' = Load(env')
    /\ keys' = KeysAtStart
    /\ synced' = FALSE
    /\ UNCHANGED <<file, outer, job, hurt, acts>>

Next ==
    \/ \E a \in Admins : \/ StartPrompts(a) \/ StartSetting(a) \/ TakeSnapshot(a)
                         \/ ReadFile(a) \/ Truncate(a) \/ WriteFile(a)
                         \/ SaveFails(a) \/ SetRuntime(a)
                         \/ ReloadDotEnv(a) \/ LoadConfig(a) \/ ApplySnapshot(a)
    \/ Edit \/ Repair
    \/ \E k \in Users : AddRegularKey(k) \/ DeleteRegularKey(k)
    \/ Stop \/ Start

Spec == Init /\ [][Next]_vars

-----------------------------------------------------------------------------
(* Properties *)

\* What a save makes of a snapshot: an interval that makes no sense is made good.
MadeGood(s) == [s EXCEPT !.interval = IF @ = "bad" THEN "default" ELSE @]

\* Whether .env settles a setting.  A missing line leaves it to a variable that may be as
\* old as the process, and overrides without a control prompt leave that to its own line.
Says(lines, field) ==
    CASE field = "interval" -> lines.interval # "none"
      [] field = "control"  -> \/ lines.control \notin {"none", "default"}
                               \/ lines.control = "default" /\ lines.legacy # "none"
      [] field = "other"    -> lines.other # "none"

(* After a save no other request and no edit met, or after such a reload, the runtime  *)
(* has in force what .env says of every setting, not only of the one that was saved,   *)
(* whatever saves, hand edits, failures and crashes there were before.  A line somebody *)
(* took out says nothing: a reload leaves that setting as the environment has it.      *)
FileFollowsRuntime ==
    synced /\ Quiet =>
       \A field \in DOMAIN runtime :
          Says(file.lines, field) =>
              MadeGood(Load(file.lines))[field] = MadeGood(runtime)[field]

NamedOutside(field) ==
    CASE field = "interval" -> "interval" \in outer
      [] field = "control"  -> outer \intersect {"legacy", "overrides"} # {}
      [] field = "other"    -> "overrides" \in outer

(* A restart changes no setting that was saved or reloaded last, except those the      *)
(* outer environment names, for which the administrator's change ends here, and those  *)
(* whose line was taken out.  Where API_KEY comes from outside the process also starts *)
(* without a .env it can read, and then everything is as it was at first.              *)
RestartKeepsSettings ==
    [][Start /\ synced /\ Readable(file) =>
          \A field \in DOMAIN runtime :
             Says(file.lines, field) /\ ~NamedOutside(field) =>
                 MadeGood(runtime')[field] = MadeGood(runtime)[field]]_vars

(* As long as no two saves overlapped, no write failed half way, the process did not   *)
(* die in one and nobody took it out, API_KEY is in .env, or it is on its way back:    *)
(* without it the next start is refused, unless it comes from outside.                 *)
KeepsApiKey ==
    ~hurt => file.key \/ \E a \in Admins : job[a].step = "write" /\ job[a].new.key

NamedTwice(k) == \E i, j \in DOMAIN ApiKeys : i # j /\ ApiKeys[i] = k /\ ApiKeys[j] = k

(* After a deletion the key opens nothing any more, whatever was added and deleted     *)
(* before: DeleteRegularKey takes out one entry, so that there must be no second.  The *)
(* ring is filled from API_KEY as it is: a key that stands there twice is excused.     *)
DeletedKeyIsOut ==
    [][\A k \in Users :
          DeleteRegularKey(k) /\ ~NamedTwice(k) => k \notin ToSet(keys')]_vars

=============================================================================
