--------------------------- MODULE SettingsProofs ---------------------------
(***************************************************************************)
(* Proofs about the settings, for any number of administrators and of      *)
(* requests: saving keeps the lines of .env that are not its own, .env and *)
(* the runtime come together again, a restart keeps what was saved, and a  *)
(* deleted key is out.                                                     *)
(***************************************************************************)
EXTENDS Settings, SequenceTheorems, WellFoundedInduction, TLAPS

\* The fields that matter are there.
Shapes ==
    /\ hurt \in BOOLEAN
    /\ "key" \in DOMAIN file
    /\ job = [a \in Admins |-> job[a]]
    /\ \A a \in Admins :
          /\ "step" \in DOMAIN job[a]
          /\ job[a].step \in {"truncate", "write"} =>
                "new" \in DOMAIN job[a] /\ "key" \in DOMAIN job[a].new

OneAtWork == ~hurt => \A a, b \in Admins : a = b \/ ~Saving(a) \/ ~Saving(b)

NewHasKey ==
    ~hurt => \A a \in Admins : job[a].step \in {"truncate", "write"} => job[a].new.key

IInv == Shapes /\ OneAtWork /\ NewHasKey /\ KeepsApiKey

-----------------------------------------------------------------------------

LEMMA InitInv == Init => IInv
<1> SUFFICES ASSUME Init PROVE IInv
  OBVIOUS
<1>1. /\ job = [a \in Admins |-> NoJob]
      /\ file = [key |-> TRUE, lines |-> DefaultLines]
      /\ hurt = FALSE
  BY DEF Init
<1>2. \A a \in Admins : "step" \in DOMAIN job[a] /\ job[a].step = "idle"
  BY <1>1 DEF NoJob
<1>3. job = [a \in Admins |-> job[a]]
  BY <1>1
<1>4. "key" \in DOMAIN file /\ file.key
  BY <1>1
<1>5. Shapes
  BY <1>1, <1>2, <1>3, <1>4 DEF Shapes
<1>6. OneAtWork /\ NewHasKey /\ KeepsApiKey
  BY <1>2, <1>4 DEF OneAtWork, NewHasKey, KeepsApiKey, Saving
<1>7. QED
  BY <1>5, <1>6 DEF IInv

\* Between two steps of a save nobody else saves, unless there is harm done, and the key
\* is in the file unless the save is about to write it.
LEMMA AtWork ==
    ASSUME IInv, ~hurt, NEW a \in Admins, Saving(a), job[a].step # "write"
    PROVE  file.key /\ \A b \in Admins \ {a} : ~Saving(b)
BY DEF IInv, OneAtWork, KeepsApiKey, Saving

\* A step of a save that leaves file and harm alone and does not come from the writing.
LEMMA SaveGoesOn ==
    ASSUME IInv, NEW a \in Admins, NEW new,
           Saving(a), job[a].step # "write",
           job' = [job EXCEPT ![a] = new],
           "step" \in DOMAIN new,
           new.step # "write",
           new.step = "truncate" => /\ "new" \in DOMAIN new
                                    /\ "key" \in DOMAIN new.new
                                    /\ new.new.key = file.key,
           UNCHANGED <<file, hurt>>
    PROVE  IInv'
<1> USE DEF IInv
<1>1. job'[a] = new /\ \A b \in Admins \ {a} : job'[b] = job[b]
  BY DEF Shapes
<1>2. job' = [b \in Admins |-> job'[b]]
  BY DEF Shapes
<1>3. Shapes'
  BY <1>1, <1>2 DEF Shapes
<1>4. ASSUME ~hurt PROVE file.key /\ \A b \in Admins \ {a} : ~Saving(b)'
  BY <1>1, <1>4, AtWork DEF Saving
<1>5. OneAtWork'
  BY <1>1, <1>4 DEF OneAtWork
<1>6. NewHasKey'
  BY <1>1, <1>4 DEF NewHasKey, Saving
<1>7. KeepsApiKey'
  BY <1>4 DEF KeepsApiKey
<1>8. QED
  BY <1>3, <1>5, <1>6, <1>7

\* A step of a reload changes neither.
LEMMA ReloadGoesOn ==
    ASSUME IInv, NEW a \in Admins, NEW new,
           ~Saving(a),
           job' = [job EXCEPT ![a] = new],
           "step" \in DOMAIN new,
           new.step \in {"idle", "apply"},
           UNCHANGED <<file, hurt>>
    PROVE  IInv'
<1> USE DEF IInv
<1>1. job'[a] = new /\ \A b \in Admins \ {a} : job'[b] = job[b]
  BY DEF Shapes
<1>2. job' = [b \in Admins |-> job'[b]]
  BY DEF Shapes
<1>3. Shapes'
  BY <1>1, <1>2 DEF Shapes
<1>4. OneAtWork'
  BY <1>1 DEF OneAtWork, Saving
<1>5. NewHasKey'
  BY <1>1 DEF NewHasKey
<1>6. KeepsApiKey'
  BY <1>1 DEF KeepsApiKey, Saving
<1>7. QED
  BY <1>3, <1>4, <1>5, <1>6

\* Requests that meet another one leave the jobs where they are.
LEMMA Marked ==
    ASSUME IInv, NEW b \in Admins
    PROVE  /\ "step" \in DOMAIN Met(job[b])
           /\ Met(job[b]).step = job[b].step
           /\ job[b].step \in {"truncate", "write"} =>
                 "new" \in DOMAIN Met(job[b]) /\ Met(job[b]).new = job[b].new
BY DEF IInv, Shapes, NoJob, Met

LEMMA BeginInv ==
    ASSUME IInv, NEW a \in Admins, StartPrompts(a) \/ StartSetting(a) \/ ReloadDotEnv(a)
    PROVE  IInv'
<1> USE DEF IInv
<1>1. PICK new : /\ "step" \in DOMAIN new
                 /\ new.step \in {"snapshot", "load"}
                 /\ new.step = "snapshot" =>
                       hurt' = (hurt \/ \E b \in Admins : Saving(b))
                 /\ new.step = "load" => hurt' = hurt
                 /\ Begin(a, new)
  BY DEF StartPrompts, StartSetting, ReloadDotEnv
<1>2. job[a].step = "idle" /\ UNCHANGED file
  BY DEF StartPrompts, StartSetting, ReloadDotEnv
<1>3. /\ job' = [b \in Admins |-> IF b = a THEN new ELSE Met(job[b])]
  BY <1>1 DEF Begin
<1>4. /\ job' = [b \in Admins |-> job'[b]]
      /\ job'[a].step = new.step /\ "step" \in DOMAIN job'[a]
      /\ \A b \in Admins \ {a} :
            /\ "step" \in DOMAIN job'[b]
            /\ job'[b].step = job[b].step
            /\ job[b].step \in {"truncate", "write"} =>
                  "new" \in DOMAIN job'[b] /\ job'[b].new = job[b].new
  BY <1>1, <1>3, Marked
<1>5. /\ hurt' \in BOOLEAN
      /\ ~hurt' => ~hurt
      /\ ~hurt' /\ new.step = "snapshot" => \A b \in Admins : ~Saving(b)
  <2>1. CASE new.step = "snapshot"
    <3>1. hurt' = (hurt \/ \E b \in Admins : Saving(b))
      BY <1>1, <2>1
    <3>2. hurt' \in BOOLEAN
      BY <3>1
    <3>3. ~hurt' => ~hurt /\ \A b \in Admins : ~Saving(b)
      BY <3>1
    <3>4. QED
      BY <3>2, <3>3
  <2>2. CASE new.step = "load"
    BY <1>1, <2>2 DEF Shapes
  <2>3. QED
    BY <1>1, <2>1, <2>2
<1>6. Shapes'
  BY <1>1, <1>2, <1>4, <1>5 DEF Shapes
<1>7. OneAtWork'
  <2>1. \A b \in Admins \ {a} : Saving(b)' <=> Saving(b)
    BY <1>4 DEF Saving
  <2>2. Saving(a)' => new.step = "snapshot"
    BY <1>1, <1>4 DEF Saving
  <2>3. QED
    BY <1>5, <2>1, <2>2 DEF OneAtWork
<1>8. NewHasKey'
  BY <1>1, <1>4, <1>5 DEF NewHasKey
<1>9. KeepsApiKey'
  BY <1>2, <1>4, <1>5 DEF KeepsApiKey
<1>10. QED
  BY <1>6, <1>7, <1>8, <1>9

LEMMA SavingInv ==
    ASSUME IInv, NEW a \in Admins, TakeSnapshot(a) \/ ReadFile(a) \/ SetRuntime(a)
    PROVE  IInv'
<1>1. CASE TakeSnapshot(a)
  <2> DEFINE new == [step |-> "read", change |-> job[a].change, alone |-> job[a].alone,
                     lines |-> LinesOf(Changed(runtime, job[a].change))]
  <2>1. /\ job[a].step = "snapshot"
        /\ job' = [job EXCEPT ![a] = new]
        /\ Saving(a) /\ UNCHANGED <<file, hurt>>
    BY <1>1 DEF TakeSnapshot, Saving
  <2>2. "step" \in DOMAIN new /\ new.step = "read"
    OBVIOUS
  <2> HIDE DEF new
  <2>3. QED
    BY <2>1, <2>2, SaveGoesOn
<1>2. CASE ReadFile(a)
  <2> DEFINE kept == [key |-> KeyKept(file), lines |-> job[a].lines]
             new  == [step |-> "truncate", change |-> job[a].change, alone |-> job[a].alone,
                      new |-> kept]
  <2>1. /\ job[a].step = "read"
        /\ job' = [job EXCEPT ![a] = new]
        /\ Saving(a) /\ UNCHANGED <<file, hurt>>
    BY <1>2 DEF ReadFile, Saving
  <2>2. "key" \in DOMAIN kept /\ kept.key = file.key
    BY DEF KeyKept
  <2>3. "step" \in DOMAIN new /\ new.step = "truncate" /\ "new" \in DOMAIN new /\ new.new = kept
    OBVIOUS
  <2> HIDE DEF new, kept
  <2>4. QED
    BY <2>1, <2>2, <2>3, SaveGoesOn
<1>3. CASE SetRuntime(a)
  <2>1. /\ job[a].step = "set"
        /\ job' = [job EXCEPT ![a] = NoJob]
        /\ Saving(a) /\ UNCHANGED <<file, hurt>>
    BY <1>3 DEF SetRuntime, Saving
  <2>2. "step" \in DOMAIN NoJob /\ NoJob.step = "idle"
    BY DEF NoJob
  <2>3. QED
    BY <2>1, <2>2, SaveGoesOn
<1>4. QED
  BY <1>1, <1>2, <1>3

LEMMA TruncateInv == ASSUME IInv, NEW a \in Admins, Truncate(a) PROVE IInv'
<1> USE DEF IInv
<1>1. /\ job[a].step = "truncate"
      /\ job' = [job EXCEPT ![a].step = "write"]
      /\ "key" \in DOMAIN file'
      /\ UNCHANGED hurt
  BY DEF Truncate
<1>2. /\ job' = [b \in Admins |-> job'[b]]
      /\ job'[a].step = "write" /\ "step" \in DOMAIN job'[a]
      /\ "new" \in DOMAIN job'[a] /\ job'[a].new = job[a].new
      /\ \A b \in Admins \ {a} : job'[b] = job[b]
  BY <1>1 DEF Shapes
<1>3. Shapes'
  BY <1>1, <1>2 DEF Shapes
<1>4. OneAtWork' /\ NewHasKey'
  BY <1>1, <1>2 DEF OneAtWork, NewHasKey, Saving
<1>5. KeepsApiKey'
  BY <1>1, <1>2 DEF KeepsApiKey, NewHasKey
<1>6. QED
  BY <1>3, <1>4, <1>5

LEMMA WriteInv == ASSUME IInv, NEW a \in Admins, WriteFile(a) PROVE IInv'
<1> USE DEF IInv
<1> DEFINE new == [step |-> "set", change |-> job[a].change, alone |-> job[a].alone]
<1>1. job' = [job EXCEPT ![a] = new] /\ "step" \in DOMAIN new /\ new.step = "set"
  BY DEF WriteFile
<1> HIDE DEF new
<1>2. job[a].step = "write" /\ file' = job[a].new /\ UNCHANGED hurt
  BY DEF WriteFile
<1>3. /\ job' = [b \in Admins |-> job'[b]]
      /\ job'[a] = new /\ \A b \in Admins \ {a} : job'[b] = job[b]
  BY <1>1 DEF Shapes
<1>4. Shapes'
  BY <1>1, <1>2, <1>3 DEF Shapes
<1>5. OneAtWork' /\ NewHasKey' /\ KeepsApiKey'
  BY <1>1, <1>2, <1>3 DEF OneAtWork, NewHasKey, KeepsApiKey, Saving
<1>6. QED
  BY <1>4, <1>5

LEMMA FailsInv == ASSUME IInv, NEW a \in Admins, SaveFails(a) PROVE IInv'
<1> USE DEF IInv
<1>1. CASE job[a].step # "write"
  <2>1. Saving(a) /\ job' = [job EXCEPT ![a] = NoJob] /\ UNCHANGED file
    BY <1>1 DEF SaveFails, Saving
  <2>2. UNCHANGED hurt
    <3>1. hurt' = (hurt \/ FALSE)
      BY <1>1 DEF SaveFails
    <3>2. hurt \in BOOLEAN
      BY DEF Shapes
    <3>3. QED
      BY <3>1, <3>2
  <2>3. "step" \in DOMAIN NoJob /\ NoJob.step = "idle"
    BY DEF NoJob
  <2>4. QED
    BY <1>1, <2>1, <2>2, <2>3, SaveGoesOn
<1>2. CASE job[a].step = "write"
  <2>1. hurt' = TRUE /\ UNCHANGED file /\ job' = [job EXCEPT ![a] = NoJob]
    BY <1>2 DEF SaveFails
  <2>2. /\ job' = [b \in Admins |-> job'[b]]
        /\ job'[a] = NoJob /\ \A b \in Admins \ {a} : job'[b] = job[b]
    BY <2>1 DEF Shapes
  <2>3. Shapes'
    BY <2>1, <2>2 DEF Shapes, NoJob
  <2>4. QED
    BY <2>1, <2>3 DEF OneAtWork, NewHasKey, KeepsApiKey
<1>3. QED
  BY <1>1, <1>2

LEMMA ReloadInv ==
    ASSUME IInv, NEW a \in Admins, LoadConfig(a) \/ ApplySnapshot(a) PROVE IInv'
<1>1. CASE LoadConfig(a)
  <2> DEFINE new == [step |-> "apply", alone |-> job[a].alone, loaded |-> Load(env)]
  <2>1. ~Saving(a) /\ job' = [job EXCEPT ![a] = new] /\ UNCHANGED <<file, hurt>>
    BY <1>1 DEF LoadConfig, Saving
  <2>2. "step" \in DOMAIN new /\ new.step = "apply"
    OBVIOUS
  <2> HIDE DEF new
  <2>3. QED
    BY <2>1, <2>2, ReloadGoesOn
<1>2. CASE ApplySnapshot(a)
  <2>1. ~Saving(a) /\ job' = [job EXCEPT ![a] = NoJob] /\ UNCHANGED <<file, hurt>>
    BY <1>2 DEF ApplySnapshot, Saving
  <2>2. "step" \in DOMAIN NoJob /\ NoJob.step = "idle"
    BY DEF NoJob
  <2>3. QED
    BY <2>1, <2>2, ReloadGoesOn
<1>3. QED
  BY <1>1, <1>2

\* An edit leaves the key where it was, or there is harm done.
LEMMA EditInv == ASSUME IInv, Edit PROVE IInv'
<1> USE DEF IInv
<1>1. /\ job' = [b \in Admins |-> Met(job[b])]
      /\ "key" \in DOMAIN file'
      /\ hurt' \in BOOLEAN
      /\ ~hurt' => ~hurt /\ file'.key = file.key
  <2>1. job' = [b \in Admins |-> Met(job[b])]
    BY DEF Edit
  <2>2. CASE hurt' = TRUE /\ file' = [file EXCEPT !.key = FALSE]
    BY <2>1, <2>2 DEF Shapes
  <2>3. ASSUME NEW lines, file' = [file EXCEPT !.lines = lines], UNCHANGED hurt
        PROVE  /\ "key" \in DOMAIN file' /\ hurt' \in BOOLEAN
               /\ ~hurt' => ~hurt /\ file'.key = file.key
    BY <2>3 DEF Shapes
  <2>4. QED
    BY <2>1, <2>2, <2>3 DEF Edit
<1>2. /\ job' = [b \in Admins |-> job'[b]]
      /\ \A b \in Admins :
            /\ "step" \in DOMAIN job'[b]
            /\ job'[b].step = job[b].step
            /\ job[b].step \in {"truncate", "write"} =>
                  "new" \in DOMAIN job'[b] /\ job'[b].new = job[b].new
  BY <1>1, Marked
<1>3. Shapes' /\ OneAtWork' /\ NewHasKey' /\ KeepsApiKey'
  BY <1>1, <1>2 DEF Shapes, OneAtWork, NewHasKey, KeepsApiKey, Saving
<1>4. QED
  BY <1>3

\* A file is put right while nobody is at work.
LEMMA RepairInv == ASSUME IInv, Repair PROVE IInv'
<1> USE DEF IInv
<1>1. /\ \A a \in Admins : job[a].step = "idle"
      /\ UNCHANGED job
      /\ hurt' = FALSE
      /\ "key" \in DOMAIN file' /\ file'.key
  BY DEF Repair, Quiet
<1>2. Shapes' /\ OneAtWork' /\ NewHasKey' /\ KeepsApiKey'
  BY <1>1 DEF Shapes, OneAtWork, NewHasKey, KeepsApiKey, Saving
<1>3. QED
  BY <1>2

LEMMA StopInv == ASSUME IInv, Stop PROVE IInv'
<1> USE DEF IInv
<1>1. /\ job' = [a \in Admins |-> NoJob]
      /\ hurt' = (hurt \/ \E a \in Admins : job[a].step = "write")
      /\ UNCHANGED file
  BY DEF Stop
<1>2. hurt' \in BOOLEAN /\ (~hurt' => ~hurt /\ file.key)
  BY <1>1 DEF Shapes, KeepsApiKey
<1>3. Shapes'
  BY <1>1, <1>2 DEF Shapes, NoJob
<1>4. OneAtWork' /\ NewHasKey' /\ KeepsApiKey'
  BY <1>1, <1>2 DEF OneAtWork, NewHasKey, KeepsApiKey, NoJob, Saving
<1>5. QED
  BY <1>3, <1>4

LEMMA OtherInv == ASSUME IInv, UNCHANGED <<file, job, hurt>> PROVE IInv'
BY DEF IInv, Shapes, OneAtWork, NewHasKey, KeepsApiKey, Saving

LEMMA NextInv == ASSUME IInv, [Next]_vars PROVE IInv'
<1>1. ASSUME NEW a \in Admins,
             \/ StartPrompts(a) \/ StartSetting(a) \/ TakeSnapshot(a) \/ ReadFile(a)
             \/ Truncate(a) \/ WriteFile(a) \/ SaveFails(a) \/ SetRuntime(a)
             \/ ReloadDotEnv(a) \/ LoadConfig(a) \/ ApplySnapshot(a)
      PROVE  IInv'
  BY <1>1, BeginInv, SavingInv, TruncateInv, WriteInv, FailsInv, ReloadInv
<1>2. CASE Edit \/ Repair \/ Stop
  BY <1>2, EditInv, RepairInv, StopInv
<1>3. ASSUME NEW k \in Users, AddRegularKey(k) \/ DeleteRegularKey(k) PROVE IInv'
  BY <1>3, OtherInv DEF AddRegularKey, DeleteRegularKey
<1>4. CASE Start \/ UNCHANGED vars
  BY <1>4, OtherInv DEF Start, vars
<1>5. QED
  BY <1>1, <1>2, <1>3, <1>4 DEF Next

\* The inductive invariant of the saves.
THEOREM Invariance == Spec => []IInv
BY InitInv, NextInv, PTL DEF Spec

(* As long as saves neither overlap nor break off half way and nobody takes it out,    *)
(* SaveDotEnvValues leaves the API_KEY line in .env, or is about to write it back.     *)
THEOREM KeepsApiKeyHolds == Spec => []KeepsApiKey
<1>1. IInv => KeepsApiKey
  BY DEF IInv
<1>2. QED
  BY Invariance, <1>1, PTL

-----------------------------------------------------------------------------
(* What a handler writes is what it sets in the runtime afterwards, as long as nobody    *)
(* comes in between; whoever does takes "alone" from all handlers under way.             *)

Files == [key : BOOLEAN, lines : Lines]

AllChanges ==
    Changes \union [field : {"prompts"},
                    to : [control : Values("control"), other : Values("other")]]

\* What the job of a handler holds from step to step.
Steps(j) ==
    /\ "step" \in DOMAIN j
    /\ j.step \in {"idle", "snapshot", "read", "truncate", "write", "set", "load", "apply"}
    /\ j.step # "idle" => "alone" \in DOMAIN j /\ j.alone \in BOOLEAN
    /\ j.step \notin {"idle", "load", "apply"} => /\ "change" \in DOMAIN j
                                                 /\ j.change \in AllChanges
    /\ j.step = "read" => "lines" \in DOMAIN j /\ j.lines \in Lines
    /\ j.step \in {"truncate", "write"} => "new" \in DOMAIN j /\ j.new \in Files
    /\ j.step = "apply" => "loaded" \in DOMAIN j /\ j.loaded \in Snapshots

Typed ==
    /\ env \in Lines
    /\ runtime \in Snapshots
    /\ file \in Files
    /\ job = [a \in Admins |-> job[a]]
    /\ \A a \in Admins : Steps(job[a])

Settled == {"interval", "control", "other"}

\* Settings that are what the lines say, where they say something.
Together(lines, settings) ==
    \A field \in Settled :
       Says(lines, field) => MadeGood(Load(lines))[field] = MadeGood(settings)[field]

\* An environment that has taken the lines in.
TookIn(lines, environment) ==
    \A field \in {"interval", "legacy", "control", "other"} :
       lines[field] # "none" => environment[field] = lines[field]

\* What a job that nobody met is about to make of .env, or has made of it, or of the
\* runtime.
Keeps(j, settings, lines, environment) ==
    LET goal == LinesOf(Changed(settings, j.change)) IN
    /\ j.step = "read" => j.lines = goal
    /\ j.step \in {"truncate", "write"} => j.new.lines = goal
    /\ j.step = "set" => lines = goal
    /\ j.step = "load" => TookIn(lines, environment)
    /\ j.step = "apply" => Together(lines, j.loaded)

Following ==
    /\ synced => Together(file.lines, runtime)
    /\ \A a \in Admins :
          /\ job[a].step \in {"write", "set"} => ~synced
          /\ ~up => job[a].step = "idle"
          /\ job[a].step # "idle" /\ job[a].alone =>
                Alone(a) /\ Keeps(job[a], runtime, file.lines, env)

FInv == Typed /\ Following

LEMMA LoadType == ASSUME NEW e \in Lines PROVE Load(e) \in Snapshots
BY DEF Load, OrDefault, Lines, Snapshots, Values

LEMMA LinesOfType == ASSUME NEW s \in Snapshots PROVE LinesOf(s) \in Lines
BY DEF LinesOf, Lines, Snapshots, Values

LEMMA ChangedType ==
    ASSUME NEW s \in Snapshots, NEW c \in AllChanges PROVE Changed(s, c) \in Snapshots
BY DEF Changed, AllChanges, Changes, Snapshots, Values

LEMMA AppliedType ==
    ASSUME NEW lines \in Lines, NEW e \in Lines, NEW protected
    PROVE  Applied(lines, e, protected) \in Lines
<1>1. \A name : Taken(lines, e, protected, "interval", name) \in Values("interval") \union {"none"}
  BY DEF Taken, Lines
<1>2. \A name : Taken(lines, e, protected, "legacy", name) \in Values("control") \union {"none"}
  BY DEF Taken, Lines
<1>3. \A name : Taken(lines, e, protected, "control", name) \in Values("control") \union {"none"}
  BY DEF Taken, Lines
<1>4. \A name : Taken(lines, e, protected, "other", name) \in Values("other") \union {"none"}
  BY DEF Taken, Lines
<1>5. QED
  BY <1>1, <1>2, <1>3, <1>4 DEF Applied, Lines

LEMMA StartType ==
    ASSUME file \in Files PROVE EnvAtStart \in Lines
<1>1. OuterEnv(outer) \in Lines
  BY DEF OuterEnv, Lines, Values
<1>2. file.lines \in Lines
  BY DEF Files
<1>3. Applied(file.lines, OuterEnv(outer), outer) \in Lines
  BY <1>1, <1>2, AppliedType
<1>4. QED
  BY <1>1, <1>3 DEF EnvAtStart

\* What is saved of a snapshot is loaded again, but for an interval that was made good.
LEMMA SavedIsLoaded ==
    ASSUME NEW s \in Snapshots PROVE Together(LinesOf(s), s)
<1>1. MadeGood(Load(LinesOf(s))) = MadeGood(s)
  BY DEF MadeGood, Load, OrDefault, LinesOf, Snapshots, Values
<1>2. QED
  BY <1>1 DEF Together

\* An environment that took the lines in makes the settings they say.
LEMMA TakenInIsLoaded ==
    ASSUME NEW lines \in Lines, NEW e \in Lines, TookIn(lines, e)
    PROVE  Together(lines, Load(e))
<1>1. ASSUME Says(lines, "interval") PROVE Load(lines).interval = Load(e).interval
  BY <1>1 DEF Says, TookIn, Load, Lines
<1>2. ASSUME Says(lines, "control") PROVE Load(lines).control = Load(e).control
  BY <1>2 DEF Says, TookIn, Load, Lines
<1>3. ASSUME Says(lines, "other") PROVE Load(lines).other = Load(e).other
  BY <1>3 DEF Says, TookIn, Load, Lines
<1>4. Load(lines) \in Snapshots /\ Load(e) \in Snapshots
  BY LoadType
<1>5. QED
  BY <1>1, <1>2, <1>3, <1>4 DEF Together, Settled, MadeGood, Snapshots

LEMMA AppliedIsTakenIn ==
    ASSUME NEW lines \in Lines, NEW e \in Lines PROVE TookIn(lines, Applied(lines, e, {}))
BY DEF TookIn, Applied, Taken, Lines

-----------------------------------------------------------------------------

LEMMA InitFollows == Init => FInv
<1> SUFFICES ASSUME Init PROVE FInv
  OBVIOUS
<1>1. /\ job = [a \in Admins |-> NoJob] /\ up /\ ~synced
      /\ file = [key |-> TRUE, lines |-> DefaultLines]
      /\ env = EnvAtStart /\ runtime = Load(env)
  BY DEF Init
<1>2. DefaultLines \in Lines
  BY DEF DefaultLines, Lines, Values
<1>3. file \in Files
  BY <1>1, <1>2 DEF Files
<1>4. env \in Lines
  BY <1>1, <1>3, StartType
<1>5. runtime \in Snapshots
  BY <1>1, <1>4, LoadType
<1>6. \A a \in Admins : job[a] = NoJob
  BY <1>1
<1>7. \A a \in Admins : Steps(job[a]) /\ job[a].step = "idle"
  BY <1>6 DEF Steps, NoJob
<1>8. job = [a \in Admins |-> job[a]]
  BY <1>1
<1>9. QED
  BY <1>1, <1>3, <1>4, <1>5, <1>7, <1>8 DEF FInv, Typed, Following

\* A step of one handler: only its own job changes.
LEMMA OneJob ==
    ASSUME Typed, NEW a \in Admins, NEW new, job' = [job EXCEPT ![a] = new], Steps(new)
    PROVE  /\ job' = [b \in Admins |-> job'[b]]
           /\ job'[a] = new
           /\ \A b \in Admins \ {a} : job'[b] = job[b]
           /\ \A b \in Admins : Steps(job'[b])
BY DEF Typed

\* A handler that met another one keeps all but "alone".
LEMMA MetJob ==
    ASSUME NEW j, Steps(j), j.step # "idle"
    PROVE  LET met == [j EXCEPT !.alone = FALSE]
           IN  Steps(met) /\ met.step = j.step /\ met.alone = FALSE
BY DEF Steps

LEMMA MetJobs ==
    ASSUME Typed, NEW S,
           \A b \in S : job'[b] = Met(job[b]),
           S \subseteq Admins
    PROVE  \A b \in S : /\ Steps(job'[b])
                        /\ job'[b].step = job[b].step
                        /\ job'[b].step # "idle" => job'[b].alone = FALSE
<1> SUFFICES ASSUME NEW b \in S
             PROVE  /\ Steps(job'[b])
                    /\ job'[b].step = job[b].step
                    /\ job'[b].step # "idle" => job'[b].alone = FALSE
  OBVIOUS
<1>1. CASE job[b].step = "idle"
  <2>1. job'[b] = NoJob
    BY <1>1 DEF Met
  <2>2. Steps(NoJob) /\ NoJob.step = "idle"
    BY DEF Steps, NoJob
  <2>3. QED
    BY <1>1, <2>1, <2>2
<1>2. CASE job[b].step # "idle"
  <2>1. Steps(job[b])
    BY DEF Typed
  <2>2. QED
    BY <1>2, <2>1, MetJob DEF Met
<1>3. QED
  BY <1>1, <1>2

\* A request begins: those it meets are not alone any more.
LEMMA Begun ==
    ASSUME FInv, NEW a \in Admins, NEW new, Steps(new),
           job' = [b \in Admins |-> IF b = a THEN new ELSE Met(job[b])],
           up, UNCHANGED <<file, runtime, up, synced>>, env' \in Lines,
           new.step \in {"snapshot", "load"},
           new.alone <=> Alone(a),
           new.step = "load" => TookIn(file.lines, env')
    PROVE  FInv'
<1> USE DEF FInv
<1>1. /\ job' = [b \in Admins |-> job'[b]]
      /\ job'[a] = new
      /\ \A b \in Admins \ {a} : job'[b] = Met(job[b])
  OBVIOUS
<1>2. \A b \in Admins \ {a} : /\ Steps(job'[b])
                              /\ job'[b].step = job[b].step
                              /\ job'[b].step # "idle" => job'[b].alone = FALSE
  BY <1>1, MetJobs
<1>3. Typed'
  BY <1>1, <1>2 DEF Typed
<1>4. ASSUME NEW b \in Admins, job'[b].step # "idle", job'[b].alone
      PROVE  Alone(b)' /\ Keeps(job'[b], runtime', file'.lines, env')
  <2>1. b = a
    BY <1>2, <1>4
  <2>2. Alone(a)'
    BY <1>1, <1>2, <1>4, <2>1 DEF Alone
  <2>3. QED
    BY <1>1, <2>1, <2>2 DEF Keeps
<1>5. \A b \in Admins : job'[b].step \in {"write", "set"} => ~synced'
  BY <1>1, <1>2 DEF Following
<1>6. Following'
  BY <1>4, <1>5 DEF Following
<1>7. QED
  BY <1>3, <1>6

LEMMA BeginFollows ==
    ASSUME FInv, NEW a \in Admins, StartPrompts(a) \/ StartSetting(a) PROVE FInv'
<1> USE DEF FInv
<1>1. PICK change \in AllChanges :
          Begin(a, [step |-> "snapshot", change |-> change, alone |-> Alone(a)])
  <2>1. CASE StartSetting(a)
    BY <2>1 DEF StartSetting, AllChanges
  <2>2. CASE StartPrompts(a)
    <3>1. Prompts(runtime) \in [control : Values("control"), other : Values("other")]
      BY DEF Prompts, Typed, Snapshots
    <3>2. NoPrompts \in [control : Values("control"), other : Values("other")]
      BY DEF NoPrompts, Values
    <3>3. PICK to \in [control : Values("control"), other : Values("other")] :
              Begin(a, [step |-> "snapshot", change |-> [field |-> "prompts", to |-> to],
                        alone |-> Alone(a)])
      BY <2>2, <3>1, <3>2 DEF StartPrompts
    <3>4. [field |-> "prompts", to |-> to] \in AllChanges
      BY DEF AllChanges
    <3>5. QED
      BY <3>3, <3>4
  <2>3. QED
    BY <2>1, <2>2
<1> DEFINE new == [step |-> "snapshot", change |-> change, alone |-> Alone(a)]
<1>2. up /\ UNCHANGED <<file, env, runtime, up, synced>> /\ env' \in Lines
  BY DEF StartPrompts, StartSetting, Typed
<1>3. job' = [b \in Admins |-> IF b = a THEN new ELSE Met(job[b])]
  BY <1>1 DEF Begin
<1>4. Steps(new) /\ new.step = "snapshot" /\ (new.alone <=> Alone(a))
  <2>1. Alone(a) \in BOOLEAN
    BY DEF Alone
  <2>2. QED
    BY <2>1 DEF Steps
<1> HIDE DEF new
<1>5. QED
  BY <1>2, <1>3, <1>4, Begun

LEMMA ReloadBegins == ASSUME FInv, NEW a \in Admins, ReloadDotEnv(a) PROVE FInv'
<1> USE DEF FInv
<1> DEFINE new == [step |-> "load", alone |-> Alone(a)]
<1>1. /\ up /\ UNCHANGED <<file, runtime, up, synced>>
      /\ env' = Applied(file.lines, env, {})
  BY DEF ReloadDotEnv
<1>2. job' = [b \in Admins |-> IF b = a THEN new ELSE Met(job[b])]
  BY DEF ReloadDotEnv, Begin
<1>3. Steps(new) /\ new.step = "load" /\ (new.alone <=> Alone(a))
  <2>1. Alone(a) \in BOOLEAN
    BY DEF Alone
  <2>2. QED
    BY <2>1 DEF Steps
<1> HIDE DEF new
<1>4. env' \in Lines /\ TookIn(file.lines, env')
  BY <1>1, AppliedType, AppliedIsTakenIn DEF Typed, Files
<1>5. QED
  BY <1>1, <1>2, <1>3, <1>4, Begun

\* A handler goes on from a step to the next: what it does alone, it does alone.
LEMMA GoesOn ==
    ASSUME FInv, NEW a \in Admins, NEW new, job' = [job EXCEPT ![a] = new], Steps(new),
           up, UNCHANGED up, job[a].step # "idle",
           runtime' \in Snapshots, UNCHANGED env, file' \in Files,
           new.step # "idle" => new.alone = job[a].alone,
           new.step # "idle" /\ new.alone => Keeps(new, runtime', file'.lines, env'),
           \A b \in Admins \ {a} :
              job[b].step # "idle" /\ job[b].alone => Keeps(job[b], runtime', file'.lines, env'),
           synced' => Together(file.lines, runtime)',
           new.step \in {"write", "set"} => ~synced',
           synced' => synced \/ Alone(a)
    PROVE  FInv'
<1> USE DEF FInv
<1>1. /\ job' = [b \in Admins |-> job'[b]]
      /\ job'[a] = new
      /\ \A b \in Admins \ {a} : job'[b] = job[b]
      /\ \A b \in Admins : Steps(job'[b])
  BY OneJob
<1>2. Typed'
  BY <1>1 DEF Typed
<1>3. ASSUME NEW b \in Admins, job'[b].step # "idle", job'[b].alone
      PROVE  Alone(b)' /\ Keeps(job'[b], runtime', file'.lines, env')
  <2>1. CASE b = a
    <3>1. Alone(a)
      BY <1>1, <1>3, <2>1 DEF Following
    <3>2. Alone(a)'
      BY <1>1, <3>1 DEF Alone
    <3>3. QED
      BY <1>1, <1>3, <2>1, <3>2 DEF Keeps
  <2>2. CASE b # a
    <3>1. Alone(b)
      BY <1>1, <1>3, <2>2 DEF Following
    <3>2. FALSE
      BY <2>2, <3>1 DEF Alone
    <3>3. QED
      BY <3>2
  <2>3. QED
    BY <2>1, <2>2
<1>4. ASSUME NEW b \in Admins, job'[b].step \in {"write", "set"} PROVE ~synced'
  <2>1. CASE b = a
    BY <1>1, <1>4, <2>1
  <2>2. CASE b # a
    <3>1. ~synced /\ ~Alone(a)
      BY <1>1, <1>4, <2>2 DEF Following, Alone
    <3>2. QED
      BY <3>1
  <2>3. QED
    BY <2>1, <2>2
<1>5. Following'
  BY <1>3, <1>4 DEF Following
<1>6. QED
  BY <1>2, <1>5

\* While nobody met it, a handler's change still is the one its file was made for.
LEMMA OthersKeep ==
    ASSUME FInv, NEW a \in Admins, UNCHANGED runtime,
           UNCHANGED env,
           \A b \in Admins \ {a} : job'[b] = job[b],
           UNCHANGED file.lines \/ job[a].step # "idle"
    PROVE  \A b \in Admins \ {a} :
              job[b].step # "idle" /\ job[b].alone => Keeps(job[b], runtime', file'.lines, env')
<1> SUFFICES ASSUME NEW b \in Admins \ {a}, job[b].step # "idle", job[b].alone
             PROVE  Keeps(job[b], runtime', file'.lines, env')
  OBVIOUS
<1>1. Alone(b) /\ Keeps(job[b], runtime, file.lines, env)
  BY DEF FInv, Following
<1>2. UNCHANGED file.lines
  BY <1>1 DEF Alone
<1>3. QED
  BY <1>1, <1>2 DEF Keeps

LEMMA SaveStep ==
    ASSUME FInv, NEW a \in Admins, NEW new, job' = [job EXCEPT ![a] = new], Steps(new),
           up, job[a].step # "idle", UNCHANGED <<up, env, runtime>>, file' \in Files,
           new.step # "idle" => new.alone = job[a].alone,
           new.step # "idle" /\ new.alone => Keeps(new, runtime', file'.lines, env'),
           synced' => synced /\ UNCHANGED file,
           new.step \in {"write", "set"} => ~synced'
    PROVE  FInv'
<1>1. Typed /\ Following
  BY DEF FInv
<1>2. \A b \in Admins \ {a} : job'[b] = job[b]
  BY <1>1, OneJob
<1>3. \A b \in Admins \ {a} :
         job[b].step # "idle" /\ job[b].alone => Keeps(job[b], runtime', file'.lines, env')
  BY <1>2, OthersKeep
<1>4. runtime' \in Snapshots
  BY <1>1 DEF Typed
<1>5. synced' => Together(file.lines, runtime)'
  BY <1>1 DEF Following
<1>6. QED
  BY <1>3, <1>4, <1>5, GoesOn

LEMMA SnapshotFollows == ASSUME FInv, NEW a \in Admins, TakeSnapshot(a) PROVE FInv'
<1> USE DEF FInv
<1> DEFINE goal == LinesOf(Changed(runtime, job[a].change))
           new  == [step |-> "read", change |-> job[a].change, alone |-> job[a].alone,
                    lines |-> goal]
<1>1. /\ up /\ job[a].step = "snapshot"
      /\ job' = [job EXCEPT ![a] = new]
      /\ UNCHANGED <<file, env, runtime, up, synced>>
  BY DEF TakeSnapshot
<1>2. Steps(job[a]) /\ runtime \in Snapshots
  BY DEF Typed
<1>3. goal \in Lines
  BY <1>1, <1>2, ChangedType, LinesOfType DEF Steps
<1>4. Steps(new) /\ new.step = "read" /\ new.alone = job[a].alone /\ Keeps(new, runtime', file'.lines, env')
  BY <1>1, <1>2, <1>3 DEF Steps, Keeps
<1> HIDE DEF new
<1>5. file' \in Files
  BY <1>1 DEF Typed
<1>6. QED
  BY <1>1, <1>4, <1>5, SaveStep

LEMMA ReadFollows == ASSUME FInv, NEW a \in Admins, ReadFile(a) PROVE FInv'
<1> USE DEF FInv
<1> DEFINE text == [key |-> KeyKept(file), lines |-> job[a].lines]
           new  == [step |-> "truncate", change |-> job[a].change, alone |-> job[a].alone,
                    new |-> text]
<1>1. /\ up /\ job[a].step = "read"
      /\ job' = [job EXCEPT ![a] = new]
      /\ UNCHANGED <<file, env, runtime, up, synced>>
  BY DEF ReadFile
<1>2. Steps(job[a])
  BY DEF Typed
<1>3. text \in Files
  BY <1>1, <1>2 DEF Steps, Files, KeyKept, Typed
<1>4. Steps(new) /\ new.step = "truncate" /\ new.alone = job[a].alone
  BY <1>1, <1>2, <1>3 DEF Steps
<1>5. job[a].alone => Keeps(new, runtime', file'.lines, env')
  BY <1>1 DEF Keeps, Following
<1> HIDE DEF new
<1>6. file' \in Files
  BY <1>1 DEF Typed
<1>7. QED
  BY <1>1, <1>4, <1>5, <1>6, SaveStep

LEMMA TruncateFollows == ASSUME FInv, NEW a \in Admins, Truncate(a) PROVE FInv'
<1> USE DEF FInv
<1> DEFINE new == [job[a] EXCEPT !.step = "write"]
<1>1. /\ up /\ job[a].step = "truncate"
      /\ job' = [job EXCEPT ![a] = new]
      /\ file' = [key |-> FALSE, lines |-> NoLines]
      /\ synced' = FALSE
      /\ UNCHANGED <<env, runtime, up>>
  BY DEF Truncate
<1>2. Steps(job[a])
  BY DEF Typed
<1>3. /\ Steps(new) /\ new.step = "write" /\ new.alone = job[a].alone
      /\ new.change = job[a].change /\ new.new = job[a].new
  BY <1>1, <1>2 DEF Steps
<1>4. job[a].alone => Keeps(new, runtime', file'.lines, env')
  <2>1. job[a].alone => job[a].new.lines = LinesOf(Changed(runtime, job[a].change))
    BY <1>1 DEF Following, Keeps
  <2> HIDE DEF new
  <2>2. QED
    BY <1>1, <1>3, <2>1 DEF Keeps
<1> HIDE DEF new
<1>5. file' \in Files
  BY <1>1 DEF Files, NoLines, Lines
<1>6. QED
  BY <1>1, <1>3, <1>4, <1>5, SaveStep

LEMMA WriteFollows == ASSUME FInv, NEW a \in Admins, WriteFile(a) PROVE FInv'
<1> USE DEF FInv
<1> DEFINE new == [step |-> "set", change |-> job[a].change, alone |-> job[a].alone]
<1>1. /\ up /\ job[a].step = "write"
      /\ job' = [job EXCEPT ![a] = new]
      /\ file' = job[a].new
      /\ UNCHANGED <<env, runtime, up, synced>>
  BY DEF WriteFile
<1>2. Steps(job[a]) /\ ~synced
  BY <1>1 DEF Typed, Following
<1>3. Steps(new) /\ new.step = "set" /\ new.alone = job[a].alone
  BY <1>1, <1>2 DEF Steps
<1>4. job[a].alone => Keeps(new, runtime', file'.lines, env')
  BY <1>1 DEF Keeps, Following
<1> HIDE DEF new
<1>5. file' \in Files
  BY <1>1, <1>2 DEF Steps
<1>6. QED
  BY <1>1, <1>2, <1>3, <1>4, <1>5, SaveStep

LEMMA FailsFollows == ASSUME FInv, NEW a \in Admins, SaveFails(a) PROVE FInv'
<1> USE DEF FInv
<1>1. /\ up /\ job[a].step # "idle"
      /\ job' = [job EXCEPT ![a] = NoJob]
      /\ UNCHANGED <<file, env, runtime, up, synced>>
  BY DEF SaveFails
<1>2. Steps(NoJob) /\ NoJob.step = "idle"
  BY DEF Steps, NoJob
<1>3. file' \in Files
  BY <1>1 DEF Typed
<1>4. QED
  BY <1>1, <1>2, <1>3, SaveStep

\* The setter brings the runtime to what was written, if nobody came in between.
LEMMA SetFollows == ASSUME FInv, NEW a \in Admins, SetRuntime(a) PROVE FInv'
<1> USE DEF FInv
<1>1. /\ up /\ job[a].step = "set"
      /\ job' = [job EXCEPT ![a] = NoJob]
      /\ runtime' = Changed(runtime, job[a].change)
      /\ synced' = job[a].alone
      /\ UNCHANGED <<file, env, up>>
  BY DEF SetRuntime
<1>2. Steps(NoJob) /\ NoJob.step = "idle"
  BY DEF Steps, NoJob
<1>3. Steps(job[a]) /\ runtime \in Snapshots
  BY DEF Typed
<1>4. runtime' \in Snapshots
  BY <1>1, <1>3, ChangedType DEF Steps
<1>5. ASSUME job[a].alone PROVE Together(file.lines, runtime)' /\ Alone(a)
  <2>1. file.lines = LinesOf(runtime') /\ Alone(a)
    BY <1>1, <1>5 DEF Following, Keeps
  <2>2. QED
    BY <1>1, <1>4, <2>1, SavedIsLoaded
<1>6. ASSUME NEW b \in Admins \ {a}, job[b].step # "idle", job[b].alone PROVE FALSE
  BY <1>1, <1>6 DEF Following, Alone
<1>7. QED
  BY <1>1, <1>2, <1>3, <1>4, <1>5, <1>6, GoesOn DEF Typed

LEMMA LoadFollows == ASSUME FInv, NEW a \in Admins, LoadConfig(a) PROVE FInv'
<1> USE DEF FInv
<1> DEFINE new == [step |-> "apply", alone |-> job[a].alone, loaded |-> Load(env)]
<1>1. /\ up /\ job[a].step = "load"
      /\ job' = [job EXCEPT ![a] = new]
      /\ UNCHANGED <<file, env, runtime, up, synced>>
  BY DEF LoadConfig
<1>2. Steps(job[a]) /\ Load(env) \in Snapshots
  BY LoadType DEF Typed
<1>3. Steps(new) /\ new.step = "apply" /\ new.alone = job[a].alone /\ new.loaded = Load(env)
  BY <1>1, <1>2 DEF Steps
<1> HIDE DEF new
<1>4. job[a].alone => Keeps(new, runtime', file'.lines, env')
  <2>1. job[a].alone => TookIn(file.lines, env)
    BY <1>1 DEF Following, Keeps
  <2>2. job[a].alone => Together(file.lines, Load(env))
    BY <2>1, TakenInIsLoaded DEF Typed, Files
  <2>3. QED
    BY <1>1, <1>3, <2>2 DEF Keeps
<1>5. file' \in Files
  BY <1>1 DEF Typed
<1>6. QED
  BY <1>1, <1>3, <1>4, <1>5, SaveStep

LEMMA ApplyFollows == ASSUME FInv, NEW a \in Admins, ApplySnapshot(a) PROVE FInv'
<1> USE DEF FInv
<1>1. /\ up /\ job[a].step = "apply"
      /\ job' = [job EXCEPT ![a] = NoJob]
      /\ runtime' = job[a].loaded
      /\ synced' = job[a].alone
      /\ UNCHANGED <<file, env, up>>
  BY DEF ApplySnapshot
<1>2. Steps(NoJob) /\ NoJob.step = "idle"
  BY DEF Steps, NoJob
<1>3. Steps(job[a])
  BY DEF Typed
<1>4. runtime' \in Snapshots
  BY <1>1, <1>3 DEF Steps
<1>5. ASSUME job[a].alone PROVE Together(file.lines, runtime)' /\ Alone(a)
  BY <1>1, <1>5 DEF Following, Keeps
<1>6. ASSUME NEW b \in Admins \ {a}, job[b].step # "idle", job[b].alone PROVE FALSE
  BY <1>1, <1>6 DEF Following, Alone
<1>7. QED
  BY <1>1, <1>2, <1>3, <1>4, <1>5, <1>6, GoesOn DEF Typed

LEMMA EditedType == ASSUME NEW lines \in Lines PROVE Edited(lines) \subseteq Lines
<1>1. \A v \in Values("interval") \union {"none"} : [lines EXCEPT !.interval = v] \in Lines
  BY DEF Lines
<1>2. \A v \in Values("control") \union {"none"} : [lines EXCEPT !.legacy = v] \in Lines
  BY DEF Lines
<1>3. \A v \in [control : Values("control"), other : Values("other")]
                 \union {[control |-> "none", other |-> "none"]} :
         [lines EXCEPT !.control = v.control, !.other = v.other] \in Lines
  <2> SUFFICES ASSUME NEW v \in [control : Values("control"), other : Values("other")]
                                 \union {[control |-> "none", other |-> "none"]}
               PROVE  [lines EXCEPT !.control = v.control, !.other = v.other] \in Lines
    OBVIOUS
  <2>1. /\ v.control \in Values("control") \union {"none"}
        /\ v.other \in Values("other") \union {"none"}
    OBVIOUS
  <2>2. QED
    BY <2>1 DEF Lines
<1>4. QED
  BY <1>1, <1>2, <1>3 DEF Edited

\* Whom an edit meets at work is not alone any more.
LEMMA EditFollows == ASSUME FInv, Edit PROVE FInv'
<1> USE DEF FInv
<1>1. /\ job' = [b \in Admins |-> Met(job[b])]
      /\ ~synced' /\ UNCHANGED <<env, runtime, up>>
  BY DEF Edit
<1>2. file' \in Files
  BY EditedType DEF Edit, Typed, Files
<1>3. /\ job' = [b \in Admins |-> job'[b]]
      /\ \A b \in Admins : /\ Steps(job'[b])
                           /\ job'[b].step = job[b].step
                           /\ job'[b].step # "idle" => job'[b].alone = FALSE
  BY <1>1, MetJobs
<1>4. Typed'
  BY <1>1, <1>2, <1>3 DEF Typed
<1>5. Following'
  BY <1>1, <1>3 DEF Following
<1>6. QED
  BY <1>4, <1>5

LEMMA RepairFollows == ASSUME FInv, Repair PROVE FInv'
<1> USE DEF FInv
<1>1. Quiet /\ ~synced' /\ UNCHANGED <<env, runtime, up, job>>
  BY DEF Repair
<1>2. file' \in Files
  BY DEF Repair, Files, DefaultLines, Lines, Values
<1>3. Typed'
  BY <1>1, <1>2 DEF Typed
<1>4. Following'
  BY <1>1 DEF Following, Quiet
<1>5. QED
  BY <1>3, <1>4

LEMMA ProcessFollows == ASSUME FInv, Stop \/ Start PROVE FInv'
<1> USE DEF FInv
<1>1. /\ UNCHANGED file
      /\ job' = [a \in Admins |-> job'[a]]
      /\ \A a \in Admins : Steps(job'[a]) /\ job'[a].step = "idle"
  <2>1. CASE Stop
    <3>1. \A a \in Admins : job'[a] = NoJob
      BY <2>1 DEF Stop
    <3>2. Steps(NoJob) /\ NoJob.step = "idle"
      BY DEF Steps, NoJob
    <3>3. QED
      BY <2>1, <3>1, <3>2 DEF Stop
  <2>2. CASE Start
    BY <2>2 DEF Start, Following, Typed
  <2>3. QED
    BY <2>1, <2>2
<1>2. env' \in Lines /\ runtime' \in Snapshots
  BY StartType, LoadType DEF Stop, Start, Typed
<1>3. synced' => Together(file.lines, runtime)'
  BY DEF Stop, Start, Following
<1>4. Typed'
  BY <1>1, <1>2 DEF Typed
<1>5. Following'
  BY <1>1, <1>3 DEF Following
<1>6. QED
  BY <1>4, <1>5

LEMMA OtherFollows ==
    ASSUME FInv, UNCHANGED <<file, env, runtime, up, job, synced>> PROVE FInv'
BY DEF FInv, Typed, Following, Alone

LEMMA NextFollows == ASSUME FInv, [Next]_vars PROVE FInv'
<1>1. ASSUME NEW a \in Admins,
             \/ StartPrompts(a) \/ StartSetting(a) \/ TakeSnapshot(a) \/ ReadFile(a)
             \/ Truncate(a) \/ WriteFile(a) \/ SaveFails(a) \/ SetRuntime(a)
             \/ ReloadDotEnv(a) \/ LoadConfig(a) \/ ApplySnapshot(a)
      PROVE  FInv'
  BY <1>1, BeginFollows, SnapshotFollows, ReadFollows, TruncateFollows, WriteFollows,
     FailsFollows, SetFollows, ReloadBegins, LoadFollows, ApplyFollows
<1>2. CASE Edit \/ Repair \/ Stop \/ Start
  BY <1>2, EditFollows, RepairFollows, ProcessFollows
<1>3. ASSUME NEW k \in Users, AddRegularKey(k) \/ DeleteRegularKey(k) PROVE FInv'
  BY <1>3, OtherFollows DEF AddRegularKey, DeleteRegularKey
<1>4. CASE UNCHANGED vars
  BY <1>4, OtherFollows DEF vars
<1>5. QED
  BY <1>1, <1>2, <1>3, <1>4 DEF Next

\* In every behaviour a save that met no other request writes what the runtime has, or is
\* going to have, whether one of the settings' handlers or HandleSetPrompts began it.
THEOREM FollowingHolds == Spec => []FInv
BY InitFollows, NextFollows, PTL DEF Spec

(* Whatever saves, reloads, hand edits, failures and crashes went before, a save or a  *)
(* reload that no other request and no edit met leaves the runtime as .env says, in    *)
(* every setting of which it says something: one whose line was taken out is not       *)
(* spoken of.                                                                          *)
THEOREM FileFollowsRuntimeHolds == Spec => []FileFollowsRuntime
<1>1. ASSUME FInv PROVE FileFollowsRuntime
  <2>1. DOMAIN runtime = Settled
    BY <1>1 DEF FInv, Typed, Snapshots, Settled
  <2>2. QED
    BY <1>1, <2>1 DEF FInv, Following, Together, FileFollowsRuntime
<1>2. QED
  BY FollowingHolds, <1>1, PTL

\* A start loads the lines of .env, except what the outer environment names.
LEMMA StartKeeps ==
    ASSUME FInv, Start, synced, Readable(file),
           NEW field \in DOMAIN runtime, Says(file.lines, field), ~NamedOutside(field)
    PROVE  MadeGood(runtime')[field] = MadeGood(runtime)[field]
<1> DEFINE loaded == Applied(file.lines, OuterEnv(outer), outer)
<1>1. /\ runtime \in Snapshots
      /\ file.lines \in Lines
      /\ Together(file.lines, runtime)
  BY DEF FInv, Typed, Following, Files
<1>2. runtime' = Load(loaded) /\ EnvAtStart = loaded
  BY DEF Start, EnvAtStart
<1>3. field \in Settled
  BY <1>1 DEF Snapshots, Settled
<1>4. MadeGood(Load(file.lines))[field] = MadeGood(runtime)[field]
  BY <1>1, <1>3 DEF Together
<1>5. MadeGood(Load(loaded))[field] = MadeGood(Load(file.lines))[field]
  <2>1. CASE field = "interval"
    <3>1. loaded.interval = file.lines.interval
      BY <2>1 DEF Applied, Taken, NamedOutside, Says
    <3>2. QED
      BY <2>1, <3>1 DEF MadeGood, Load
  <2>2. CASE field = "control"
    <3>1. /\ loaded.control = file.lines.control
          /\ file.lines.control = "default" => loaded.legacy = file.lines.legacy
      BY <2>2 DEF Applied, Taken, NamedOutside, Says
    <3>2. file.lines.control # "none"
      BY <2>2 DEF Says
    <3>3. QED
      BY <2>2, <3>1, <3>2 DEF MadeGood, Load
  <2>3. CASE field = "other"
    <3>1. loaded.other = file.lines.other
      BY <2>3 DEF Applied, Taken, NamedOutside, Says
    <3>2. QED
      BY <2>3, <3>1 DEF MadeGood, Load
  <2>4. QED
    BY <1>3, <2>1, <2>2, <2>3 DEF Settled
<1>6. QED
  BY <1>2, <1>4, <1>5

(* A restart after a save or a reload brings back the settings that were in force, all *)
(* but those that the outer environment names or whose line was taken out, from a .env *)
(* that can be read.                                                                   *)
THEOREM RestartKeepsSettingsHolds == Spec => RestartKeepsSettings
<1>1. FInv /\ [Next]_vars =>
         [Start /\ synced /\ Readable(file) =>
            \A field \in DOMAIN runtime :
               Says(file.lines, field) /\ ~NamedOutside(field) =>
                   MadeGood(runtime')[field] = MadeGood(runtime)[field]]_vars
  BY StartKeeps
<1>2. QED
  BY FollowingHolds, <1>1, PTL DEF Spec, RestartKeepsSettings

-----------------------------------------------------------------------------
(* The keyring lists no key twice that API_KEY does not, so that a deletion, which takes *)
(* out one entry, takes out the key.                                                     *)

Once(s, k) == \A i, j \in DOMAIN s : s[i] = k /\ s[j] = k => i = j

Ring == keys \in Seq(Users) /\ \A k \in Users : ~NamedTwice(k) => Once(keys, k)

\* Without its position i a list has its other elements, as often as before.
LEMMA WithoutOne ==
    ASSUME NEW s \in Seq(Users), NEW i \in DOMAIN s
    PROVE  /\ RemoveAt(s, i) \in Seq(Users)
           /\ \A k : Once(s, k) => Once(RemoveAt(s, i), k)
           /\ Once(s, s[i]) => s[i] \notin ToSet(RemoveAt(s, i))
<1>1. i \in 1..Len(s) /\ Len(s) \in Nat
  OBVIOUS
<1> DEFINE l == SubSeq(s, 1, i - 1)
           r == SubSeq(s, i + 1, Len(s))
           from(j) == IF j < i THEN j ELSE j + 1
<1>2. /\ l \in Seq(Users)
      /\ Len(l) = i - 1
      /\ \A j \in 1..(i - 1) : l[j] = s[j]
  BY <1>1
<1>3. /\ r \in Seq(Users)
      /\ Len(r) = Len(s) - i
      /\ \A j \in 1..(Len(s) - i) : r[j] = s[j + i]
  BY <1>1
<1>4. RemoveAt(s, i) = l \o r
  BY DEF RemoveAt
<1> HIDE DEF l, r
<1>5. /\ l \o r \in Seq(Users)
      /\ Len(l \o r) = Len(s) - 1
  BY <1>1, <1>2, <1>3, ConcatProperties
<1>6. ASSUME NEW j \in 1..(Len(s) - 1)
      PROVE  (l \o r)[j] = s[from(j)] /\ from(j) \in DOMAIN s /\ from(j) # i
  <2>1. CASE j < i
    <3>1. (l \o r)[j] = l[j]
      BY <1>1, <1>2, <1>3, <2>1, ConcatProperties
    <3>2. l[j] = s[j]
      BY <1>1, <1>2, <2>1
    <3>3. from(j) = j /\ j \in DOMAIN s /\ j # i
      BY <1>1, <2>1
    <3> HIDE DEF from
    <3>4. QED
      BY <3>1, <3>2, <3>3
  <2>2. CASE j >= i
    <3>1. (l \o r)[j] = r[j - (i - 1)]
      BY <1>1, <1>2, <1>3, <2>2, ConcatProperties
    <3>2. r[j - (i - 1)] = s[j + 1]
      BY <1>1, <1>3, <2>2
    <3>3. from(j) = j + 1 /\ j + 1 \in DOMAIN s /\ j + 1 # i
      BY <1>1, <2>2
    <3> HIDE DEF from
    <3>4. QED
      BY <3>1, <3>2, <3>3
  <2>3. j < i \/ j >= i
    BY <1>1
  <2> HIDE DEF from
  <2>4. QED
    BY <2>1, <2>2, <2>3
<1>7. DOMAIN (l \o r) = 1..(Len(s) - 1)
  BY <1>5
<1>8. ASSUME NEW k, Once(s, k),
             NEW i1 \in DOMAIN (l \o r), NEW i2 \in DOMAIN (l \o r),
             (l \o r)[i1] = k, (l \o r)[i2] = k
      PROVE  i1 = i2
  <2>1. /\ (l \o r)[i1] = s[from(i1)] /\ from(i1) \in DOMAIN s
        /\ (l \o r)[i2] = s[from(i2)] /\ from(i2) \in DOMAIN s
    BY <1>6, <1>7
  <2>2. from(i1) = from(i2)
    <3> HIDE DEF from
    <3>1. QED
      BY <1>8, <2>1 DEF Once
  <2>3. QED
    BY <1>1, <1>7, <2>2
<1>9. ASSUME Once(s, s[i]) PROVE s[i] \notin ToSet(l \o r)
  <2>1. \A j \in DOMAIN (l \o r) : (l \o r)[j] # s[i]
    <3> HIDE DEF from
    <3>1. QED
      BY <1>6, <1>7, <1>9 DEF Once
  <2>2. QED
    BY <2>1 DEF ToSet
<1>10. \A k : Once(s, k) => Once(l \o r, k)
  BY <1>8 DEF Once
<1>11. QED
  BY <1>4, <1>5, <1>9, <1>10

\* Among positions there is a first.
LEMMA Lowest == ASSUME NEW S \in SUBSET Nat, S # {} PROVE \E m \in S : \A i \in S : m <= i
<1>1. IsWellFoundedOn(OpToRel(<, Nat), Nat)
  BY NatLessThanWellFounded
<1>2. PICK m \in S : \A i \in S : <<i, m>> \notin OpToRel(<, Nat)
  <2> HIDE DEF OpToRel
  <2>1. QED
    BY <1>1, WFMin
<1>3. \A i \in S : i \in Nat /\ m \in Nat /\ ~(i < m)
  BY <1>2 DEF OpToRel
<1>4. QED
  BY <1>3

LEMMA FirstOf == ASSUME NEW n \in Nat, NEW S \in SUBSET (1..n), S # {} PROVE Min(S) \in S
<1>1. S \in SUBSET Nat
  OBVIOUS
<1>2. QED
  BY <1>1, Lowest DEF Min

LEMMA DeletionFacts ==
    ASSUME NEW s \in Seq(Users), NEW k \in ToSet(s)
    PROVE  /\ RemoveFirst(s, k) \in Seq(Users)
           /\ \A u : Once(s, u) => Once(RemoveFirst(s, k), u)
           /\ Once(s, k) => k \notin ToSet(RemoveFirst(s, k))
<1> DEFINE at == {j \in 1..Len(s) : s[j] = k}
           i  == Min(at)
<1>1. Len(s) \in Nat /\ DOMAIN s = 1..Len(s)
  OBVIOUS
<1>2. at \in SUBSET (1..Len(s)) /\ at # {}
  BY <1>1 DEF ToSet
<1>3. i \in at
  <2> HIDE DEF at
  <2>1. QED
    BY <1>1, <1>2, FirstOf
<1>4. SelectInSeq(s, LAMBDA v : v = k) = i
  BY <1>2 DEF SelectInSeq
<1>5. i \in DOMAIN s /\ s[i] = k
  <2> HIDE DEF i
  <2>1. QED
    BY <1>1, <1>3
<1> HIDE DEF i, at
<1>6. RemoveFirst(s, k) = RemoveAt(s, i)
  BY <1>1, <1>4, <1>5 DEF RemoveFirst
<1>7. QED
  BY <1>5, <1>6, WithoutOne

LEMMA RingStep == ASSUME Ring, [Next]_vars PROVE Ring'
<1> USE DEF Ring
<1>1. ASSUME NEW k \in Users, AddRegularKey(k) PROVE Ring'
  <2>1. keys' = Append(keys, k) /\ k \notin ToSet(keys)
    BY <1>1 DEF AddRegularKey
  <2>2. \A i \in DOMAIN keys : keys[i] # k
    BY <2>1 DEF ToSet
  <2>3. /\ keys' \in Seq(Users)
        /\ DOMAIN keys' = DOMAIN keys \union {Len(keys) + 1}
        /\ \A i \in DOMAIN keys : keys'[i] = keys[i]
        /\ keys'[Len(keys) + 1] = k
    BY <2>1
  <2>4. ASSUME NEW u \in Users, Once(keys, u) PROVE Once(keys', u)
    BY <2>2, <2>3, <2>4 DEF Once
  <2>5. \A u \in Users : NamedTwice(u)' <=> NamedTwice(u)
    BY DEF NamedTwice
  <2>6. QED
    BY <2>3, <2>4, <2>5
<1>2. ASSUME NEW k \in Users, DeleteRegularKey(k) PROVE Ring'
  BY <1>2, DeletionFacts DEF DeleteRegularKey
<1>3. CASE Start
  <2>1. keys' = ApiKeys
    BY <1>3 DEF Start, KeysAtStart
  <2>2. QED
    BY <2>1, KeysAssumption DEF Once, NamedTwice
<1>4. ASSUME UNCHANGED keys PROVE Ring'
  BY <1>4 DEF Once, NamedTwice
<1>5. ASSUME NEW a \in Admins,
             \/ StartPrompts(a) \/ StartSetting(a) \/ TakeSnapshot(a) \/ ReadFile(a)
             \/ Truncate(a) \/ WriteFile(a) \/ SaveFails(a) \/ SetRuntime(a)
             \/ ReloadDotEnv(a) \/ LoadConfig(a) \/ ApplySnapshot(a)
      PROVE  UNCHANGED keys
  BY <1>5 DEF StartPrompts, StartSetting, TakeSnapshot, ReadFile, Truncate, WriteFile,
              SaveFails, SetRuntime, ReloadDotEnv, LoadConfig, ApplySnapshot
<1>6. CASE Edit \/ Repair \/ Stop \/ UNCHANGED vars
  BY <1>4, <1>6 DEF Edit, Repair, Stop, vars
<1>7. QED
  BY <1>1, <1>2, <1>3, <1>4, <1>5, <1>6 DEF Next

(* Whatever was added and deleted before, a key that DeleteRegularKey is asked to take *)
(* out of the ring is not in it afterwards, unless API_KEY names it twice.             *)
THEOREM DeletedKeyIsOutHolds == Spec => DeletedKeyIsOut
<1>1. Init => Ring
  BY KeysAssumption DEF Init, Ring, Once, NamedTwice
<1>2. Ring /\ [Next]_vars => Ring'
  BY RingStep
<1>3. ASSUME Ring, NEW k \in Users, DeleteRegularKey(k), ~NamedTwice(k)
      PROVE  k \notin ToSet(keys')
  BY <1>3, DeletionFacts DEF Ring, DeleteRegularKey
<1>4. Ring /\ [Next]_vars =>
         [\A k \in Users :
             DeleteRegularKey(k) /\ ~NamedTwice(k) => k \notin ToSet(keys')]_vars
  BY <1>3
<1>5. QED
  BY <1>1, <1>2, <1>4, PTL DEF Spec, DeletedKeyIsOut
=============================================================================
