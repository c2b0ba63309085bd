--------------------------- MODULE AppStateProofs ---------------------------
(***************************************************************************)
(* Proofs about AppState: where the settings come from, which of them are  *)
(* in effect, and what a reload may change, for every set of options and   *)
(* files, every number of edits and reloads, and with or without root.     *)
(***************************************************************************)
EXTENDS AppState, TLAPS

-----------------------------------------------------------------------------
(* The inductive invariant *)

\* The steps at which the settings are as they were merged, and those at which
\* ensureNonRoot has been over them.
Raw  == {"init", "daemonize", "pid", "user", "refresh"}
Full == {"relog", "repid", "config", "serve"}

Starting == {"init", "daemonize", "pid", "user"}
Later    == {"refresh", "relog", "repid", "config", "serve"}

PCs == {"parse", "reload", "failed"} \cup Starting \cup Later

\* Where the process is, and what it cannot have done there.
PlaceInv ==
    /\ pc \in PCs
    /\ initialized \in BOOLEAN
    /\ orig = [k \in Keys |-> orig[k]]
    /\ cwd \in {Home, "/"}
    /\ cwd = "/" => Unixd
    /\ pc = "parse" => ~initialized /\ cwd = Home /\ read = NoEntries /\ before = Unset
    /\ pc \in Starting => ~initialized
    /\ pc = "daemonize" => Unixd
    /\ pc \in Later => initialized
    /\ pc \in {"daemonize", "pid", "user"} \/ initialized \/ cwd = Home \/ pc = "failed"
    /\ ~HasConfigFile => read = NoEntries

\* What loading a file that says r may give.  The command line is merged with
\* it where the program was started, or in the directory "/", where the file
\* itself may be out of reach.
Loads(r) ==
    {Merged(orig, r, Home)} \cup
    (IF ReadAnew(r) THEN {Merged(orig, f, "/") : f \in {r, NoEntries}} ELSE {})

\* The settings are a load of the file last read; from ensureNonRoot on they
\* have an account and a root directory, too.
LoadInv ==
    /\ pc \in Raw => current \in Loads(read)
    /\ pc \in Full \/ (pc = "reload" /\ initialized) =>
           \E s \in Loads(read) : current = EnsureNonRoot(s)
    /\ before # Unset =>
           \E s \in Loads(before[1]) : before[2] = EnsureNonRoot(s)

\* What a noted level and a noted log file stand for.
LevelOf(x)  == IF x = Unset THEN 4 ELSE x[2]
TargetOf(x) == IF x # Unset THEN x ELSE IF Unixd THEN <<"null">> ELSE <<"console">>

\* What refresh compares with is what is in effect ...
LogNoted ==
    /\ effect.level = LevelOf(applied.level)
    /\ effect.logTo = TargetOf(applied.logFile)

PidNoted == effect.pidFile = applied.pidFile

\* ... and what the settings say.
LogFollows == applied.level = current["log-level"] /\ applied.logFile = current["log-file"]

PidFollows == applied.pidFile = current["pid-file"]

NoteInv ==
    /\ applied = [level |-> applied.level, logFile |-> applied.logFile, pidFile |-> applied.pidFile]
    /\ effect = [level |-> effect.level, logTo |-> effect.logTo, pidFile |-> effect.pidFile]
    /\ pc \in {"daemonize", "pid", "user"} \cup Later \/ (pc = "reload" /\ initialized) => LogNoted
    /\ pc = "user" \/ pc \in Later \/ (pc = "reload" /\ initialized) => PidNoted
    /\ pc \in {"daemonize", "pid", "user", "repid", "config", "serve"} \/ (pc = "reload" /\ initialized) => LogFollows
    /\ pc \in {"user", "config", "serve"} \/ (pc = "reload" /\ initialized) => PidFollows

ServerInv == pc = "serve" => server = ServerOf(current)

AppInd == PlaceInv /\ LoadInv /\ NoteInv /\ ServerInv
-----------------------------------------------------------------------------
(* Lemmas about the settings *)

\* Only a relative path depends on the directory it is read in.
LEMMA FromFileAnywhere ==
    ASSUME NEW k, NEW v, NEW a, NEW b, v[1] # "rel"
    PROVE  FromFile(k, v, a) = FromFile(k, v, b)
  <1>1. Absolute(v, a) = Absolute(v, b)
    BY DEF Absolute
  <1>2. TakenPath(k, v, a) = TakenPath(k, v, b)
    BY <1>1 DEF TakenPath
  <1> QED
    BY <1>2 DEF FromFile

\* A merge takes the command line's setting, else the file's.
LEMMA MergedAt ==
    ASSUME NEW cl, NEW f, NEW d, NEW k \in Keys
    PROVE  Merged(cl, f, d)[k] = IF k \notin FileKeys \/ cl[k] # Unset \/ f[k] = Unset
                                 THEN cl[k] ELSE FromFile(k, f[k], d)
  BY DEF Merged

\* Merging nothing changes nothing.
LEMMA MergedNone ==
    ASSUME NEW cl, NEW d, cl = [k \in Keys |-> cl[k]]
    PROVE  Merged(cl, NoEntries, d) = cl
  <1>1. \A k \in Keys : Merged(cl, NoEntries, d)[k] = cl[k]
    BY MergedAt DEF NoEntries
  <1>2. Merged(cl, NoEntries, d) = [k \in Keys |-> cl[k]]
    BY <1>1 DEF Merged
  <1> QED
    BY <1>2

\* A file without relative paths is merged alike in every directory.
LEMMA MergedAnywhere ==
    ASSUME NEW cl, NEW f, NEW a, NEW b,
           \A k \in FileKeys : f[k] # Unset => f[k][1] # "rel"
    PROVE  Merged(cl, f, a) = Merged(cl, f, b)
  <1>1. \A k \in Keys : (IF k \notin FileKeys \/ cl[k] # Unset \/ f[k] = Unset
                         THEN cl[k] ELSE FromFile(k, f[k], a))
                      = (IF k \notin FileKeys \/ cl[k] # Unset \/ f[k] = Unset
                         THEN cl[k] ELSE FromFile(k, f[k], b))
    BY FromFileAnywhere
  <1> QED
    BY <1>1 DEF Merged

\* ensureNonRoot only fills in an account and a root directory, as root.
LEMMA EnsureAt ==
    ASSUME NEW c, c = [k \in Keys |-> c[k]], NEW k \in Keys
    PROVE  /\ c[k] # Unset \/ k \notin {"user", "chroot"} \/ ~Root => EnsureNonRoot(c)[k] = c[k]
           /\ Root /\ c["user"] = Unset => EnsureNonRoot(c)["user"] = <<"id", "wsddn", "primary">>
  <1>1. "user" \in Keys /\ "chroot" \in Keys
    BY DEF Keys, FileKeys, PathKeys, TextKeys
  <1> QED
    BY <1>1 DEF EnsureNonRoot

\* Every load is a merge of the command line with the file or with nothing.
LEMMA LoadIsMerge ==
    ASSUME NEW r, NEW s \in Loads(r)
    PROVE  \E f \in {r, NoEntries}, d \in {Home, "/"} : s = Merged(orig, f, d)
  BY DEF Loads

\* What reload merges is a load of what the file says.
LEMMA ReloadLoads ==
    ASSUME PlaceInv, HasConfigFile
    PROVE  Merged(orig, Content, cwd) \in Loads(Written)
  <1>1. CASE cwd = Home
    <2>1. Readable <=> file # Unset
      BY <1>1 DEF Readable
    <2>2. Content = Written
      BY <2>1 DEF Content, Written
    <2> QED
      BY <1>1, <2>2 DEF Loads
  <1>2. CASE cwd = "/" /\ ReadAnew(Written)
    <2>1. Content \in {Written, NoEntries}
      BY DEF Content, Written, Readable
    <2> QED
      BY <1>2, <2>1 DEF Loads
  <1>3. CASE cwd = "/" /\ ~ReadAnew(Written)
    <2>1. Unixd
      BY <1>3 DEF PlaceInv
    <2>2. /\ orig["config"][1] # "rel"
          /\ \A k \in FileKeys : Written[k] # Unset => Written[k][1] # "rel"
      BY <1>3, <2>1 DEF ReadAnew
    <2>3. Absolute(orig["config"], cwd) = Absolute(orig["config"], Home)
      BY <2>2 DEF Absolute
    <2>4. Content = Written
      BY <2>3 DEF Content, Written, Readable
    <2>5. Merged(orig, Content, cwd) = Merged(orig, Written, Home)
      BY <2>2, <2>4, MergedAnywhere
    <2> QED
      BY <2>5 DEF Loads
  <1> QED
    BY <1>1, <1>2, <1>3 DEF PlaceInv

-----------------------------------------------------------------------------
(* The invariant is inductive *)

\* The steps that leave settings, notes and history alone: the process fails,
\* or forks, or its launcher reads the report, or the file is edited.
Aside ==
    /\ UNCHANGED <<orig, current, initialized, applied, effect, server, read, before>>
    /\ \/ pc' = "failed" /\ cwd' = cwd
       \/ pc' = pc /\ cwd' = cwd
       \/ pc = "daemonize" /\ pc' = "pid" /\ cwd' = "/"

LEMMA StepKinds ==
    ASSUME [ANext]_avars
    PROVE  \/ Aside
           \/ \E opt \in Options : ParseOption(opt[1], opt[2])
           \/ Parsed \/ ReloadFile \/ ReloadNoFile \/ InitLog \/ InitPidFile \/ InitUser
           \/ RefreshUser \/ RefreshLog \/ RefreshPidFile \/ Serve \/ Hup
  <1> USE DEF Aside, parsevars, procvars, envvars, histvars, loadvars, Fails
  <1>1. CASE UNCHANGED avars
    BY <1>1 DEF avars
  <1>2. ASSUME NEW opt \in Options, RefuseOption(opt[1], opt[2]) \/ RefuseRepeated(opt[1])
        PROVE  Aside
    BY <1>2 DEF RefuseOption, RefuseRepeated
  <1>3. RefuseTogether => Aside
    BY DEF RefuseTogether
  <1>4. NoUser => Aside
    BY DEF NoUser
  <1>5. Throws => Aside
    BY DEF Throws
  <1>6. DaemonizeFork => Aside
    BY DEF DaemonizeFork
  <1>7. DaemonizeReport => Aside
    BY DEF DaemonizeReport
  <1>8. LauncherReads => Aside
    BY DEF LauncherReads
  <1>9. EditFile => Aside
    BY DEF EditFile
  <1> HIDE DEF Aside
  <1>10. CASE \E opt \in Options : RefuseOption(opt[1], opt[2]) \/ RefuseRepeated(opt[1])
    BY <1>2, <1>10
  <1>11. CASE Load
    BY <1>3, <1>4, <1>6, <1>7, <1>11 DEF Load
  <1>12. CASE ANext
    BY <1>5, <1>8, <1>9, <1>10, <1>11, <1>12 DEF ANext
  <1> QED
    BY <1>1, <1>12

\* The program starts with nothing set, noted or read.
LEMMA AInitInd == AInit => AppInd
  <1> SUFFICES ASSUME AInit PROVE AppInd
    OBVIOUS
  <1>1. PlaceInv
    BY AppStateAssumption DEF AInit, PlaceInv, PCs, Starting, Later, NoSettings
  <1>2. LoadInv /\ NoteInv /\ ServerInv
    BY DEF AInit, LoadInv, NoteInv, ServerInv, Raw, Full, Later
  <1> QED
    BY <1>1, <1>2 DEF AppInd

\* An option changes the command line, and it is still one setting per key.
LEMMA ParsePlace ==
    ASSUME PlaceInv, NEW o, NEW v, ParseOption(o, v)
    PROVE  PlaceInv'
  <1>1. pc = "parse" /\ pc' = pc
    BY DEF ParseOption
  <1>2. UNCHANGED <<cwd, initialized, read, before>>
    BY DEF ParseOption, procvars, loadvars, histvars
  <1>3. cwd = Home /\ read = NoEntries /\ before = Unset /\ ~initialized
    BY <1>1 DEF PlaceInv
  <1>4. orig' = [k \in Keys |-> orig'[k]]
    BY DEF ParseOption, WithOption, PlaceInv
  <1> QED
    BY <1>1, <1>2, <1>3, <1>4, AppStateAssumption DEF PlaceInv, PCs, Starting, Later

\* Where the process is, over every step.
LEMMA PlaceStep ==
    ASSUME PlaceInv, [ANext]_avars
    PROVE  PlaceInv'
  <1> USE AppStateAssumption DEF PlaceInv, PCs, Starting, Later, Unixd, HasConfigFile, parsevars, procvars, histvars
  <1>1. CASE Aside
    BY <1>1 DEF Aside
  <1>2. ASSUME NEW opt \in Options, ParseOption(opt[1], opt[2]) PROVE PlaceInv'
    BY <1>2, ParsePlace
  <1>3. CASE Parsed
    BY <1>3 DEF Parsed
  <1>4. CASE ReloadFile
    BY <1>4 DEF ReloadFile
  <1>5. CASE ReloadNoFile
    BY <1>5 DEF ReloadNoFile
  <1>6. CASE InitLog
    BY <1>6 DEF InitLog
  <1>7. CASE InitPidFile
    BY <1>7 DEF InitPidFile
  <1>11. CASE InitUser
    BY <1>11 DEF InitUser
  <1>8. CASE RefreshUser \/ RefreshLog \/ RefreshPidFile
    BY <1>8 DEF RefreshUser, RefreshLog, RefreshPidFile
  <1>9. CASE Serve
    BY <1>9 DEF Serve
  <1>10. CASE Hup
    BY <1>10 DEF Hup
  <1> HIDE DEF PlaceInv
  <1> QED
    BY <1>1, <1>2, <1>3, <1>4, <1>5, <1>6, <1>7, <1>8, <1>9, <1>10, <1>11, StepKinds

\* The last part of LoadInv, of what was in force when the program last served.
BeforeInv == before # Unset => \E s \in Loads(before[1]) : before[2] = EnsureNonRoot(s)

\* While command line and history stay, so do the loads they allow.
LEMMA LoadsStay ==
    ASSUME orig' = orig
    PROVE  /\ read' = read => Loads(read)' = Loads(read)
           /\ before' = before /\ BeforeInv => BeforeInv'
           /\ before' = <<read, current>> /\ (\E s \in Loads(read) : current = EnsureNonRoot(s)) => BeforeInv'
  <1>1. read' = read => Loads(read)' = Loads(read)
    BY DEF Loads, ReadAnew, Unixd, HasConfigFile
  <1>2. ASSUME before' = before, BeforeInv PROVE BeforeInv'
    <2>1. Loads(before[1])' = Loads(before[1])
      BY <1>2 DEF Loads, ReadAnew, Unixd, HasConfigFile
    <2> QED
      BY <1>2, <2>1 DEF BeforeInv, EnsureNonRoot
  <1>3. ASSUME before' = <<read, current>>, \E s \in Loads(read) : current = EnsureNonRoot(s)
        PROVE  BeforeInv'
    <2>1. Loads(before[1])' = Loads(read)
      BY <1>3 DEF Loads, ReadAnew, Unixd, HasConfigFile
    <2>2. (before[2])' = current
      BY <1>3
    <2> QED
      BY <1>3, <2>1, <2>2 DEF BeforeInv, EnsureNonRoot
  <1> QED
    BY <1>1, <1>2, <1>3

\* The settings are a load of the file last read, over every step.
LEMMA LoadStep ==
    ASSUME PlaceInv, LoadInv, [ANext]_avars
    PROVE  LoadInv'
  <1> USE DEF Raw, Full, parsevars, procvars, histvars
  <1>0. BeforeInv
    BY DEF LoadInv, BeforeInv
  <1>1. CASE Aside
    <2>1. orig' = orig /\ read' = read /\ before' = before /\ current' = current /\ initialized' = initialized
      BY <1>1 DEF Aside
    <2>2. Loads(read)' = Loads(read) /\ BeforeInv'
      BY <1>0, <2>1, LoadsStay
    <2>3. pc' = "failed" \/ pc' = pc \/ (pc = "daemonize" /\ pc' = "pid")
      BY <1>1 DEF Aside
    <2>4. (pc \in Raw => current \in Loads(read))'
      BY <2>1, <2>2, <2>3 DEF LoadInv
    <2>5. (pc \in Full \/ (pc = "reload" /\ initialized) => \E s \in Loads(read) : current = EnsureNonRoot(s))'
      BY <2>1, <2>2, <2>3 DEF LoadInv, EnsureNonRoot
    <2> QED
      BY <2>2, <2>4, <2>5 DEF LoadInv, BeforeInv
  <1>2. ASSUME NEW opt \in Options, ParseOption(opt[1], opt[2]) PROVE LoadInv'
    <2>1. pc' = "parse" /\ before' = Unset
      BY <1>2 DEF ParseOption, PlaceInv
    <2> QED
      BY <2>1 DEF LoadInv
  <1>3. CASE Parsed
    <2>1. pc' = "reload" /\ ~initialized' /\ before' = Unset
      BY <1>3 DEF Parsed, PlaceInv
    <2> QED
      BY <2>1 DEF LoadInv
  <1>4. CASE ReloadFile
    <2>1. current' \in Loads(Written)
      BY <1>4, ReloadLoads DEF ReloadFile
    <2>2. orig' = orig /\ read' = Written /\ before' = before /\ pc' \in {"refresh", "init"}
      BY <1>4 DEF ReloadFile
    <2>3. Loads(read)' = Loads(Written)
      BY <2>2 DEF Loads, ReadAnew, Unixd, HasConfigFile
    <2>4. BeforeInv'
      BY <1>0, <2>2, LoadsStay
    <2> QED
      BY <2>1, <2>2, <2>3, <2>4 DEF LoadInv, BeforeInv
  <1>5. CASE ReloadNoFile
    <2>1. orig' = orig /\ read' = read /\ before' = before /\ initialized' = initialized
      BY <1>5 DEF ReloadNoFile
    <2>2. Loads(read)' = Loads(read) /\ BeforeInv'
      BY <1>0, <2>1, LoadsStay
    <2>3. CASE initialized
      <3>1. current' = current /\ pc = "reload" /\ pc' = "config"
        BY <1>5, <2>3 DEF ReloadNoFile
      <3> QED
        BY <2>1, <2>2, <2>3, <3>1 DEF LoadInv, BeforeInv, EnsureNonRoot
    <2>4. CASE ~initialized
      <3>1. current' = orig /\ pc' = "init"
        BY <1>5, <2>4 DEF ReloadNoFile
      <3>2. orig = Merged(orig, read, Home)
        BY <1>5, MergedNone DEF PlaceInv, ReloadNoFile
      <3>3. current' \in Loads(read)
        BY <3>1, <3>2 DEF Loads
      <3> QED
        BY <2>1, <2>2, <3>1, <3>3 DEF LoadInv, BeforeInv
    <2> QED
      BY <2>3, <2>4
  <1>6. CASE InitLog \/ InitPidFile \/ RefreshLog \/ RefreshPidFile \/ Serve
    <2>1. orig' = orig /\ read' = read /\ before' = before /\ current' = current
      BY <1>6 DEF InitLog, InitPidFile, RefreshLog, RefreshPidFile, Serve
    <2>2. Loads(read)' = Loads(read) /\ BeforeInv'
      BY <1>0, <2>1, LoadsStay
    <2>3. (pc \in Raw /\ pc' \in Raw) \/ (pc \in Full /\ pc' \in Full)
      BY <1>6 DEF InitLog, InitPidFile, RefreshLog, RefreshPidFile, Serve
    <2> QED
      BY <2>1, <2>2, <2>3 DEF LoadInv, BeforeInv, EnsureNonRoot
  <1>7. CASE InitUser \/ RefreshUser
    <2>1. orig' = orig /\ read' = read /\ before' = before /\ current' = EnsureNonRoot(current)
      BY <1>7 DEF InitUser, RefreshUser
    <2>2. Loads(read)' = Loads(read) /\ BeforeInv'
      BY <1>0, <2>1, LoadsStay
    <2>3. pc \in Raw /\ pc' \in Full
      BY <1>7 DEF InitUser, RefreshUser
    <2>4. current \in Loads(read)
      BY <2>3 DEF LoadInv
    <2>5. (\E s \in Loads(read) : current = EnsureNonRoot(s))'
      BY <2>1, <2>2, <2>4 DEF EnsureNonRoot
    <2> QED
      BY <2>2, <2>3, <2>5 DEF LoadInv, BeforeInv
  <1>8. CASE Hup
    <2>1. /\ orig' = orig /\ read' = read /\ current' = current
          /\ before' = <<read, current>> /\ pc = "serve" /\ pc' = "reload"
      BY <1>8 DEF Hup
    <2>2. \E s \in Loads(read) : current = EnsureNonRoot(s)
      BY <2>1 DEF LoadInv
    <2>3. Loads(read)' = Loads(read) /\ BeforeInv'
      BY <2>1, <2>2, LoadsStay
    <2> QED
      BY <2>1, <2>2, <2>3 DEF LoadInv, BeforeInv, EnsureNonRoot
  <1> QED
    BY <1>1, <1>2, <1>3, <1>4, <1>5, <1>6, <1>7, <1>8, StepKinds

\* Every load has one setting per key.
LEMMA LoadDomain ==
    ASSUME NEW r, NEW s \in Loads(r)
    PROVE  s = [k \in Keys |-> s[k]]
  <1>1. PICK f \in {r, NoEntries}, d \in {Home, "/"} : s = Merged(orig, f, d)
    BY LoadIsMerge
  <1> QED
    BY <1>1 DEF Merged

\* What is noted of log and pid file is in effect, over every step.
LEMMA NoteStep ==
    ASSUME PlaceInv, LoadInv, NoteInv, [ANext]_avars
    PROVE  NoteInv'
  <1> USE DEF NoteInv, LogNoted, PidNoted, LogFollows, PidFollows, Later, parsevars, procvars, histvars
  <1>1. CASE Aside
    BY <1>1 DEF Aside, TargetOf, LevelOf, Unixd
  <1>2. ASSUME NEW opt \in Options, ParseOption(opt[1], opt[2]) PROVE NoteInv'
    <2>1. pc' = "parse" /\ applied' = applied /\ effect' = effect
      BY <1>2 DEF ParseOption, loadvars
    <2> QED
      BY <2>1
  <1>3. CASE Parsed
    BY <1>3 DEF Parsed, PlaceInv
  <1>4. CASE ReloadFile
    <2>1. /\ pc = "reload" /\ pc' = IF initialized THEN "refresh" ELSE "init"
          /\ UNCHANGED <<orig, applied, effect>>
      BY <1>4 DEF ReloadFile
    <2> QED
      BY <2>1 DEF TargetOf, LevelOf, Unixd
  <1>5. CASE ReloadNoFile
    <2>1. /\ pc = "reload" /\ pc' = IF initialized THEN "config" ELSE "init"
          /\ UNCHANGED <<orig, applied, effect>> /\ (initialized => current' = current)
      BY <1>5 DEF ReloadNoFile
    <2> QED
      BY <2>1 DEF TargetOf, LevelOf, Unixd
  <1>6. CASE InitLog
    <2>1. /\ UNCHANGED <<orig, current>> /\ pc' \in {"daemonize", "pid"}
          /\ applied' = [level |-> current["log-level"], logFile |-> current["log-file"], pidFile |-> applied.pidFile]
          /\ effect' = [level |-> Level(current), logTo |-> LogTarget(current), pidFile |-> effect.pidFile]
      BY <1>6 DEF InitLog
    <2> QED
      BY <2>1 DEF TargetOf, LevelOf, Level, LogTarget, Unixd
  <1>7. CASE InitPidFile
    <2>1. /\ UNCHANGED <<orig, current>> /\ pc = "pid" /\ pc' = "user"
          /\ applied' = [level |-> applied.level, logFile |-> applied.logFile, pidFile |-> current["pid-file"]]
          /\ effect' = [level |-> effect.level, logTo |-> effect.logTo, pidFile |-> current["pid-file"]]
      BY <1>7 DEF InitPidFile
    <2> QED
      BY <2>1 DEF TargetOf, LevelOf, Unixd
  <1>8. CASE InitUser
    <2>1. /\ UNCHANGED <<orig, applied, effect>> /\ pc = "user" /\ pc' = "config"
          /\ current' = EnsureNonRoot(current)
      BY <1>8 DEF InitUser
    <2>2. current = [k \in Keys |-> current[k]]
      BY <2>1, LoadDomain DEF LoadInv, Raw
    <2>3. \A k \in {"log-level", "log-file", "pid-file"} : k \in Keys /\ k \notin {"user", "chroot"}
      BY DEF Keys, FileKeys, PathKeys, NumberKeys
    <2>4. \A k \in {"log-level", "log-file", "pid-file"} : current'[k] = current[k]
      BY <2>1, <2>2, <2>3, EnsureAt
    <2> QED
      BY <2>1, <2>4 DEF TargetOf, LevelOf, Unixd
  <1>9. CASE RefreshUser
    <2>1. UNCHANGED <<orig, applied, effect>> /\ pc = "refresh" /\ pc' = "relog"
      BY <1>9 DEF RefreshUser
    <2> QED
      BY <2>1 DEF TargetOf, LevelOf, Unixd
  <1>10. CASE RefreshLog
    <2>1. /\ UNCHANGED <<orig, current>> /\ pc = "relog" /\ pc' = "repid"
          /\ applied' = [level |-> current["log-level"], logFile |-> current["log-file"], pidFile |-> applied.pidFile]
          /\ effect' = [level |-> IF current["log-level"] # applied.level THEN Level(current) ELSE effect.level,
                        logTo |-> IF current["log-file"] # applied.logFile THEN LogTarget(current) ELSE effect.logTo,
                        pidFile |-> effect.pidFile]
      BY <1>10 DEF RefreshLog
    <2>2. Level(current) = LevelOf(current["log-level"]) /\ LogTarget(current) = TargetOf(current["log-file"])
      BY DEF Level, LogTarget, LevelOf, TargetOf
    <2>3. effect'.level = LevelOf(current["log-level"]) /\ effect'.logTo = TargetOf(current["log-file"])
      BY <2>1, <2>2
    <2>4. LogNoted'
      BY <2>1, <2>3 DEF TargetOf, LevelOf, Unixd
    <2> QED
      BY <2>1, <2>4
  <1>11. CASE RefreshPidFile
    <2>1. /\ UNCHANGED <<orig, current>> /\ pc = "repid" /\ pc' = "config"
          /\ applied' = [level |-> applied.level, logFile |-> applied.logFile, pidFile |-> current["pid-file"]]
          /\ effect' = [level |-> effect.level, logTo |-> effect.logTo,
                        pidFile |-> IF current["pid-file"] # applied.pidFile THEN current["pid-file"] ELSE effect.pidFile]
      BY <1>11 DEF RefreshPidFile
    <2> QED
      BY <2>1 DEF TargetOf, LevelOf, Unixd
  <1>12. CASE Serve
    <2>1. UNCHANGED <<orig, current, applied, effect>> /\ pc = "config" /\ pc' = "serve"
      BY <1>12 DEF Serve
    <2> QED
      BY <2>1 DEF TargetOf, LevelOf, Unixd
  <1>13. CASE Hup
    <2>1. UNCHANGED <<orig, current, applied, effect>> /\ pc = "serve" /\ pc' = "reload"
      BY <1>13 DEF Hup
    <2> QED
      BY <2>1 DEF TargetOf, LevelOf, Unixd
  <1> HIDE DEF NoteInv
  <1> QED
    BY <1>1, <1>2, <1>3, <1>4, <1>5, <1>6, <1>7, <1>8, <1>9, <1>10, <1>11, <1>12, <1>13, StepKinds

\* The network code is what the settings make of it, over every step.
LEMMA ServerStep ==
    ASSUME ServerInv, [ANext]_avars
    PROVE  ServerInv'
  <1>1. CASE Aside
    BY <1>1 DEF Aside, ServerInv, ServerOf
  <1>2. CASE Serve
    BY <1>2 DEF Serve, ServerInv, ServerOf
  <1>3. CASE \E opt \in Options : ParseOption(opt[1], opt[2])
    <2>1. pc' = "parse"
      BY <1>3 DEF ParseOption
    <2> QED
      BY <2>1 DEF ServerInv
  <1>4. CASE \/ Parsed \/ ReloadFile \/ ReloadNoFile \/ InitLog \/ InitPidFile \/ InitUser
             \/ RefreshUser \/ RefreshLog \/ RefreshPidFile \/ Hup
    <2>1. pc' # "serve"
      BY <1>4 DEF Parsed, ReloadFile, ReloadNoFile, InitLog, InitPidFile, InitUser,
                  RefreshUser, RefreshLog, RefreshPidFile, Hup
    <2> QED
      BY <2>1 DEF ServerInv
  <1> QED
    BY <1>1, <1>2, <1>3, <1>4, StepKinds

\* The settings are a load, what is noted is in effect, and the server follows.
THEOREM AppIndAlways == ASpec => []AppInd
  <1>1. AInit => AppInd
    BY AInitInd
  <1>2. AppInd /\ [ANext]_avars => AppInd'
    BY PlaceStep, LoadStep, NoteStep, ServerStep DEF AppInd
  <1> QED
    BY <1>1, <1>2, PTL DEF ASpec

-----------------------------------------------------------------------------
(* The properties *)

\* What log and pid file a serving program has is what its settings name:
\* refresh may compare with its notes.
THEOREM SettingsInEffectAlways == ASpec => []SettingsInEffect
  <1>1. AppInd => SettingsInEffect
    BY DEF AppInd, NoteInv, Later, LogNoted, PidNoted, LogFollows, PidFollows,
           SettingsInEffect, Level, LogTarget, LevelOf, TargetOf
  <1> QED
    BY <1>1, AppIndAlways, PTL

\* Each setting is the command line's, the file's, or root's default: nothing
\* is left over from an earlier file, however many were loaded, and nothing of
\* the file in force is lost, unless a daemon resolves a relative path anew.
THEOREM SettingsHaveASourceAlways == ASpec => []SettingsHaveASource
  <1>1. ASSUME AppInd, pc = "serve", NEW k \in FileKeys
        PROVE  /\ orig[k] # Unset => current[k] = orig[k]
               /\ orig[k] = Unset /\ EntryOf(read, k) # Unset =>
                      current[k] = EntryOf(read, k) \/ ReadAnew(read)
               /\ orig[k] = Unset /\ read[k] = Unset /\ current[k] # Unset =>
                      Root /\ k \in {"user", "chroot"}
    <2>1. PICK s \in Loads(read) : current = EnsureNonRoot(s)
      BY <1>1 DEF AppInd, LoadInv, Full
    <2>2. PICK f \in {read, NoEntries}, d \in {Home, "/"} : s = Merged(orig, f, d)
      BY LoadIsMerge
    <2>3. s = [j \in Keys |-> s[j]] /\ k \in Keys
      BY LoadDomain DEF Keys
    <2>4. (orig[k] # Unset => s[k] = orig[k]) /\ (orig[k] = Unset /\ read[k] = Unset => s[k] = Unset)
      BY <2>2, <2>3, MergedAt DEF NoEntries
    <2>5. s[k] # Unset \/ k \notin {"user", "chroot"} \/ ~Root => current[k] = s[k]
      BY <2>1, <2>3, EnsureAt
    <2>6. ASSUME orig[k] = Unset, EntryOf(read, k) # Unset, ~ReadAnew(read)
          PROVE  current[k] = EntryOf(read, k)
      <3>1. s = Merged(orig, read, Home)
        BY <2>6 DEF Loads
      <3>2. s[k] = EntryOf(read, k)
        BY <2>3, <2>6, <3>1, MergedAt DEF EntryOf
      <3> QED
        BY <2>5, <2>6, <3>2
    <2> QED
      BY <2>4, <2>5, <2>6
  <1>2. AppInd => SettingsHaveASource
    BY <1>1 DEF SettingsHaveASource
  <1> QED
    BY <1>2, AppIndAlways, PTL

\* What the file says of the account does not depend on the directory.
LEMMA UserAnywhere ==
    ASSUME NEW v, NEW d
    PROVE  FromFile("user", v, d) = FromFile("user", v, Home)
  <1>1. "user" \notin PathKeys
    BY DEF PathKeys
  <1> QED
    BY <1>1 DEF FromFile

\* A program that root started serves as the unprivileged account, unless the
\* option or the file in force gives it another one.
THEOREM UnnamedIsUnprivilegedAlways == ASpec => []UnnamedIsUnprivileged
  <1>1. ASSUME AppInd, pc = "serve", Root, orig["user"] = Unset, EntryOf(read, "user") = Unset
        PROVE  server.user = "wsddn"
    <2>1. PICK s \in Loads(read) : current = EnsureNonRoot(s)
      BY <1>1 DEF AppInd, LoadInv, Full
    <2>2. PICK f \in {read, NoEntries}, d \in {Home, "/"} : s = Merged(orig, f, d)
      BY LoadIsMerge
    <2>3. s = [j \in Keys |-> s[j]] /\ "user" \in Keys /\ "user" \in FileKeys
      BY LoadDomain DEF Keys, FileKeys, TextKeys
    <2>4. s["user"] = Unset
      <3>1. CASE f["user"] = Unset
        BY <1>1, <2>2, <2>3, <3>1, MergedAt
      <3>2. CASE f["user"] # Unset
        <4>1. f = read
          BY <2>2, <2>3, <3>2 DEF NoEntries
        <4>2. s["user"] = FromFile("user", read["user"], d)
          BY <1>1, <2>2, <2>3, <3>2, <4>1, MergedAt
        <4> QED
          BY <1>1, <3>2, <4>1, <4>2, UserAnywhere DEF EntryOf
      <3> QED
        BY <3>1, <3>2
    <2>5. current["user"] = <<"id", "wsddn", "primary">>
      BY <1>1, <2>1, <2>3, <2>4, EnsureAt
    <2>6. current["user"] # Unset
      BY <2>5 DEF Unset
    <2>7. server.user = current["user"][2]
      BY <1>1, <2>6 DEF AppInd, ServerInv, ServerOf
    <2> QED
      BY <2>5, <2>7
  <1>2. AppInd => UnnamedIsUnprivileged
    BY <1>1 DEF UnnamedIsUnprivileged
  <1> QED
    BY <1>2, AppIndAlways, PTL

\* A reload of an unchanged file gives the same settings again, unless a daemon
\* that changed its directory resolves a relative path anew.
THEOREM UnchangedReloadAlways == ASpec => []UnchangedReload
  <1>1. ASSUME AppInd, pc = "serve", before # Unset, before[1] = read, ~ReadAnew(read)
        PROVE  before[2] = current
    <2>1. Loads(read) = {Merged(orig, read, Home)}
      BY <1>1 DEF Loads
    <2>2. current = EnsureNonRoot(Merged(orig, read, Home))
      BY <1>1, <2>1 DEF AppInd, LoadInv, Full
    <2>3. before[2] = EnsureNonRoot(Merged(orig, read, Home))
      BY <1>1, <2>1 DEF AppInd, LoadInv
    <2> QED
      BY <2>2, <2>3
  <1>2. AppInd => UnchangedReload
    BY <1>1 DEF UnchangedReload
  <1> QED
    BY <1>2, AppIndAlways, PTL
=============================================================================
