------------------------------ MODULE AppState ------------------------------
(***************************************************************************)
(* The state the main process keeps over reloads: src/src/app_state.cpp,   *)
(* with the configuration of src/src/config.cpp made from it and the       *)
(* launcher that a traditional UNIX daemon leaves behind in its shell.     *)
(* Settings and files are module CommandLine; the signals that cause       *)
(* reloads are module Daemon; the pid file itself is module PidFile.       *)
(***************************************************************************)
EXTENDS CommandLine, Bags

CONSTANTS
    Options,        \* options the user may pass, as pairs <<o, v>>
    FileValues,     \* FileValues[k]: what the configuration file may say of k
    Home,           \* the directory the program is started in
    MaxOptions,     \* bound on the options passed
    MaxEdits,       \* bound on the changes of the configuration file
    MaxReloads,     \* bound on the reloads
    Faults          \* may operations fail?

ASSUME AppStateAssumption ==
    /\ Home # "/"
    /\ Faults \in BOOLEAN
    /\ MaxOptions \in Nat /\ MaxEdits \in Nat /\ MaxReloads \in Nat

VARIABLES
    pc,         \* where the daemon's process is
    cwd,        \* its current directory
    given,      \* the parser's bag of the names of the options so far
    orig,       \* m_origCommandLine
    current,    \* m_currentCommandLine
    initialized,\* m_isInitialized
    applied,    \* m_logLevel, m_logFilePath, m_pidFilePath
    effect,     \* the level and target of the log, the pid file held
    config,     \* m_config: the settings with their defaults
    server,     \* the account and root directory of the network code
    file,       \* the configuration file; Unset when it cannot be read
    pipe,       \* the report pipe: "none", "open", "byte" or "closed"
    launcher,   \* the original process: "self", "waiting", or its exit status
    edits, reloads,
    read,       \* history: the file as it was when last read
    before      \* history: read and current, when the program last served

avars == <<pc, cwd, given, orig, current, initialized, applied, effect, config,
           server, file, pipe, launcher, edits, reloads, read, before>>

parsevars == <<given, orig>>
procvars  == <<cwd, pipe, launcher>>
envvars   == <<file, edits, reloads>>
histvars  == <<read, before>>
loadvars  == <<current, initialized, applied, effect, config, server>>

\* The contents the configuration file may have, and a file that says nothing.
Mentioned == {k \in FileKeys : FileValues[k] # {}}

Files ==
    {[k \in FileKeys |-> IF k \in Mentioned THEN f[k] ELSE Unset] :
        f \in {g \in [Mentioned -> UNION {FileValues[k] : k \in Mentioned} \cup {Unset}] :
                 \A k \in Mentioned : g[k] \in FileValues[k] \cup {Unset}}}

NoEntries == [k \in FileKeys |-> Unset]

Unixd == orig["daemon"] # Unset

HasConfigFile == orig["config"] # Unset

AInit ==
    /\ pc = "parse" /\ cwd = Home
    /\ given = EmptyBag
    /\ orig = NoSettings /\ current = NoSettings
    /\ initialized = FALSE
    /\ applied = [level |-> Unset, logFile |-> Unset, pidFile |-> Unset]
    /\ effect = [level |-> 4, logTo |-> <<"console">>, pidFile |-> Unset]
    /\ config = Unset /\ server = Unset
    /\ file \in Files \cup {Unset}
    /\ pipe = "none" /\ launcher = "self"
    /\ edits = 0 /\ reloads = 0
    /\ read = NoEntries /\ before = Unset

Fails == /\ pc' = "failed"
         /\ pipe' = IF pipe = "open" THEN "closed" ELSE pipe

-----------------------------------------------------------------------------
(* CommandLine::parse *)

ParseOption(o, v) ==
    /\ pc = "parse" /\ BagCardinality(given) < MaxOptions
    /\ BagIn(o, given) => o \in Repeatable
    /\ ~OptionThrows(o, v, cwd)
    /\ given' = given (+) SetToBag({o})
    /\ orig' = WithOption(orig, o, v, cwd)
    /\ UNCHANGED <<pc, procvars, loadvars, envvars, histvars>>

RefuseOption(o, v) ==
    /\ pc = "parse" /\ BagCardinality(given) < MaxOptions
    /\ OptionThrows(o, v, cwd)
    /\ Fails
    /\ UNCHANGED <<cwd, launcher, parsevars, loadvars, envvars, histvars>>

\* occurs(neverOrOnce)
RefuseRepeated(o) ==
    /\ pc = "parse" /\ BagIn(o, given) /\ o \notin Repeatable
    /\ Fails
    /\ UNCHANGED <<cwd, launcher, parsevars, loadvars, envvars, histvars>>

RefuseTogether ==
    /\ pc = "parse"
    /\ \E s \in Exclusive : s \subseteq BagToSet(given)
    /\ Fails
    /\ UNCHANGED <<cwd, launcher, parsevars, loadvars, envvars, histvars>>

Parsed ==
    /\ pc = "parse"
    /\ \A s \in Exclusive : ~(s \subseteq BagToSet(given))
    /\ given' = EmptyBag
    /\ current' = orig
    /\ pc' = "reload"
    /\ UNCHANGED <<orig, procvars, initialized, applied, effect, config, server, envvars, histvars>>

-----------------------------------------------------------------------------
(* reload *)

\* The path of the configuration file is kept as it was written.
Readable == file # Unset /\ Absolute(orig["config"], cwd) = Absolute(orig["config"], Home)

Content == IF Readable THEN file ELSE NoEntries

\* What the user would say the file contains.
Written == IF file = Unset THEN NoEntries ELSE file

\* Mutant: the file is merged into the settings in force.
ReloadIncremental ==
    /\ pc = "reload" /\ HasConfigFile
    /\ current' = Merged(IF initialized THEN current ELSE orig, Content, cwd)
    /\ pc' = IF initialized THEN "refresh" ELSE "init"
    /\ read' = Written
    /\ UNCHANGED <<before, parsevars, procvars, initialized, applied, effect, config, server, envvars>>

ReloadFile ==
    /\ pc = "reload" /\ HasConfigFile
    /\ current' = Merged(orig, Content, cwd)
    /\ pc' = IF initialized THEN "refresh" ELSE "init"
    /\ read' = Written
    /\ UNCHANGED <<before, parsevars, procvars, initialized, applied, effect, config, server, envvars>>

ReloadNoFile ==
    /\ pc = "reload" /\ ~HasConfigFile
    /\ current' = IF initialized THEN current ELSE orig
    /\ pc' = IF initialized THEN "config" ELSE "init"
    /\ UNCHANGED <<histvars, parsevars, procvars, initialized, applied, effect, config, server, envvars>>

-----------------------------------------------------------------------------
(* setLogLevel, setLogOutput, setPidFile and ensureNonRoot on settings c *)

Level(c) == IF c["log-level"] = Unset THEN 4 ELSE c["log-level"][2]

LogTarget(c) ==
    IF c["log-file"] # Unset THEN c["log-file"] ELSE IF Unixd THEN <<"null">> ELSE <<"console">>

EnsureNonRoot(c) ==
    IF ~Root THEN c
    ELSE [c EXCEPT !["user"] = IF @ = Unset THEN <<"id", "wsddn", "primary">> ELSE @,
                   !["chroot"] = IF @ = Unset THEN <<"path", "/", "empty">> ELSE @]

-----------------------------------------------------------------------------
(* init *)

InitLog ==
    /\ pc = "init"
    /\ applied' = [applied EXCEPT !.level = current["log-level"], !.logFile = current["log-file"]]
    /\ effect' = [effect EXCEPT !.level = Level(current), !.logTo = LogTarget(current)]
    /\ pc' = IF Unixd THEN "daemonize" ELSE "pid"
    /\ UNCHANGED <<parsevars, procvars, current, initialized, config, server, envvars, histvars>>

\* daemonize: the first fork.  What follows happens in the forked process.
DaemonizeFork ==
    /\ pc = "daemonize" /\ launcher = "self"
    /\ pipe' = "open" /\ launcher' = "waiting"
    /\ UNCHANGED <<pc, cwd, parsevars, loadvars, envvars, histvars>>

\* ... the new session, the second fork, the change of directory and the report.
DaemonizeReport ==
    /\ pc = "daemonize" /\ launcher # "self"
    /\ cwd' = "/" /\ pipe' = "byte"
    /\ pc' = "pid"
    /\ UNCHANGED <<launcher, parsevars, loadvars, envvars, histvars>>

\* Mutant: the launcher holds the write end, too, and sees no end of the pipe.
LauncherKeepsWriteEnd ==
    /\ launcher = "waiting" /\ pipe = "byte"
    /\ launcher' = "success"
    /\ UNCHANGED <<pc, cwd, pipe, parsevars, loadvars, envvars, histvars>>

\* The original process waits for the report or for the end of the pipe, exits.
LauncherReads ==
    /\ launcher = "waiting" /\ pipe \in {"byte", "closed"}
    /\ launcher' = IF pipe = "byte" THEN "success" ELSE "failure"
    /\ UNCHANGED <<pc, cwd, pipe, parsevars, loadvars, envvars, histvars>>

InitPidFile ==
    /\ pc = "pid"
    /\ applied' = [applied EXCEPT !.pidFile = current["pid-file"]]
    /\ effect' = [effect EXCEPT !.pidFile = current["pid-file"]]
    /\ pc' = "user"
    /\ UNCHANGED <<parsevars, procvars, current, initialized, config, server, envvars, histvars>>

InitUser ==
    /\ pc = "user"
    /\ current' = EnsureNonRoot(current)
    /\ initialized' = TRUE
    /\ pc' = "config"
    /\ UNCHANGED <<parsevars, procvars, applied, effect, config, server, envvars, histvars>>

-----------------------------------------------------------------------------
(* refresh *)

\* Mutant: the account is not filled in again.
RefreshAsRoot ==
    /\ pc = "refresh"
    /\ pc' = "relog"
    /\ UNCHANGED <<parsevars, procvars, loadvars, envvars, histvars>>

RefreshUser ==
    /\ pc = "refresh"
    /\ current' = EnsureNonRoot(current)
    /\ pc' = "relog"
    /\ UNCHANGED <<parsevars, procvars, initialized, applied, effect, config, server, envvars, histvars>>

\* Mutant: what is in effect is not noted.
RefreshLogForgets ==
    /\ pc = "relog"
    /\ effect' = [effect EXCEPT
           !.level = IF current["log-level"] # applied.level THEN Level(current) ELSE @,
           !.logTo = IF current["log-file"] # applied.logFile THEN LogTarget(current) ELSE @]
    /\ pc' = "repid"
    /\ UNCHANGED <<applied, parsevars, procvars, current, initialized, config, server, envvars, histvars>>

RefreshLog ==
    /\ pc = "relog"
    /\ effect' = [effect EXCEPT
           !.level = IF current["log-level"] # applied.level THEN Level(current) ELSE @,
           !.logTo = IF current["log-file"] # applied.logFile THEN LogTarget(current) ELSE @]
    /\ applied' = [applied EXCEPT !.level = current["log-level"], !.logFile = current["log-file"]]
    /\ pc' = "repid"
    /\ UNCHANGED <<parsevars, procvars, current, initialized, config, server, envvars, histvars>>

RefreshPidFile ==
    /\ pc = "repid"
    /\ effect' = [effect EXCEPT !.pidFile = IF current["pid-file"] # applied.pidFile THEN current["pid-file"] ELSE @]
    /\ applied' = [applied EXCEPT !.pidFile = current["pid-file"]]
    /\ pc' = "config"
    /\ UNCHANGED <<parsevars, procvars, current, initialized, config, server, envvars, histvars>>

-----------------------------------------------------------------------------
(* Config::make, the fork, and what the serving process is. *)

\* What Config has when nothing is set; membership and host name of the
\* Windows network come from smb.conf or the system.
Default(k) ==
    CASE k = "hoplimit" -> <<"int", 1>>
      [] k = "source-port" -> <<"int", 0>>
      [] k = "allowed-address-family" -> <<"text", "both">>
      [] k = "uuid" -> <<"from host name">>
      [] k \in {"hostname", "member-of"} -> <<"detected">>
      [] OTHER -> Unset

\* An empty host name asks for the NetBIOS name, which is detected as well.
MakeConfig(c) ==
    [k \in FileKeys |-> IF c[k] = Unset \/ (k = "hostname" /\ c[k] = Empty) THEN Default(k) ELSE c[k]]

\* postForkInServerProcess changes root and identity; without a fork the
\* main process serves as it is.
ServerOf(c) ==
    [user |-> IF c["user"] # Unset THEN c["user"][2] ELSE IF Root THEN "root" ELSE "self",
     root |-> c["chroot"]]

Serve ==
    /\ pc = "config"
    /\ config' = MakeConfig(current)
    /\ server' = ServerOf(current)
    /\ pc' = "serve"
    /\ UNCHANGED <<parsevars, procvars, current, initialized, applied, effect, envvars, histvars>>

\* The exceptions: log file, fork, session, directory, pid file, account, metadata.
Throws ==
    /\ Faults
    /\ pc \in {"init", "daemonize", "pid", "user", "refresh", "relog", "repid", "config"}
    /\ Fails
    /\ UNCHANGED <<cwd, launcher, parsevars, loadvars, envvars, histvars>>

\* ensureNonRoot: the default account can be neither found nor created.
NoUser ==
    /\ Faults
    /\ pc \in {"user", "refresh"} /\ Root /\ current["user"] = Unset
    /\ Fails
    /\ UNCHANGED <<cwd, launcher, parsevars, loadvars, envvars, histvars>>

Hup ==
    /\ pc = "serve" /\ reloads < MaxReloads
    /\ reloads' = reloads + 1
    /\ before' = <<read, current>>
    /\ server' = Unset
    /\ pc' = "reload"
    /\ UNCHANGED <<read, parsevars, procvars, current, initialized, applied, effect, config, file, edits>>

\* The file is read in one step, so it may as well change while the program serves.
EditFile ==
    /\ pc = "serve" /\ HasConfigFile /\ edits < MaxEdits
    /\ file' \in (Files \cup {Unset}) \ {file}
    /\ edits' = edits + 1
    /\ UNCHANGED <<pc, reloads, parsevars, procvars, loadvars, histvars>>

Load ==
    \/ Parsed \/ ReloadFile \/ ReloadNoFile
    \/ InitLog \/ DaemonizeFork \/ DaemonizeReport \/ InitPidFile \/ InitUser
    \/ RefreshUser \/ RefreshLog \/ RefreshPidFile
    \/ Serve \/ NoUser \/ RefuseTogether

ANext ==
    \/ \E opt \in Options : \/ ParseOption(opt[1], opt[2])
                            \/ RefuseOption(opt[1], opt[2])
                            \/ RefuseRepeated(opt[1])
    \/ Load \/ LauncherReads
    \/ Throws \/ Hup \/ EditFile

ASpec == AInit /\ [][ANext]_avars

\* The program does not stop in the middle of its start.
AFairSpec == ASpec /\ WF_avars(Load) /\ WF_avars(LauncherReads)

-----------------------------------------------------------------------------
(* Properties *)

\* May a daemon that went to the directory "/" read r otherwise than at its
\* start?  The file's own path, and the paths in it, may be relative: absolute()
\* resolves them again at every load.
ReadAnew(r) ==
    /\ Unixd /\ HasConfigFile
    /\ orig["config"][1] = "rel" \/ \E k \in FileKeys : r[k] # Unset /\ r[k][1] = "rel"

\* What an entry of the file r means where the program was started.
EntryOf(r, k) == IF r[k] = Unset THEN Unset ELSE FromFile(k, r[k], Home)

\* However often the file changes, what the program serves with comes from
\* somewhere: an option beats the file, a good entry of the file as it is now is
\* in force, and a setting that neither of them has now is not left over from an
\* earlier file.  (reload starts over from m_origCommandLine; only a root process
\* fills in account and directory.)  The exception are relative paths: where they
\* are involved a daemon may lose its file, although its content "is re-read upon
\* SIGHUP" (doc/wsddn.8.adoc:56).
SettingsHaveASource ==
    pc = "serve" =>
        \A k \in FileKeys :
            /\ orig[k] # Unset => current[k] = orig[k]
            /\ orig[k] = Unset /\ EntryOf(read, k) # Unset =>
                   current[k] = EntryOf(read, k) \/ ReadAnew(read)
            /\ orig[k] = Unset /\ read[k] = Unset /\ current[k] # Unset =>
                   Root /\ k \in {"user", "chroot"}

\* A reload with an unchanged configuration file changes no setting, unless it
\* is the reload of a daemon and a relative path is involved.
UnchangedReload ==
    pc = "serve" /\ before # Unset /\ before[1] = read =>
        before[2] = current \/ ReadAnew(read)

\* Started by root, and with no account that the options or the file in force
\* give it, the program serves as the unprivileged one, however often it was
\* reloaded (doc/wsddn.8.adoc:89-93).  An account that is named is taken as it
\* is, root included, so that line 97 there ("under no circumstances perform
\* network communications under the root account") is not what the code does.
UnnamedIsUnprivileged ==
    pc = "serve" /\ Root /\ orig["user"] = Unset /\ EntryOf(read, "user") = Unset =>
        server.user = "wsddn"

\* Whenever the program serves, its log and pid file are the ones its settings
\* name, although refresh only compares with what it noted the last time.
SettingsInEffect ==
    pc = "serve" =>
        /\ effect.level = Level(current) /\ effect.logTo = LogTarget(current)
        /\ effect.pidFile = current["pid-file"]

\* The launcher does not wait for ever, whatever fails in the start.  (That it is
\* told of success before initialization is complete, against the comment at
\* app_state.cpp:394, is another matter.)
LauncherEnds == [](launcher = "waiting" => <>(launcher \in {"success", "failure"}))
=============================================================================
