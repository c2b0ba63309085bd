------------------------------ MODULE HostInfo ------------------------------
(***************************************************************************)
(* Who the host says it is: the constructor of Config in                   *)
(* src/src/config.cpp, with the detection of the Windows network in        *)
(* src/src/config_samba.cpp and src/src/config_mac.cpp.  The configuration *)
(* of Samba is looked for in a file whose place is given, or printed by    *)
(* samba, or known; where it cannot be read, testparm is asked for one     *)
(* parameter after the other.                                              *)
(*                                                                         *)
(* A text is a sequence of symbols, a line of smb.conf is a section or an  *)
(* entry of it (how the regular expressions tell them is left out), and a  *)
(* value that may be missing is <<>> or <<value>>.                         *)
(***************************************************************************)
EXTENDS Shell

CONSTANTS
    Options,       \* what the command line may say, see OptionType
    Machines,      \* the files and the store a machine may have, see MachineType
    Outputs,       \* what each helper may print
    FullHostName,  \* gethostname
    UpperCase      \* the symbols that have an upper case form, with that form

ConfigFile == "   CONFIGFILE: "    \* the prefix is one symbol
KsmbdConfs == <<<<"ksmbd.conf">>, <<"local ksmbd.conf">>>>
Parameters == <<"workgroup", "security", "netbios name", "server string">>
Keys       == ToSet(Parameters)
Helpers    == Keys \cup {"samba"}

Section(name)     == <<"section", name>>
Entry(key, value) == <<key, value>>

\* hostname: <<<<>>>> stands for :NETBIOS:.
OptionType == [smbConf : Seq(Seq(STRING)), hostname : Seq(Seq(STRING)), memberOf : Seq(STRING \X Seq(STRING))]

ConfType(ls) ==
    /\ ls \in Seq(ToSet(ls))
    /\ \A l \in ToSet(ls) : IF l[1] = "section" THEN l \in STRING \X STRING ELSE l \in STRING \X Seq(STRING)

Percent == {"%v"}    \* the tokens of a description that are not supported

\* files: the lines of those that can be opened; cut: the ones whose last line has
\* no end; denied: the ones that exist and cannot be opened.  store: what macOS
\* says, or <<>> on another system, where Samba is asked.
ASSUME MachineAssumption ==
    \A m \in Machines :
        /\ DOMAIN m = {"files", "cut", "denied", "store"}
        /\ m.cut \subseteq DOMAIN m.files /\ m.denied \cap DOMAIN m.files = {}
        /\ \A p \in m.cut : m.files[p] # <<>>
        /\ \A p \in DOMAIN m.files : ConfType(m.files[p])
        /\ m.store # <<>> =>
            /\ {m.store[1].workgroup, m.store[1].hostname, m.store[1].description} \subseteq Seq(Seq(STRING))
            /\ \A v \in {m.store[1].workgroup, m.store[1].hostname} : v = <<>> \/ v[1] # <<>>

\* A name on the command line, a host name and the names macOS has are not empty;
\* a host name has no percent sign and does not begin with a dot.
ASSUME InputAssumption ==
    /\ Options \subseteq OptionType
    /\ \A o \in Options : o.memberOf # <<>> => o.memberOf[1][2] # <<>>
    /\ FullHostName \in Seq(STRING) /\ FullHostName # <<>> /\ FullHostName[1] # "."
    /\ ToSet(FullHostName) \cap ({"%h"} \cup Percent) = {}
    /\ \A c \in DOMAIN UpperCase : UpperCase[c] \in STRING
    /\ Helpers \subseteq DOMAIN Outputs /\ \A h \in Helpers : Outputs[h] \subseteq Seq(STRING)

VARIABLES
    options,   \* cmdline
    machine,   \* what the machine has
    at,        \* where the constructor is
    smbConf,   \* the path of the configuration, if any
    params,    \* the SambaParams
    found,     \* systemWinNetInfo
    identity,  \* m_winNetInfo
    said       \* history: what each helper printed, and how it ended

hostvars == <<options, machine, at, smbConf, params, found, identity, said>>
detectvars == <<options, machine, identity>>

NoParams == [k \in Keys |-> <<>>]

HInit ==
    /\ ShellInit
    /\ options \in Options /\ machine \in Machines
    /\ at = "start" /\ smbConf = <<>> /\ params = NoParams
    /\ found = <<>> /\ identity = <<>>
    /\ said = [h \in {} |-> <<>>]

-----------------------------------------------------------------------------
(* Names *)

\* prefix_before_first('.')
SimpleHostName ==
    LET dots == {i \in DOMAIN FullHostName : FullHostName[i] = "."} IN
    IF dots = {} THEN FullHostName ELSE SubSeq(FullHostName, 1, Min(dots) - 1)

Upper(s) == [i \in DOMAIN s |-> IF s[i] \in DOMAIN UpperCase THEN UpperCase[s[i]] ELSE s[i]]

UseNetbios == options.hostname = <<<<>>>>
NormalName == IF UseNetbios THEN Upper(SimpleHostName) ELSE SimpleHostName

Given(v) == v # <<>> /\ v[1] # <<>>

\* The description: %h is the host name, and other tokens are not supported.
Described(v) ==
    LET text == FlattenSeq([i \in DOMAIN v |-> IF v[i] = "%h" THEN SimpleHostName ELSE <<v[i]>>]) IN
    IF ToSet(text) \cap Percent = {} THEN text ELSE SimpleHostName

Info(member, name, description) == [memberOf |-> member, hostName |-> name, description |-> description]

\* sambaParamsToWinNetInfo
SambaParamsToWinNetInfo(p) ==
    Info(IF ~Given(p["workgroup"]) THEN <<"Workgroup", <<"WORKGROUP">>>>
         ELSE IF p["security"] \in {<<<<"domain">>>>, <<<<"ads">>>>} THEN <<"Domain", p["workgroup"][1]>>
         ELSE <<"Workgroup", p["workgroup"][1]>>,
         IF UseNetbios /\ Given(p["netbios name"]) THEN p["netbios name"][1] ELSE NormalName,
         IF Given(p["server string"]) THEN Described(p["server string"][1]) ELSE SimpleHostName)

-----------------------------------------------------------------------------
(* The configuration file *)

\* The loop of paramsFromSmbConf, up to the section after the global one.
InConf(ls) ==
    LET entry(a, l) == IF a.section = "global" /\ l[1] \in Keys THEN [a EXCEPT !.params[l[1]] = <<l[2]>>] ELSE a
        step(a, l) ==
            IF a.section = "over" THEN a
            ELSE IF l[1] = "section"
                 THEN [a EXCEPT !.section = IF a.section = "global" THEN "over"
                                            ELSE IF l[2] = "global" THEN "global" ELSE "other"]
                 ELSE entry(a, l)
        upTo[n \in 0 .. Len(ls)] ==
            IF n = 0 THEN [section |-> "none", params |-> NoParams] ELSE step(upTo[n - 1], ls[n])
    IN  upTo[Len(ls)].params

\* A file of no bytes cannot be mapped.
Readable(p) == p \in DOMAIN machine.files /\ machine.files[p] # <<>>

\* Only a line that is ended is looked at.
EndedLines(p) == IF p \in machine.cut THEN Front(machine.files[p]) ELSE machine.files[p]

Exists(p) == p \in DOMAIN machine.files \cup machine.denied

\* findKsmbConf
KsmbdConf ==
    LET there == {i \in DOMAIN KsmbdConfs : Exists(KsmbdConfs[i])} IN
    IF there = {} THEN <<>> ELSE <<KsmbdConfs[Min(there)]>>

-----------------------------------------------------------------------------
(* detectWinNetInfo, one action per helper that is run or step between them *)

Detects == at = "start" /\ (machine.store = <<>> \/ options.smbConf # <<>>)

\* The path is given.
UseGivenConf ==
    /\ Detects /\ options.smbConf # <<>>
    /\ smbConf' = options.smbConf
    /\ at' = "conf"
    /\ UNCHANGED <<detectvars, shellvars, params, found, said>>

\* findSmbConfViaSamba: samba is there and prints how it was built ...
RunSamba(out, code) ==
    /\ Detects /\ options.smbConf = <<>>
    /\ Spawn("samba", out, code)
    /\ at' = "samba"
    /\ UNCHANGED <<detectvars, smbConf, params, found, said>>

\* ... or there is no samba.
NoSamba ==
    /\ Detects /\ options.smbConf = <<>>
    /\ smbConf' = KsmbdConf
    /\ at' = "conf"
    /\ UNCHANGED <<detectvars, shellvars, params, found, said>>

\* startsWithAndHasMore: the last such line counts.  Where there is none the
\* path is empty, and it is a path all the same.
PathsIn(ls) == SelectSeq(ls, LAMBDA l : Len(l) >= 2 /\ l[1] = ConfigFile)
PathIn(ls)  == IF PathsIn(ls) = <<>> THEN <<>> ELSE Tail(Last(PathsIn(ls)))

Says(h) == said' = [g \in DOMAIN said \cup {h} |-> IF g = h THEN <<printed, exits>> ELSE said[g]]

SambaEnds ==
    /\ at = "samba" /\ Ends("samba")
    /\ Says("samba")
    /\ smbConf' = IF exits = 0 THEN <<PathIn(lines')>> ELSE KsmbdConf
    /\ at' = "conf"
    /\ UNCHANGED <<detectvars, params, found>>

\* paramsFromSmbConf
ReadConf ==
    /\ at = "conf"
    /\ IF smbConf # <<>> /\ Readable(smbConf[1])
       THEN params' = InConf(EndedLines(smbConf[1])) /\ found' = <<SambaParamsToWinNetInfo(params')>> /\ at' = "found"
       ELSE at' = Parameters[1] /\ UNCHANGED <<params, found>>
    /\ UNCHANGED <<detectvars, shellvars, smbConf, said>>

\* runTestParm
RunTestParm(k, out, code) ==
    /\ at = k /\ Spawn(k, out, code)
    /\ UNCHANGED hostvars

\* There is no testparm: what was found so far is dropped.
NoTestParm ==
    /\ at \in Keys /\ helper = Nobody
    /\ at' = "found"
    /\ params' = NoParams
    /\ UNCHANGED <<detectvars, shellvars, smbConf, found, said>>

NextQuestion(k) ==
    LET i == CHOOSE i \in DOMAIN Parameters : Parameters[i] = k IN
    IF i = Len(Parameters) THEN "found" ELSE Parameters[i + 1]

LastLine(ls) == IF ls = <<>> THEN <<>> ELSE <<Last(ls)>>

\* Mutant: a failure of testparm ends the questions and keeps the answers.
TestParmEndsKeeps(k) ==
    /\ at = k /\ Ends(k)
    /\ Says(k)
    /\ params' = [params EXCEPT ![k] = LastLine(lines')]
    /\ at' = IF exits # 0 THEN "found" ELSE NextQuestion(k)
    /\ found' = IF at' = "found" THEN <<SambaParamsToWinNetInfo(params')>> ELSE <<>>
    /\ UNCHANGED <<detectvars, smbConf>>

\* paramsFromTestParm: one question is over.  An error ends them all.
TestParmEnds(k) ==
    /\ at = k /\ Ends(k)
    /\ Says(k)
    /\ IF exits # 0
       THEN params' = NoParams /\ at' = "found" /\ UNCHANGED found
       ELSE /\ params' = [params EXCEPT ![k] = LastLine(lines')]
            /\ at' = NextQuestion(k)
            /\ found' = IF at' = "found" THEN <<SambaParamsToWinNetInfo(params')>> ELSE <<>>
    /\ UNCHANGED <<detectvars, smbConf>>

\* detectAppleWinNetInfo: the domain is never read, because the dictionary is
\* looked at only when it is none.
AppleInfo(s) ==
    IF s.workgroup = <<>> THEN <<>>
    ELSE <<Info(<<"Workgroup", s.workgroup[1]>>,
                IF UseNetbios /\ s.hostname # <<>> THEN s.hostname[1] ELSE NormalName,
                IF s.description # <<>> THEN s.description[1] ELSE SimpleHostName)>>

DetectApple ==
    /\ at = "start" /\ machine.store # <<>> /\ options.smbConf = <<>>
    /\ found' = AppleInfo(machine.store[1])
    /\ at' = "found"
    /\ UNCHANGED <<detectvars, shellvars, smbConf, params, said>>

-----------------------------------------------------------------------------
(* The constructor of Config *)

\* What is given goes before what is found, and that before what is usual.
Decide ==
    /\ at = "found"
    /\ identity' =
        LET named       == Given(options.hostname)
            description == IF found = <<>> THEN <<>> ELSE found[1].description
        IN  <<Info(IF options.memberOf # <<>> THEN options.memberOf[1]
                   ELSE IF found # <<>> THEN found[1].memberOf ELSE <<"Workgroup", <<"WORKGROUP">>>>,
                   IF named THEN options.hostname[1]
                   ELSE IF found # <<>> THEN found[1].hostName ELSE NormalName,
                   IF description # <<>> THEN description
                   ELSE IF named THEN options.hostname[1] ELSE SimpleHostName)>>
    /\ at' = "decided"
    /\ UNCHANGED <<options, machine, shellvars, smbConf, params, found, said>>

Runs(h) == \E out \in Outputs[h], code \in {0, 1} :
    IF h = "samba" THEN RunSamba(out, code) ELSE RunTestParm(h, out, code)

HNext ==
    \/ UseGivenConf \/ NoSamba \/ SambaEnds
    \/ Reads /\ UNCHANGED hostvars
    \/ ReadConf \/ NoTestParm \/ DetectApple \/ Decide
    \/ \E h \in Helpers : Runs(h)
    \/ \E k \in Keys : TestParmEnds(k)

HSpec == HInit /\ [][HNext]_<<hostvars, shellvars>>

-----------------------------------------------------------------------------
(* Where the identity may come from: a reference definition *)

\* The value of the last entry of k between the first global section and the
\* section after it.
ValueIn(ls, k) ==
    LET sections == {i \in DOMAIN ls : ls[i][1] = "section"}
        global   == {i \in sections : ls[i][2] = "global"}
        first    == Min(global)
        end      == Min({i \in sections : i > first} \cup {Len(ls) + 1})
        entries  == {i \in first .. end - 1 : ls[i][1] = k}
    IN  IF global = {} \/ entries = {} THEN <<>> ELSE <<ls[Max(entries)][2]>>

Succeeded(h) == h \in DOMAIN said /\ said[h][2] = 0

\* The file that is used: the one that is given, or the one samba says, or the
\* first of ksmbd where samba cannot say.
FileUsed ==
    IF options.smbConf # <<>> THEN options.smbConf
    ELSE IF Succeeded("samba") THEN <<PathIn(LinesOf(said["samba"][1]))>>
    ELSE KsmbdConf

FromFile     == FileUsed # <<>> /\ Readable(FileUsed[1])
FromTestParm == ~FromFile /\ \A k \in Keys : Succeeded(k)

\* All parameters of one source.
Sources ==
    IF FromFile THEN {[k \in Keys |-> ValueIn(EndedLines(FileUsed[1]), k)]}
    ELSE IF FromTestParm THEN {[k \in Keys |-> LastLine(LinesOf(said[k][1]))]}
    ELSE {}

-----------------------------------------------------------------------------
(* Properties *)

\* A value of the source that is there and not empty, or else another.
FromSource(k, other) ==
    IF \E p \in Sources : Given(p[k]) THEN (CHOOSE p \in Sources : TRUE)[k][1] ELSE other

\* The group, the name and the description are all from the command line, from
\* one configuration that was read as a whole, or from the host name: no answer
\* of a testparm that fails later, of a file that cannot be read, or of a share's
\* section is mixed in, and nothing is empty.
IdentityFromOneSource ==
    at = "decided" =>
        LET id    == identity[1]
            named == Given(options.hostname)
        IN  /\ id.memberOf[2] # <<>> /\ id.hostName # <<>> /\ id.description # <<>>
            /\ options.memberOf # <<>> => id.memberOf = options.memberOf[1]
            /\ named => id.hostName = options.hostname[1]
            /\ machine.store = <<>> \/ options.smbConf # <<>> =>
                /\ options.memberOf = <<>> =>
                    /\ id.memberOf[2] = FromSource("workgroup", <<"WORKGROUP">>)
                    /\ id.memberOf[1] = "Domain" <=>
                           \E p \in Sources : /\ Given(p["workgroup"])
                                              /\ p["security"] \in {<<<<"domain">>>>, <<<<"ads">>>>}
                /\ ~named => id.hostName = IF UseNetbios THEN FromSource("netbios name", NormalName)
                                           ELSE SimpleHostName
                /\ id.description = IF named /\ Sources = {} THEN options.hostname[1]
                                    ELSE Described(FromSource("server string", SimpleHostName))
=============================================================================
