---------------------------- MODULE CommandLine ----------------------------
(***************************************************************************)
(* The settings of src/src/command_line.cpp: what an option of the command *)
(* line or an entry of the configuration file sets, what is refused, and   *)
(* how a file is merged into the command line.                             *)
(*                                                                         *)
(* A value as the user writes it is a tuple whose first element says what  *)
(* it is: <<"abs", f>> and <<"rel", f>> are paths, <<"text", t>> is a      *)
(* string, <<"pair", a, b>> a string with a separator (a:b or a/b),        *)
(* <<"int", n>> a number and <<"list", s>> an array of such values.        *)
(***************************************************************************)
EXTENDS Integers, Sequences, FiniteSetsExt

CONSTANTS
    Root,        \* does the program run as root?
    Users,       \* names of existing accounts
    Groups,      \* names of existing groups
    Uuids,       \* well-formed uuids
    BadPatterns, \* strings that are no regular expression
    Existing,    \* absolute paths of existing files and directories
    ShortRange,  \* number of values of an unsigned short (2^16)
    UIntRange    \* number of values of an unsigned (2^32)

ASSUME CommandLineAssumption ==
    /\ Root \in BOOLEAN
    /\ ShortRange \in Nat \ {0} /\ UIntRange \in Nat \ {0}

ListKeys   == {"interfaces", "include-patterns", "exclude-patterns"}
PathKeys   == {"smb-conf", "metadata", "log-file", "pid-file", "chroot"}
NumberKeys == {"hoplimit", "source-port", "log-level"}
TextKeys   == {"allowed-address-family", "uuid", "hostname", "member-of", "user"}
FileKeys   == ListKeys \cup PathKeys \cup NumberKeys \cup TextKeys
Keys       == FileKeys \cup {"config", "daemon"}

Unset == <<>>
Empty == <<"text", "">>

NoSettings == [k \in Keys |-> Unset]

TypeOf(v) == CASE v[1] = "int" -> "number" [] v[1] = "list" -> "list" [] OTHER -> "string"

ExpectedType(k) ==
    CASE k \in NumberKeys -> "number" [] k \in ListKeys -> "list" [] OTHER -> "string"

-----------------------------------------------------------------------------
(* The setters: the value they store, Unset when they throw before that.   *)

\* Mutant: an absolute path is taken for a relative one.
AbsoluteOfAny(v, cwd) == <<"path", cwd, v[2]>>

Absolute(v, cwd) == <<"path", IF v[1] = "rel" THEN cwd ELSE "/", v[2]>>

\* setSmbConf, setMetadataFile, setLogFile, setPidFile, setChrootDir
TakenPath(k, v, cwd) ==
    IF \/ v[1] \notin {"abs", "rel"}
       \/ k \in {"smb-conf", "metadata", "chroot"} /\ Absolute(v, cwd) \notin Existing
       \/ k = "chroot" /\ ~Root
    THEN Unset
    ELSE Absolute(v, cwd)

\* parseUser: the name before the colon is the group.
TakenUser(v) ==
    CASE v = Empty -> Unset
      [] v[1] = "pair" -> IF Root /\ v[3] \in Users /\ v[2] \in Groups THEN <<"id", v[3], v[2]>> ELSE Unset
      [] OTHER -> IF Root /\ v[2] \in Users THEN <<"id", v[2], "primary">> ELSE Unset

\* setMemberOf: without a prefix it is a workgroup, in capitals.
TakenMember(v) ==
    CASE v = Empty -> Unset
      [] v[1] = "pair" -> IF v[2] \in {"workgroup", "domain"} /\ v[3] # "" THEN <<v[2], v[3]>> ELSE Unset
      [] OTHER -> <<"workgroup", v[2], "upper">>

\* setAllowedAddressFamily, setUuid, setHostname and the two above
TakenText(k, v) ==
    CASE k = "allowed-address-family" -> IF v[2] \in {"ipv4", "ipv6", "both"} THEN v ELSE Unset
      [] k = "uuid" -> IF v[2] \in Uuids THEN v ELSE Unset
      [] k = "hostname" -> CASE v = Empty -> Unset
                             [] v[2] = ":NETBIOS:" -> Empty
                             [] OTHER -> v
      [] k = "member-of" -> TakenMember(v)
      [] k = "user" -> TakenUser(v)

MaxLevel == 6
Verbosity(n) == <<"int", IF n > MaxLevel THEN MaxLevel ELSE n>>

\* Numbers of the configuration file are 64 bits wide when they are checked.
FileNumber(k, n) ==
    CASE k = "hoplimit"    -> IF n < 1 THEN Unset ELSE <<"int", n % ShortRange>>
      [] k = "source-port" -> IF n \in 0 .. ShortRange - 1 THEN <<"int", n>> ELSE Unset
      [] k = "log-level"   -> IF n < 0 THEN Unset ELSE Verbosity(n % UIntRange)

\* Numbers of the command line are read as unsigned; the hop limit is an int.
OptionNumber(k, n) ==
    IF n \notin 0 .. UIntRange - 1 THEN Unset
    ELSE CASE k = "hoplimit"    -> <<"int", IF 2 * n < UIntRange THEN n ELSE n - UIntRange>>
           [] k = "source-port" -> <<"int", n % ShortRange>>
           [] k = "log-level"   -> Verbosity(n)

\* addInterface, addPattern
ValidElement(k, e) == e # Empty /\ (k # "interfaces" => e[2] \notin BadPatterns)

IsString(e) == TypeOf(e) = "string"

\* Elements that are no strings are skipped; a bad one ends the loop with an
\* exception, and those before it stay.
TakenList(k, s) ==
    LET bad == {i \in DOMAIN s : IsString(s[i]) /\ ~ValidElement(k, s[i])}
        n   == IF bad = {} THEN Len(s) ELSE Min(bad) - 1
    IN  SelectSeq(SubSeq(s, 1, n), IsString)

-----------------------------------------------------------------------------
(* The configuration file *)

\* parseConfigKey.  setUuid throws after it has stored a good value, too.
FromFile(k, v, cwd) ==
    IF TypeOf(v) # ExpectedType(k) THEN Unset
    ELSE CASE k \in ListKeys   -> TakenList(k, v[2])
           [] k \in PathKeys   -> TakenPath(k, v, cwd)
           [] k \in NumberKeys -> FileNumber(k, v[2])
           [] k \in TextKeys   -> TakenText(k, v)

\* mergeConfigFile and setConfigValue: what the command line set is left alone.
Merged(cl, file, cwd) ==
    [k \in Keys |-> IF k \notin FileKeys \/ cl[k] # Unset \/ file[k] = Unset
                    THEN cl[k]
                    ELSE FromFile(k, file[k], cwd)]

-----------------------------------------------------------------------------
(* The command line: an option <<o, v>> has a name and a value. *)

Repeatable == {"config", "unixd", "interface", "include-pattern", "exclude-pattern",
               "ipv4only", "ipv6only", "source-port"}

Exclusive == {{"ipv4only", "ipv6only"}, {"domain", "workgroup"}}

KeyOf(o) ==
    CASE o = "unixd" -> "daemon"
      [] o = "interface" -> "interfaces"
      [] o = "include-pattern" -> "include-patterns"
      [] o = "exclude-pattern" -> "exclude-patterns"
      [] o \in {"ipv4only", "ipv6only"} -> "allowed-address-family"
      [] o \in {"domain", "workgroup"} -> "member-of"
      [] OTHER -> o

\* The handlers of general options, and of those for network and machine.
FromOption(o, v, cwd) ==
    LET k == KeyOf(o) IN
    CASE o = "config"   -> IF v = Empty THEN Unset ELSE v
      [] o = "unixd"    -> <<"unix">>
      [] o = "ipv4only" -> <<"text", "ipv4">>
      [] o = "ipv6only" -> <<"text", "ipv6">>
      [] o \in {"domain", "workgroup"} -> IF v = Empty THEN Unset ELSE <<o, v[2]>>
      [] OTHER ->
            CASE k \in ListKeys   -> IF ValidElement(k, v) THEN <<v>> ELSE Unset
              [] k \in PathKeys   -> TakenPath(k, v, cwd)
              [] k \in NumberKeys -> OptionNumber(k, v[2])
              [] k \in TextKeys   -> TakenText(k, v)

\* What makes the parser print the usage and exit.
OptionThrows(o, v, cwd) == o = "uuid" \/ FromOption(o, v, cwd) = Unset

WithOption(cl, o, v, cwd) ==
    LET k == KeyOf(o) IN
    [cl EXCEPT ![k] = IF k \in ListKeys THEN @ \o FromOption(o, v, cwd) ELSE FromOption(o, v, cwd)]
=============================================================================
