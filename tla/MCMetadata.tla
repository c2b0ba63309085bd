----------------------------- MODULE MCMetadata -----------------------------
(* Machines with each kind of configuration, helpers that print too much or    *)
(* too little, and templates of a few nodes.                                 *)
EXTENDS Metadata

Given1 == <<<<"smb.conf">>>>
SomeOptions ==
    {[smbConf |-> c, hostname |-> h, memberOf |-> <<>>] : c \in {<<>>, Given1}, h \in {<<>>, <<<<>>>>}}
    \cup {[smbConf |-> Given1, hostname |-> <<<<"n">>>>, memberOf |-> m] : m \in {<<>>, <<<<"Domain", <<"o">>>>>>}}

Other == Section("homes")
Confs ==
    {<<>>,
     <<Other, Entry("workgroup", <<"w">>), Section("global")>>,
     <<Section("global"), Entry("workgroup", <<"w">>), Entry("security", <<"ads">>),
       Entry("server string", <<"$", "%h">>), Other, Entry("workgroup", <<"v">>)>>,
     <<Section("global"), Entry("security", <<"domain">>), Entry("netbios name", <<"N">>),
       Section("global"), Entry("workgroup", <<"v">>)>>,
     <<Section("GLOBAL"), Section("global"), Entry("other", <<"w">>), Entry("server string", <<"%v">>),
       Entry("workgroup", <<"v">>), Entry("workgroup", <<"w">>)>>}

WithFile(p, confs) ==
    {[files |-> p :> ls, cut |-> c, denied |-> {}, store |-> <<>>] : ls \in confs, c \in {{}, {p}}}

Store(w, h, d) ==
    [files |-> <<"smb.conf">> :> <<Section("global")>>, cut |-> {}, denied |-> {},
     store |-> <<[workgroup |-> w, hostname |-> h, description |-> d]>>]

SomeMachines ==
    {m \in WithFile(<<"smb.conf">>, Confs) : \A p \in m.cut : m.files[p] # <<>>}
    \cup WithFile(<<"local ksmbd.conf">>, {<<Section("global"), Entry("workgroup", <<"w">>)>>})
    \cup {[files |-> [p \in {} |-> <<>>], cut |-> {}, denied |-> d, store |-> <<>>] : d \in {{}, {<<"ksmbd.conf">>}}}
    \cup {Store(w, h, d) : w \in {<<>>, <<<<"w">>>>}, h \in {<<>>, <<<<"N">>>>}, d \in {<<>>, <<<<>>>>, <<<<"at">>>>}}

Line(p) == <<ConfigFile, p, NL>>
SomeOutputs ==
    [samba |-> {<<>>, <<"x", NL>>, Line("smb.conf"), <<ConfigFile, "smb.conf">>,
                Line("old") \o <<"x", NL>> \o Line("smb.conf"),
                <<"x", "x", "x", "x">> \o Line("smb.conf"), <<NL, ConfigFile, NL>>}]
    @@ [workgroup |-> {<<>>, <<"w", NL>>, <<"x", NL, "w">>}]
    @@ [security |-> {<<"ads", NL>>, <<"user", NL>>}]
    @@ ("netbios name" :> {<<"N", NL>>, <<NL>>})
    @@ ("server string" :> {<<"at", "%h", NL>>, <<"%v", NL>>, <<"at", "at", "at", NL>>})

Host == <<"h", ".", "d">>
Uppers == "h" :> "H"

Text1 == <<"$", "$", "IP_ADDR", "x">>
Text2 == <<"x", "$", "IP_ADDR", "_", "$", "SMB_HOST_DESCRIPTION">>
Text3 == <<"$", "ENDPOINT_ID", "x", "$">>
Text4 == <<"$", "$", "$", "SMB_FULL_HOST_NAME">>
Text5 == <<"x", "$", "x", "$", "IP_ADDR">>

Node(parent, kind, text) == <<parent, kind, text>>
Document(ns) ==
    [parent |-> [i \in DOMAIN ns |-> ns[i][1]], kind |-> [i \in DOMAIN ns |-> ns[i][2]],
     text |-> [i \in DOMAIN ns |-> ns[i][3]]]
E(p) == Node(p, "element", <<>>)
A(p) == Node(p, "attribute", <<>>)
T(p, text) == Node(p, "text", text)

\* No child; attributes and texts; children with children, of which some are last.
Documents ==
    {Document(<<E(0)>>),
     Document(<<E(0), A(1), T(2, Text1)>>),
     Document(<<E(0), T(1, Text1), E(1), T(3, Text2), Node(3, "cdata", Text1), T(1, Text3)>>),
     Document(<<E(0), A(1), T(2, Text2), A(1), T(4, Text4), E(1), A(6), T(7, Text4), E(6), T(9, Text1)>>),
     Document(<<E(0), E(1), E(2), E(3), T(4, Text4), E(1), E(6), A(7), T(8, Text5), T(6, Text3)>>)}

SomeFiles ==
    {[size |-> 100, wellFormed |-> TRUE, doc |-> d] : d \in Documents}
    \cup {[size |-> 3, wellFormed |-> FALSE], [size |-> 100, wellFormed |-> FALSE]}

Urn == <<"urn:uuid">>
=============================================================================
