------------------------------ MODULE Metadata ------------------------------
(***************************************************************************)
(* The metadata a host answers a Get with: loadMetadataFile of             *)
(* src/src/config.cpp and ResponseToGet of src/src/wsd_server.cpp.  The     *)
(* template of the user is copied, and the placeholders in its texts and   *)
(* attributes are replaced in a walk over the nodes of the copy, which     *)
(* has no stack: it goes down, to the next node and up by their links.     *)
(***************************************************************************)
EXTENDS HostInfo

CONSTANTS
    MetadataFiles,  \* what --metadata may name, see DocumentType
    EndpointId,     \* the endpoint identifier
    Addresses,      \* the addresses of the servers
    MaxGets         \* bound on the Get requests

Kinds == {"element", "attribute", "text", "cdata"}

\* Nodes are numbered in document order; the first is the root element, and an
\* attribute is a node whose children are texts.
DocumentType(d) ==
    /\ d.parent \in Seq(Nat) /\ d.parent # <<>>
    /\ d.kind \in [DOMAIN d.parent -> Kinds] /\ d.text \in [DOMAIN d.parent -> Seq(STRING)]
    /\ d.parent[1] = 0 /\ d.kind[1] = "element"
    /\ \A n \in DOMAIN d.parent \ {1} :
        /\ d.parent[n] \in 1 .. n - 1
        /\ d.kind[d.parent[n]] = "attribute" => d.kind[n] = "text"
        /\ d.kind[n] = "attribute" => d.kind[d.parent[n]] = "element"
        /\ d.kind[d.parent[n]] \in {"element", "attribute"}

\* The bytes of the file, is it well-formed, and the document it makes.
ASSUME MetadataAssumption ==
    /\ \A f \in MetadataFiles : f.size \in Nat /\ f.wellFormed \in BOOLEAN /\ (f.wellFormed => DocumentType(f.doc))
    /\ EndpointId \in Seq(STRING) /\ Addresses \subseteq STRING /\ Addresses # {} /\ MaxGets \in Nat

VARIABLES
    template,  \* m_metadataDoc, or <<>>
    gets,      \* number of Get requests
    address,   \* of the server that answers
    texts,     \* contents of the nodes of the copy
    current,   \* where the walk is, 0 when there is none
    back,      \* returningFromChild
    reply      \* what the last Get was answered with

metavars == <<template, gets, address, texts, current, back, reply>>
walkvars == <<address, texts, current, back, reply>>

MInit ==
    /\ HInit
    /\ template = <<>> /\ gets = 0 /\ address = CHOOSE a \in Addresses : TRUE
    /\ texts = <<>> /\ current = 0 /\ back = FALSE /\ reply = <<>>

-----------------------------------------------------------------------------
(* loadMetadataFile, the end of the constructor *)

\* What was needed to detect the identity is gone.
Forget ==
    /\ options' = CHOOSE o \in Options : TRUE
    /\ machine' = CHOOSE m \in Machines : TRUE
    /\ smbConf' = <<>> /\ params' = NoParams /\ found' = <<>> /\ said' = [h \in {} |-> <<>>]
    /\ rest' = <<>> /\ exits' = 0 /\ buf' = <<>> /\ ignore' = FALSE /\ lines' = <<>> /\ printed' = <<>>
    /\ UNCHANGED <<helper, identity>>

NoMetadata ==
    /\ at = "decided"
    /\ at' = "serving"
    /\ Forget
    /\ UNCHANGED metavars

LoadMetadata(f) ==
    /\ at = "decided"
    /\ IF f.size < 4 \/ ~f.wellFormed
       THEN at' = "failed" /\ UNCHANGED template
       ELSE at' = "serving" /\ template' = <<f.doc>>
    /\ Forget
    /\ UNCHANGED <<gets, walkvars>>

-----------------------------------------------------------------------------
(* The values of the placeholders *)

\* buildFullComputerName
FullComputerName ==
    identity[1].hostName \o <<"/", identity[1].memberOf[1], ":">> \o identity[1].memberOf[2]

Placeholder(addr) ==
    [ENDPOINT_ID          |-> EndpointId,
     SMB_HOST_DESCRIPTION |-> identity[1].description,
     SMB_FULL_HOST_NAME   |-> FullComputerName,
     IP_ADDR              |-> <<addr>>]

\* replaceInString: an unknown name after a dollar loses its first symbol.
ReplaceInString(s, addr) ==
    LET adds(a, c) ==
            IF a.inDollar
            THEN IF c \in DOMAIN Placeholder(addr) THEN Placeholder(addr)[c] ELSE IF c = "$" THEN <<c>> ELSE <<>>
            ELSE IF c = "$" THEN <<>> ELSE <<c>>
        upTo[n \in 0 .. Len(s)] ==
            IF n = 0 THEN [out |-> <<>>, inDollar |-> FALSE]
            ELSE [out      |-> upTo[n - 1].out \o adds(upTo[n - 1], s[n]),
                  inDollar |-> ~upTo[n - 1].inDollar /\ s[n] = "$"]
    IN  upTo[Len(s)].out

-----------------------------------------------------------------------------
(* The walk *)

Doc == template[1]
Nodes == DOMAIN Doc.parent

ChildNodes(n)   == {m \in Nodes : Doc.parent[m] = n /\ Doc.kind[m] # "attribute"}
LaterSiblings(n) == {m \in ChildNodes(Doc.parent[n]) : m > n}

\* The texts replacePlaceholdersInSelf rewrites: that of a text node, or those of
\* the attributes of an element, each attribute being a list of texts.
SelfTexts(n) ==
    IF Doc.kind[n] = "text" THEN {n}
    ELSE {m \in Nodes : Doc.kind[m] = "text" /\ Doc.kind[Doc.parent[m]] = "attribute"
                        /\ Doc.parent[Doc.parent[m]] = n}

Rewrite(n) == [m \in Nodes |-> IF m \in SelfTexts(n) THEN ReplaceInString(texts[m], address) ELSE texts[m]]

\* A Get for the default metadata, built anew for every answer.
GetDefault(a) ==
    /\ at = "serving" /\ template = <<>> /\ gets < MaxGets
    /\ gets' = gets + 1 /\ address' = a
    /\ reply' = <<identity[1].description, EndpointId, EndpointId, FullComputerName>>
    /\ UNCHANGED <<template, texts, current, back>>

\* Mutant: the template is rewritten in its place.
GetInPlace(a) ==
    /\ at = "serving" /\ template # <<>> /\ current = 0 /\ gets < MaxGets
    /\ gets' = gets + 1 /\ address' = a
    /\ texts' = LET old == IF reply = <<>> THEN Doc.text ELSE reply IN
                [m \in Nodes |-> IF m \in SelfTexts(1) THEN ReplaceInString(old[m], a) ELSE old[m]]
    /\ current' = IF ChildNodes(1) = {} THEN 1 ELSE Min(ChildNodes(1))
    /\ back' = FALSE
    /\ reply' = <<>>
    /\ UNCHANGED template

\* fill and replacePlaceholders: the copy, the root element and its first child.
Get(a) ==
    /\ at = "serving" /\ template # <<>> /\ current = 0 /\ gets < MaxGets
    /\ gets' = gets + 1 /\ address' = a
    /\ texts' = [m \in Nodes |-> IF m \in SelfTexts(1) THEN ReplaceInString(Doc.text[m], a) ELSE Doc.text[m]]
    /\ current' = IF ChildNodes(1) = {} THEN 1 ELSE Min(ChildNodes(1))
    /\ back' = FALSE
    /\ reply' = <<>>
    /\ UNCHANGED template

Down == ~back /\ ChildNodes(current) # {}

\* Mutant: the way up forgets that the children are done.
WalkForgets ==
    /\ current > 1
    /\ texts' = IF back THEN texts ELSE Rewrite(current)
    /\ current' = IF Down THEN Min(ChildNodes(current))
                  ELSE IF LaterSiblings(current) # {} THEN Min(LaterSiblings(current))
                  ELSE Doc.parent[current]
    /\ UNCHANGED <<template, gets, address, back, reply>>

\* One turn of the loop of replacePlaceholdersInSelfSiblingsAndChildren, whose
\* end is the root element.
Walk ==
    /\ current > 1
    /\ texts' = IF back THEN texts ELSE Rewrite(current)
    /\ current' = IF Down THEN Min(ChildNodes(current))
                  ELSE IF LaterSiblings(current) # {} THEN Min(LaterSiblings(current))
                  ELSE Doc.parent[current]
    /\ back' = (~Down /\ LaterSiblings(current) = {})
    /\ UNCHANGED <<template, gets, address, reply>>

\* The copy becomes a part of the answer.
Reply ==
    /\ current = 1
    /\ reply' = texts
    /\ current' = 0
    /\ UNCHANGED <<template, gets, address, texts, back>>

Serve == Walk \/ Reply

MNext ==
    \/ HNext /\ UNCHANGED metavars
    \/ NoMetadata
    \/ \E f \in MetadataFiles : LoadMetadata(f)
    \/ (Serve \/ \E a \in Addresses : Get(a) \/ GetDefault(a)) /\ UNCHANGED <<hostvars, shellvars>>

mvars == <<hostvars, shellvars, metavars>>

\* The loop goes on; the helpers end when they like.
MSpec == MInit /\ [][MNext]_mvars /\ WF_mvars(Serve /\ UNCHANGED <<hostvars, shellvars>>)

-----------------------------------------------------------------------------
(* Properties *)

\* How many dollars there are just before i: an odd number of them leaves one
\* that is not the second of a pair.
Dollars(s, i) == Max({k \in 0 .. i - 1 : \A j \in i - k .. i - 1 : s[j] = "$"})

\* What becomes of the symbol at i, by its place alone, as the manual of the
\* templates says (config/metadata/README.md:52-54): two dollars are one, a
\* placeholder is its value, and of anything else only the dollar is dropped.
Expanded(s, i) ==
    IF Dollars(s, i) % 2 = 0 THEN (IF s[i] = "$" THEN <<>> ELSE <<s[i]>>)
    ELSE IF s[i] \in DOMAIN Placeholder(address) THEN Placeholder(address)[s[i]]
    ELSE <<s[i]>>

Expansion(s) == FlattenSeq([i \in DOMAIN s |-> Expanded(s, i)])

Filled(n) == reply[n] = IF Doc.kind[n] = "text" THEN Expansion(Doc.text[n]) ELSE Doc.text[n]

\* A single dollar before a symbol that is neither a dollar nor a placeholder:
\* replaceInString drops that symbol with it.
LosesSymbol(s) ==
    \E i \in DOMAIN s :
        Dollars(s, i) % 2 # 0 /\ s[i] # "$" /\ s[i] \notin DOMAIN Placeholder(address)

\* Every text and every attribute of the template is expanded exactly once, with
\* the values of the server that answers, and nothing else is changed: a dollar
\* that a first pass leaves, or that comes with a value, is not expanded again,
\* and what an earlier Get made of the template is not seen by the next.  The
\* exception are the texts replaceInString loses a symbol of, where the manual
\* says that the single dollar "is simply dropped" (config/metadata/README.md:52).
TemplateFilled ==
    template # <<>> /\ reply # <<>> =>
        /\ DOMAIN reply = Nodes
        /\ \A n \in Nodes : Filled(n) \/ (Doc.kind[n] = "text" /\ LosesSymbol(Doc.text[n]))

\* A walk that is begun ends with an answer, whatever the shape of the template.
GetIsAnswered == current # 0 ~> reply # <<>>
=============================================================================
