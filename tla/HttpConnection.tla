--------------------------- MODULE HttpConnection ---------------------------
(***************************************************************************)
(* What one HTTP connection makes of the bytes it reads: parseIncoming,    *)
(* parseHeader and parseBody of src/src/http_server.cpp, with the queries  *)
(* of src/src/http_request.cpp.  A read returns any part of what the       *)
(* client has sent, so that a request may come in pieces and one read may  *)
(* bring more than a request.                                              *)
(*                                                                         *)
(* On the wire a request is a header in two pieces and the bytes of its    *)
(* body.  The header parser takes the two pieces of one request, in this   *)
(* order, for a header; of anything else it may wait for more, but once    *)
(* the end of a header comes it refuses it, or takes it for a request to   *)
(* something else: the bytes of a body are supposed never to make a        *)
(* request of their own.  How the bytes of a header are parsed is module   *)
(* HttpRequestParser; when connections are closed from outside is module   *)
(* HttpServer.  The loop of parseIncoming is one step per iteration:       *)
(* nothing else happens in between.                                        *)
(***************************************************************************)
EXTENDS Naturals, Sequences, Functions

CONSTANTS
    Requests,     \* what the client may send, see RequestType
    MaxLength,    \* g_httpMaxContentLength
    MaxSent       \* bound on the requests of a connection

\* target: does it POST to the path of the server?  length: the headers of
\* that name, of which there may be several; type: likewise; keep: does it ask
\* for keep-alive?  body: the number of bytes that follow; xml: what they are;
\* early: is it sent before the last reply has come?
RequestType ==
    [syntax : BOOLEAN, target : BOOLEAN, length : Seq(Nat), type : {"none", "soap", "other", "twice"},
     keep : BOOLEAN, body : Nat, xml : {"answered", "ignored", "malformed"}, early : BOOLEAN]

ASSUME ConnectionAssumption ==
    /\ \A r \in Requests : r \in RequestType
    /\ MaxLength \in Nat /\ MaxSent \in Nat

VARIABLES
    sent,       \* the requests the client has sent
    wire,       \* what was sent and not yet read
    pc,         \* "read", "parse", "write" or "closed"
    buffer,     \* the rest of what the last read brought
    state,      \* m_state
    header,     \* what m_headerParser has got since its reset
    lengths,    \* the Content-Length headers of m_request
    types,      \* the Content-Type headers of m_request
    keeps,      \* is keep-alive among its Connection headers?
    keepAlive,  \* m_keepAlive
    remaining,  \* m_contentRemaining
    fed,        \* what m_contentParser has got
    reply,      \* m_response, and whether it is the last one
    heads,      \* history: number of the request whose header was parsed last
    got,        \* history: what that header was read from
    replies     \* history: the replies sent, with the number of the request
                \* and all that it was read from

cvars == <<sent, wire, pc, buffer, state, header, lengths, types, keeps, keepAlive, remaining, fed, reply,
           heads, got, replies>>
headervars == <<lengths, types, keeps, heads, got>>
bodyvars == <<keepAlive, remaining, fed>>

Pieces(n, r) == <<<<"part", n>>, <<"head", n>>>> \o [i \in 1 .. r.body |-> <<"body", n>>]

NoReply == <<"none", FALSE>>

CInit ==
    /\ sent = <<>> /\ wire = <<>>
    /\ pc = "read" /\ buffer = <<>>
    /\ state = "InHeader" /\ header = <<>>
    /\ lengths = <<>> /\ types = <<>> /\ keeps = FALSE
    /\ keepAlive = FALSE /\ remaining = 0 /\ fed = <<>>
    /\ reply = NoReply /\ heads = 0 /\ got = <<>> /\ replies = <<>>

-----------------------------------------------------------------------------
(* The client *)

Waiting == Len(sent) > Len(replies)

ClientSends(r) ==
    /\ pc # "closed" /\ Len(sent) < MaxSent
    /\ r.early \/ ~Waiting
    /\ sent' = Append(sent, r)
    /\ wire' = wire \o Pieces(Len(sent) + 1, r)
    /\ UNCHANGED <<pc, buffer, state, header, headervars, bodyvars, reply, replies>>

-----------------------------------------------------------------------------
(* read *)

Read(n) ==
    /\ pc = "read"
    /\ buffer' = SubSeq(wire, 1, n)
    /\ wire' = SubSeq(wire, n + 1, Len(wire))
    /\ pc' = "parse"
    /\ UNCHANGED <<sent, state, header, headervars, bodyvars, reply, replies>>

\* The client closes, or another error.
ReadFails ==
    /\ pc = "read"
    /\ pc' = "closed"
    /\ UNCHANGED <<sent, wire, buffer, state, header, headervars, bodyvars, reply, replies>>

-----------------------------------------------------------------------------
(* parseIncoming *)

\* Done or Error: what is left of this read is forgotten.
Replies(status, final) ==
    /\ reply' = <<status, final>>
    /\ buffer' = <<>>
    /\ pc' = "write"

ReadOn ==
    /\ pc = "parse" /\ buffer = <<>>
    /\ pc' = "read"
    /\ UNCHANGED <<sent, wire, buffer, state, header, headervars, bodyvars, reply, replies>>

InHeader == pc = "parse" /\ state = "InHeader" /\ buffer # <<>>

\* What the header parser has got, with the next piece.
Taken == Append(header, Head(buffer))

EndsHeader(s)   == s[Len(s)][1] = "head"
BeginsHeader(s) == s = <<<<"part", s[1][2]>>>>
WholeHeader(s)  == s = <<<<"part", s[1][2]>>, <<"head", s[1][2]>>>>

\* Indeterminate: the end of the header has not come.
ParsePart ==
    /\ InHeader /\ Head(buffer)[1] # "head"
    /\ header' = Taken
    /\ buffer' = Tail(buffer)
    /\ UNCHANGED <<sent, wire, pc, state, headervars, bodyvars, reply, replies>>

\* What is no header is refused, at the latest when it ends; or it makes a
\* header, with another method.
ParseGarbage ==
    /\ InHeader /\ ~WholeHeader(Taken)
    /\ BeginsHeader(Taken) => ~sent[Head(buffer)[2]].syntax
    /\ header' = Taken
    /\ Replies("BadRequest", TRUE) \/ (Head(buffer)[1] = "head" /\ Replies("NotFound", TRUE))
    /\ UNCHANGED <<sent, wire, state, headervars, bodyvars, replies>>

ContentLengthFirst(ls) == ls # <<>> /\ ls[1] <= MaxLength

\* getUniqueHeader wants exactly one, or none where that will do.
ContentLengthOk(ls) == Len(ls) = 1 /\ ls[1] <= MaxLength

ContentTypeOk(ts) == ts = <<>> \/ ts = <<"soap">>

TypesOf(r) == CASE r.type = "none" -> <<>> [] r.type = "twice" -> <<"soap", "soap">> [] OTHER -> <<r.type>>

HeaderOf(piece) == sent[piece[2]]

\* parseHeader.  The headers are added to those of the requests before.
ParseHeader ==
    /\ InHeader /\ WholeHeader(Taken)
    /\ LET r == HeaderOf(Head(buffer)) IN
       /\ heads' = Head(buffer)[2] /\ got' = Taken
       /\ lengths' = lengths \o r.length
       /\ types' = types \o TypesOf(r)
       /\ keeps' = (keeps \/ r.keep)
       /\ \/ /\ r.syntax /\ r.target /\ ContentLengthOk(lengths') /\ ContentTypeOk(types')
             /\ remaining' = lengths'[1]
             /\ fed' = <<>>
             /\ keepAlive' = keeps'
             /\ state' = "InBody" /\ header' = <<>>
             /\ buffer' = Tail(buffer)
             /\ UNCHANGED <<pc, reply>>
          \/ /\ ~(r.syntax /\ r.target /\ ContentLengthOk(lengths') /\ ContentTypeOk(types'))
             /\ Replies(IF r.syntax /\ ~r.target THEN "NotFound" ELSE "BadRequest", TRUE)
             /\ UNCHANGED <<state, header, bodyvars>>
    /\ UNCHANGED <<sent, wire, replies>>

-----------------------------------------------------------------------------
(* parseBody *)

Chunk == SubSeq(buffer, 1, IF remaining < Len(buffer) THEN remaining ELSE Len(buffer))

\* The whole body of a request makes a document, anything else does not.
IsDocument(s) ==
    /\ s # <<>>
    /\ \A i \in DOMAIN s : s[i] = <<"body", s[1][2]>>
    /\ HeaderOf(s[1]).body = Len(s) /\ HeaderOf(s[1]).xml # "malformed"

InBody == pc = "parse" /\ state = "InBody" /\ buffer # <<>>

ParseBodyPart ==
    /\ InBody /\ remaining > Len(buffer)
    /\ remaining' = remaining - Len(Chunk)
    /\ fed' = fed \o Chunk
    /\ buffer' = <<>>
    /\ UNCHANGED <<sent, wire, pc, state, header, headervars, keepAlive, reply, replies>>

\* parseChunk throws, wellFormed says no, or the handler has no reply.
Unanswered(doc) == ~IsDocument(doc) \/ HeaderOf(doc[1]).xml = "ignored"

ParseBodyEndLate ==
    /\ InBody /\ remaining < Len(buffer)
    /\ remaining' = 0
    /\ fed' = fed \o Chunk
    /\ IF Unanswered(fed')
       THEN Replies("BadRequest", TRUE) /\ UNCHANGED state
       ELSE Replies("Ok", ~keepAlive) /\ state' = "InHeader"
    /\ UNCHANGED <<sent, wire, header, headervars, keepAlive, replies>>

ParseBodyEnd ==
    /\ InBody /\ remaining <= Len(buffer)
    /\ remaining' = 0
    /\ fed' = fed \o Chunk
    /\ IF Unanswered(fed')
       THEN Replies("BadRequest", TRUE) /\ UNCHANGED state
       ELSE Replies("Ok", ~keepAlive) /\ state' = "InHeader"
    /\ UNCHANGED <<sent, wire, header, headervars, keepAlive, replies>>

\* libxml2 may notice in the middle that the document is no good.
ParseBodyBreaks ==
    /\ InBody /\ remaining > Len(buffer)
    /\ \E p \in Range(fed \o Chunk) : p[1] # "body" \/ HeaderOf(p).xml = "malformed"
    /\ remaining' = remaining - Len(Chunk)
    /\ fed' = fed \o Chunk
    /\ Replies("BadRequest", TRUE)
    /\ UNCHANGED <<sent, wire, state, header, headervars, keepAlive, replies>>

-----------------------------------------------------------------------------
(* write *)

WriteDone ==
    /\ pc = "write"
    /\ replies' = Append(replies, <<reply[1], heads, got \o fed>>)
    /\ reply' = NoReply
    /\ pc' = IF reply[2] THEN "closed" ELSE "read"
    /\ UNCHANGED <<sent, wire, buffer, state, header, headervars, bodyvars>>

WriteFails ==
    /\ pc = "write"
    /\ reply' = NoReply /\ pc' = "closed"
    /\ UNCHANGED <<sent, wire, buffer, state, header, headervars, bodyvars, replies>>

Parse == ReadOn \/ ParsePart \/ ParseGarbage \/ ParseHeader \/ ParseBodyPart \/ ParseBodyEnd

Reads == \E n \in 1 .. Len(wire) : Read(n)

CNext ==
    \/ \E r \in Requests : ClientSends(r)
    \/ Reads \/ ReadFails
    \/ Parse \/ ParseBodyBreaks
    \/ WriteDone \/ WriteFails

CSpec == CInit /\ [][CNext]_cvars

\* asio completes a read when there are bytes, and a write.
CFairSpec == CSpec /\ WF_cvars(Reads) /\ WF_cvars(Parse) /\ WF_cvars(WriteDone \/ WriteFails)

-----------------------------------------------------------------------------
(* Properties *)

Status(i) == replies[i][1]

\* An Ok answers a request that is in order and of which exactly what was sent
\* was read: its whole header and its whole body, and nothing of another one.
\* No request is answered twice, and of a pipelined request that a read lost a
\* piece of, the rest never gets an Ok.  The request says how long it is
\* ("missing Content-Length header", http_server.cpp:350); the exception is one
\* after a request that was answered and said so, because the headers of that
\* one are still in m_request (:399).
OkIsOwn ==
    \A i \in DOMAIN replies : Status(i) = "Ok" =>
        LET n == replies[i][2] IN
        /\ n \in DOMAIN sent /\ sent[n].syntax /\ sent[n].target /\ sent[n].xml = "answered"
        /\ sent[n].type \in {"none", "soap"}
        /\ replies[i][3] = Pieces(n, sent[n])
        /\ \A j \in 1 .. i - 1 : replies[j][2] < n
        /\ sent[n].length # <<>>
           \/ \E j \in 1 .. i - 1 : Status(j) = "Ok" /\ sent[replies[j][2]].length # <<>>

\* The headers of a connection add up over its requests: of the requests that
\* say how long they are, one is answered with Ok, and the next one is refused.
OneOwnLength ==
    \A i, j \in DOMAIN replies :
        /\ i < j /\ Status(i) = "Ok"
        /\ sent[replies[i][2]].length # <<>> /\ sent[replies[j][2]].length # <<>>
        => Status(j) # "Ok"

Pipelined == \E i \in DOMAIN sent : sent[i].early

\* A length of 0 with no body, and no length of its own but a body shorter than
\* that of an earlier request: after the header parseIncoming reads on, for
\* bytes that do not come.
ReadOnFor(n) ==
    \/ sent[n].length = <<0>> /\ sent[n].body = 0
    \/ /\ sent[n].length = <<>>
       /\ \E m \in 1 .. n - 1 : sent[m].length # <<>> /\ sent[m].length[1] > sent[n].body

\* A client that sends its requests one at a time, each with at least as many
\* bytes as its length says, gets an answer to each, or the end of the
\* connection, however they are cut into reads.  The exceptions are those that
\* parseIncoming reads on for: they wait until the connection is collected.
RequestAnswered ==
    [](Waiting => <>(~Waiting \/ pc = "closed" \/ Pipelined \/ \E n \in DOMAIN sent : ReadOnFor(n)))
=============================================================================
