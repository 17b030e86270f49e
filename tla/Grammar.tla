------------------------------- MODULE Grammar -------------------------------
(***************************************************************************)
(* What the parsers of FTP, SIP and HTTP (ftp/grammar, sip/grammar,        *)
(* http/grammar, HTTPParser.h) find in one message: the operations that    *)
(* class Parser (parser.cc) hands to Flow::modify.                         *)
(*                                                                         *)
(* The scanners and the tables of the parsers are generated.  A message    *)
(* comes as the lines, or tags, the grammars reduce, each a step; of a     *)
(* line there are the tokens that matter, one byte apart.  Operations hold *)
(* the size of newdata.  Mapping the endpoints is module DoApp's.     *)
(***************************************************************************)
EXTENDS Integers, Sequences, SequencesExt

CONSTANTS
  Ip6Sizes,    (* lengths of an IPv6 address, an address of a link        *)
  PortSizes,   (* lengths of a port                                       *)
  Ip4Size, Port4Size,  (* lengths of the mapped address and port          *)
  Lengths,     (* values of Content-Length                                *)
  Tags,        (* HTML tags: "a", "script", "textarea" and others         *)
  MaxMedia,    (* bound: m= lines after a c= line                         *)
  MaxLines     (* bound: lines or tags of a message                       *)

ASSUME GrammarAssumption ==
  /\ Ip6Sizes \subseteq Nat \ {0} /\ PortSizes \subseteq Nat \ {0}
  /\ Ip4Size \in Nat \ {0} /\ Port4Size \in Nat \ {0}
  /\ Lengths \subseteq Nat /\ MaxMedia \in Nat /\ MaxLines \in Nat

VARIABLES
  kind,         (* the parser: ftp, sip or http                           *)
  stage,        (* where in the message it is                             *)
  end,          (* bytes read                                             *)
  ops,          (* Parser::ops                                            *)
  content_len_, (* SIPParser: the Content-Length or NoToken               *)
  c_ip_,        (* SIPParser: the address of the last c= line or NoToken  *)
  curTag, ignore, (* HTTPParser                                           *)
  lines,        (* lines so far                                           *)
  bodyAt,       (* history: where the body begins                         *)
  media,        (* history: m= lines since the last c= line               *)
  raw,          (* history: the script or textarea we are in, or NoTag    *)
  odd,          (* history: one was ended that was not begun              *)
  links         (* history: addresses in links                            *)

sipVars  == <<content_len_, c_ip_, bodyAt, media>>
htmlVars == <<curTag, ignore, raw, odd, links>>
grVars   == <<kind, stage, end, ops, lines, sipVars, htmlVars>>

NoTag   == ""
NoToken == [pos |-> 0, pos_end |-> 0, num |-> 0]
Raw     == {"script", "textarea"}

Token(pos, n) == [pos |-> pos, pos_end |-> pos + n, num |-> 0]

(* The first token of a line and the one after another, of length n.       *)
First(n)    == Token(end + 1, n)
After(t, n) == Token(t.pos_end + 1, n)

(* A line whose last token is t has been read.                             *)
Read(t) ==
  /\ lines < MaxLines
  /\ lines' = lines + 1 /\ end' = t.pos_end + 1
  /\ UNCHANGED kind
-----------------------------------------------------------------------------
(* class Parser.                                                           *)

Operation(t, size, count) ==
  [start_pos |-> t.pos, end_pos |-> t.pos_end, size |-> size, cnt |-> count,
   num |-> 0]

AddOperations(os) == ops' = ops \o os

Delta(op) == op.size - (op.end_pos - op.start_pos)

(* Faulty variant, for a mutant only: all operations count.                *)
TotalDeltaAll ==
  LET sum[i \in 0 .. Len(ops)] ==
        IF i = 0 THEN 0 ELSE sum[i - 1] + Delta(ops[i])
  IN  sum[Len(ops)]

TotalDelta ==
  LET sum[i \in 0 .. Len(ops)] ==
        IF i = 0 THEN 0
        ELSE sum[i - 1] + IF ops[i].cnt THEN Delta(ops[i]) ELSE 0
  IN  sum[Len(ops)]
-----------------------------------------------------------------------------
(* FTP.  A message is one line.                                            *)

FtpOther ==
  /\ kind = "ftp" /\ stage = "start" /\ stage' = "done"
  /\ Read(First(4))
  /\ UNCHANGED <<ops, sipVars, htmlVars>>

Eprt ==
  /\ kind = "ftp" /\ stage = "start" /\ stage' = "done"
  /\ \E a \in Ip6Sizes, p \in PortSizes :
       LET family == After(First(4), 1)
           ip     == After(family, a)
           port   == After(ip, p)
       IN  /\ AddOperations(<<Operation(family, 1, FALSE),
                              Operation(ip, Ip4Size, FALSE),
                              Operation(port, Port4Size, FALSE)>>)
           /\ Read(port)
  /\ UNCHANGED <<sipVars, htmlVars>>
-----------------------------------------------------------------------------
(* SIP.                                                                    *)

RequestLine ==
  /\ kind = "sip" /\ stage = "start" /\ stage' = "header"
  /\ Read(First(6))
  /\ UNCHANGED <<ops, sipVars, htmlVars>>

(* A line of the header; also one that is not understood (header: error).  *)
OtherHeader ==
  /\ kind = "sip" /\ stage \in {"header", "headers"} /\ stage' = "headers"
  /\ Read(First(1))
  /\ UNCHANGED <<ops, sipVars, htmlVars>>

Digits(n) == IF n < 10 THEN 1 ELSE IF n < 100 THEN 2 ELSE 3

ContentLength ==
  /\ kind = "sip" /\ stage \in {"header", "headers"} /\ stage' = "headers"
  /\ \E n \in Lengths :
       LET t == After(First(14), Digits(n)) IN
       /\ content_len_' = [t EXCEPT !.num = n]
       /\ Read(t)
  /\ UNCHANGED <<ops, c_ip_, bodyAt, media, htmlVars>>

(* Via and Contact, which differ in the text around the endpoint.          *)
EndpointHeader ==
  /\ kind = "sip" /\ stage \in {"header", "headers"} /\ stage' = "headers"
  /\ \E a \in Ip6Sizes, p \in PortSizes :
       LET ip   == After(First(3), a)
           port == After(ip, p)
       IN  /\ AddOperations(<<Operation(ip, Ip4Size, FALSE),
                              Operation(port, Port4Size, FALSE)>>)
           /\ Read(port)
  /\ UNCHANGED <<sipVars, htmlVars>>

(* Without any header the error rule stands for one.                       *)
EmptyLine ==
  /\ kind = "sip" /\ stage \in {"header", "headers"} /\ stage' = "body"
  /\ Read(First(1)) /\ bodyAt' = end'
  /\ UNCHANGED <<ops, content_len_, c_ip_, media, htmlVars>>

SdpOther ==
  /\ kind = "sip" /\ stage \in {"body", "sdp"} /\ stage' = "sdp"
  /\ Read(After(First(1), 1))
  /\ UNCHANGED <<ops, sipVars, htmlVars>>

(* A line of the body that is not understood.  The grammar's only error    *)
(* rule is that of header: what has been read of the body is dropped with  *)
(* the line, whose end is taken for the empty line.                        *)
SdpError ==
  /\ kind = "sip" /\ stage \in {"body", "sdp"} /\ stage' = "body"
  /\ Read(After(First(1), 1))
  /\ UNCHANGED <<ops, sipVars, htmlVars>>

(* Faulty variant, for a mutant only: the address is replaced here too.    *)
SdpCBoth ==
  /\ kind = "sip" /\ stage \in {"body", "sdp"} /\ stage' = "sdp"
  /\ \E a \in Ip6Sizes :
       LET family == After(After(First(1), 2), 3)
           ip     == After(family, a)
       IN  /\ c_ip_' = ip
           /\ AddOperations(<<Operation(family, 3, TRUE), Operation(ip, Ip4Size, TRUE)>>)
           /\ Read(ip)
  /\ media' = 0
  /\ UNCHANGED <<content_len_, bodyAt, htmlVars>>

SdpC ==
  /\ kind = "sip" /\ stage \in {"body", "sdp"} /\ stage' = "sdp"
  /\ \E a \in Ip6Sizes :
       LET family == After(After(First(1), 2), 3)
           ip     == After(family, a)
       IN  /\ c_ip_' = ip
           /\ AddOperations(<<Operation(family, 3, TRUE)>>)
           /\ Read(ip)
  /\ media' = 0
  /\ UNCHANGED <<content_len_, bodyAt, htmlVars>>

SdpM ==
  /\ kind = "sip" /\ stage \in {"body", "sdp"} /\ stage' = "sdp"
  /\ media < MaxMedia /\ media' = media + 1
  /\ \E p \in PortSizes :
       LET port == After(After(First(1), 5), p) IN
       /\ AddOperations(IF c_ip_ = NoToken THEN <<>>
                        ELSE <<Operation(c_ip_, Ip4Size, TRUE),
                               Operation(port, Port4Size, TRUE)>>)
       /\ Read(port)
  /\ UNCHANGED <<content_len_, c_ip_, bodyAt, htmlVars>>

(* The message ends: sipmessage, with the new Content-Length.              *)
SipMessage ==
  LET n == content_len_.num + TotalDelta IN
  /\ kind = "sip" /\ stage = "sdp" /\ stage' = "done"
  /\ AddOperations(IF content_len_ = NoToken THEN <<>>
                   ELSE <<[Operation(content_len_, Digits(n), FALSE) EXCEPT !.num = n]>>)
  /\ UNCHANGED <<kind, end, lines, sipVars, htmlVars>>

(* It ends too early; the operations found so far are used all the same.   *)
SipFails ==
  /\ kind = "sip" /\ stage \notin {"sdp", "done", "failed"} /\ stage' = "failed"
  /\ UNCHANGED <<kind, end, ops, lines, sipVars, htmlVars>>
-----------------------------------------------------------------------------
(* HTTP.  The status line and the headers have no effect but emptyline's.  *)

HttpHeaders ==
  /\ kind = "http" /\ stage = "start" /\ stage' = "tags"
  /\ ignore' = 0
  /\ Read(First(1))
  /\ UNCHANGED <<ops, sipVars, curTag, raw, odd, links>>

BeginTag(t) ==
  IF ignore # 0 THEN UNCHANGED <<curTag, ignore>>
  ELSE curTag' = t /\ ignore' = IF t \in Raw THEN 1 ELSE 0

(* A tag, perhaps with an address in its href: '.' becomes '|'.            *)
StartTag ==
  /\ kind = "http" /\ stage = "tags" /\ UNCHANGED stage
  /\ \E tag \in Tags :
       /\ BeginTag(tag)
       /\ raw' = IF raw = NoTag /\ tag \in Raw THEN tag ELSE raw
       /\ \/ Read(First(1)) /\ UNCHANGED <<ops, links>>
          \/ \E a \in Ip6Sizes :
               LET t  == After(First(1), a)
                   op == Operation(t, a, FALSE)
               IN  /\ AddOperations(IF curTag' = "a" THEN <<op>> ELSE <<>>)
                   /\ links' = IF raw = NoTag /\ tag = "a" THEN links \cup {op}
                               ELSE links
                   /\ Read(t)
  /\ UNCHANGED <<sipVars, odd>>

(* Faulty variant, for a mutant only: the counter stays.                   *)
EndTagUncounted(t) == UNCHANGED <<curTag, ignore>>

EndTag(t) ==
  /\ ignore' = IF t \in Raw THEN ignore - 1 ELSE ignore
  /\ UNCHANGED curTag

CloseTag ==
  /\ kind = "http" /\ stage = "tags" /\ UNCHANGED stage
  /\ \E tag \in Tags :
       /\ EndTag(tag)
       /\ raw' = IF tag = raw THEN NoTag ELSE raw
       /\ odd' = (odd \/ (tag \in Raw /\ tag # raw))
  /\ Read(First(1))
  /\ UNCHANGED <<ops, sipVars, links>>
-----------------------------------------------------------------------------
GrInit ==
  /\ kind \in {"ftp", "sip", "http"} /\ stage = "start"
  /\ end = 0 /\ ops = <<>> /\ lines = 0
  /\ content_len_ = NoToken /\ c_ip_ = NoToken /\ bodyAt = 0 /\ media = 0
  /\ curTag = NoTag /\ ignore \in {0, 1}   (* ignore is not initialised *)
  /\ raw = NoTag /\ odd = FALSE /\ links = {}

GrNext ==
  \/ FtpOther \/ Eprt
  \/ RequestLine \/ OtherHeader \/ ContentLength \/ EndpointHeader \/ EmptyLine
  \/ SdpOther \/ SdpError \/ SdpC \/ SdpM \/ SipMessage \/ SipFails
  \/ HttpHeaders \/ StartTag \/ CloseTag

GrSpec == GrInit /\ [][GrNext]_grVars
-----------------------------------------------------------------------------
(***************************************************************************)
(* Operations lie in what has been read, and no two of them touch the same *)
(* bytes, although SIP replaces an address when it meets a later line and  *)
(* its Content-Length at the very end: what Flow::modify relies on         *)
(* (PayloadAssumption of FlowModify; flow.cc:128-160).  Claimed of SIP     *)
(* with one m= line for a c= line: sip/grammar:58-65 replaces the address  *)
(* once for each.                                                          *)
(***************************************************************************)
Apart(a1, b1, a2, b2) == b1 <= a2 \/ b2 <= a1
Fits(s, len) ==
  /\ \A i \in DOMAIN s :
       s[i].start_pos < s[i].end_pos /\ s[i].end_pos <= len /\ s[i].size > 0
  /\ \A i, j \in DOMAIN s :
       i # j => Apart(s[i].start_pos, s[i].end_pos, s[j].start_pos, s[j].end_pos)

OpsFit == Fits(ops, end)

(***************************************************************************)
(* The Content-Length of a SIP message changes by as much as its body      *)
(* does, whatever is replaced before and after it (sip/grammar:11-16,      *)
(* parser.cc:63-69).                                                       *)
(***************************************************************************)
InBody == {op \in ToSet(ops) : op.start_pos >= bodyAt}
BodyGrowth == FoldSet(LAMBDA op, sum : sum + Delta(op), 0, InBody)
ContentLengthRight ==
  kind = "sip" /\ stage = "done" /\ content_len_ # NoToken =>
    Last(ops).num = content_len_.num + BodyGrowth

(***************************************************************************)
(* Of a page, exactly the addresses in links are changed, those in scripts *)
(* and text areas are not (HTTPParser.h:59-87) - as long as no script or   *)
(* text area is ended that was not begun, after which the counter ignore   *)
(* no longer tells.                                                        *)
(***************************************************************************)
LinksFound == kind = "http" /\ ~odd => ToSet(ops) = links
=============================================================================
