---------------------------- MODULE DnsResponder ----------------------------
(***************************************************************************)
(* handle_dns (dns_server.py): the response to a query, from the record    *)
(* table.  Nothing is forwarded: what is not on record does not exist.     *)
(*                                                                         *)
(* A message is what parsing leaves of it; the encoding of names and the   *)
(* headers of the frame are left out (PacketPath sends it back).           *)
(***************************************************************************)
EXTENDS DnsRecords, Sequences, Naturals

\* The name for the reverse lookup of an address, and the same without the
\* ending ".in-addr.arpa", which _ptr_name_to_ip takes as well.
Arpa(a) == <<"arpa", a>>
Bare(a) == <<"bare", a>>
ASSUME NamesAssumption == \A a \in Address : {Arpa(a), Bare(a)} \cap Hostname = {}

QueryNames == Hostname \cup {Arpa(a) : a \in Address} \cup {Bare(a) : a \in Address}

Questions ==
  [name : QueryNames, type : {"A", "PTR", "other"}, class : {"IN", "other"}]

\* Mutant: an address has the name that resolves to it.
LookupByForward(q) ==
  IF q.class = "other" THEN None
  ELSE IF q.name \in Hostname THEN IF q.type = "A" THEN records[q.name] ELSE None
  ELSE LET hs == {h \in Hostname : records[h] = q.name[2]} IN
       IF q.type = "PTR" /\ hs # {} THEN CHOOSE h \in hs : TRUE ELSE None

(***************************************************************************)
(* Records are kept as add_record got the name, and are looked up as the   *)
(* query gives it: letters of another case make it another name.           *)
(***************************************************************************)
Lookup(q) ==
  IF q.class = "other" THEN None
  ELSE CASE q.type = "A" /\ q.name \in Hostname       -> records[q.name]
         [] q.type = "PTR" /\ q.name \notin Hostname  -> ipToHostname[q.name[2]]
         [] OTHER                                     -> None

\* The loop over the questions: the answers, each with the place of its
\* question, in whose order they are appended.
Answers(questions) ==
  {[place |-> i, owner |-> questions[i].name, type |-> questions[i].type,
    data |-> Lookup(questions[i])] :
     i \in {j \in DOMAIN questions : Lookup(questions[j]) # None}}

(***************************************************************************)
(* _build_response: only the first question is repeated, and the owner of  *)
(* every answer is written as a pointer to it.                             *)
(***************************************************************************)
BuildResponse(selected, answers) ==
  [rcode |-> IF answers = {} THEN "NXDOMAIN" ELSE "NOERROR",
   questions |-> selected,
   answers |-> {[answer EXCEPT !.owner = selected[1].name] : answer \in answers}]

\* A message that is itself a response, or of another opcode, gets none.
Response(msg) ==
  IF msg.isResponse \/ msg.opcode # 0 THEN None
  ELSE BuildResponse(SubSeq(msg.questions, 1, 1), Answers(msg.questions))

-----------------------------------------------------------------------------
\* What a client does that looks something up: one question in a query, and
\* the answer that has the name and the type it asked for.
Query(name, type) ==
  [isResponse |-> FALSE, opcode |-> 0,
   questions |-> <<[name |-> name, type |-> type, class |-> "IN"]>>]

Told(name, type) ==
  {answer.data : answer \in
     {x \in Response(Query(name, type)).answers : x.owner = name /\ x.type = type}}

(***************************************************************************)
(* A client that looks up an address, and then the name that it was told,  *)
(* is told the address, and nothing else ("add_record" keeps two maps, and *)
(* each of the two queries reads one of them).                             *)
(***************************************************************************)
ReverseThenForward ==
  \A a \in Address : \A h \in Told(Arpa(a), "PTR") : Told(h, "A") = {a}
=============================================================================
