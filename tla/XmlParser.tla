------------------------------ MODULE XmlParser ------------------------------
(***************************************************************************)
(* xmlParser/xml_parser.go: a request document becomes the command list   *)
(* the dispatcher runs, or one error for the whole request.  A document is *)
(* its root element with its attributes and child elements; attribute and *)
(* text values are strings, "" standing for a missing or empty attribute   *)
(* (SelectAttrValue(key, "") cannot tell them apart).  ParseFloat is the   *)
(* table Decimal over the texts the model uses; any other text fails.     *)
(* The XML text itself (etree's tokenizer) is abstracted to the flag       *)
(* wellFormed.                                                            *)
(***************************************************************************)
EXTENDS Integers, Sequences, SequencesExt, Functions

CONSTANTS
    Uids,       \* texts of account ids
    Syms,       \* texts of symbol names
    NumTexts,   \* texts of amounts, prices and balances (some not numbers)
    IdTexts,    \* texts of order ids in <query> and <cancel>
    MaxChildren,\* bound: child elements of the root
    NaN         \* model value: the float64 NaN

ASSUME NaN \notin Int

\* strconv.ParseFloat(s, 64) on the texts NumTexts may hold.
Decimal == ("-2" :> -2) @@ ("-1" :> -1) @@ ("0" :> 0) @@ ("1" :> 1)
           @@ ("2" :> 2) @@ ("2e0" :> 2) @@ ("NaN" :> NaN)
IsNumber(t) == t \in DOMAIN Decimal

Missing == ""

\* Go's float64 a < b: false whenever an operand is NaN.
FloatLess(a, b) == a # NaN /\ b # NaN /\ a < b

\* The elements a request may contain.
InnerAccounts == [tag : {"account", "other"}, id : Uids \cup {Missing},
                  text : NumTexts]
CreateChildren ==
    [tag : {"account"}, id : Uids \cup {Missing}, balance : NumTexts]
    \cup [tag : {"symbol"}, sym : Syms \cup {Missing},
          accounts : {<<>>} \cup {<<e>> : e \in InnerAccounts}]
    \cup [tag : {"other"}]
TransactionChildren ==
    [tag : {"order"}, sym : Syms \cup {Missing}, amount : NumTexts,
     limit : NumTexts]
    \cup [tag : {"query", "cancel"}, id : IdTexts \cup {Missing}]
    \cup [tag : {"other"}]

VARIABLE doc    \* the request being read

-----------------------------------------------------------------------------
(* Parse.                                                                   *)

\* readElementWith1Attr / 2Attr / 3Attr: "" unless every attribute is there.
Present(vals) == \A i \in DOMAIN vals : vals[i] # Missing

\* The create child c is malformed: Parse returns "xml format error".
CreateChildBad(c) ==
    \/ c.tag = "account" /\ ~(Present(<<c.id, c.balance>>) /\ IsNumber(c.balance))
    \/ /\ c.tag = "symbol"
       /\ \/ c.sym = Missing
          \/ \E i \in DOMAIN c.accounts : c.accounts[i].tag # "account"
          \/ \E i \in DOMAIN c.accounts :
                c.accounts[i].id = Missing \/ ~IsNumber(c.accounts[i].text)

\* The commands a well-formed create child adds; other tags add none.
CreateCommands(c) ==
    CASE c.tag = "account" ->
            <<[op |-> "create", uid |-> c.id, balance |-> Decimal[c.balance]]>>
      [] c.tag = "symbol" ->
            [i \in DOMAIN c.accounts |->
                [op |-> "seed", uid |-> c.accounts[i].id, sym |-> c.sym,
                 amount |-> Decimal[c.accounts[i].text]]]
      [] OTHER -> <<>>

\* The transactions child c is malformed.
TransactionChildBad(c) ==
    \/ c.tag = "order" /\ ~(/\ Present(<<c.sym, c.amount, c.limit>>)
                            /\ IsNumber(c.amount) /\ IsNumber(c.limit))
    \/ c.tag \in {"query", "cancel"} /\ c.id = Missing
    \/ c.tag = "other"

\* The magnitude a sell order of XML amount a is submitted with.
SellAmount(a) == -a

\* The commands of a well-formed transactions child of account uid: an
\* order's sign selects its side, and an order of amount 0 or NaN, which
\* passes neither sign test, adds none.
TransactionCommands(uid, c) ==
    CASE c.tag = "order" ->
            LET a == Decimal[c.amount]
                o(side, n) == [op |-> side, uid |-> uid, sym |-> c.sym,
                               price |-> Decimal[c.limit], amount |-> n]
            IN IF FloatLess(a, 0) THEN <<o("sell", SellAmount(a))>>
               ELSE IF FloatLess(0, a) THEN <<o("buy", a)>> ELSE <<>>
      [] OTHER -> <<[op |-> c.tag, id |-> c.id]>>

\* Parse: <<"ok", commands>> or <<"error">>.
Parse(d) ==
    LET ch == d.children
    IN CASE ~d.wellFormed -> <<"error">>
         [] d.tag = "create" ->
              IF \E i \in DOMAIN ch : CreateChildBad(ch[i]) THEN <<"error">>
              ELSE <<"ok", FlattenSeq([i \in DOMAIN ch |-> CreateCommands(ch[i])])>>
         [] d.tag = "transactions" ->
              IF \/ ch = <<>> \/ d.id = Missing
                 \/ \E i \in DOMAIN ch : TransactionChildBad(ch[i])
              THEN <<"error">>
              ELSE <<"ok", FlattenSeq([i \in DOMAIN ch |->
                                         TransactionCommands(d.id, ch[i])])>>
         [] OTHER -> <<"error">>

-----------------------------------------------------------------------------
(* The requests: a root element, then its children one at a time.          *)

Init == doc \in [wellFormed : BOOLEAN, tag : {"create", "transactions", "other"},
                 id : Uids \cup {Missing}, children : {<<>>}]

AddChild ==
    /\ Len(doc.children) < MaxChildren
    /\ \E c \in IF doc.tag = "create" THEN CreateChildren ELSE TransactionChildren :
          doc' = [doc EXCEPT !.children = Append(@, c)]

Spec == Init /\ [][AddChild]_doc

-----------------------------------------------------------------------------
(* Properties.                                                              *)

\* The leaf elements of a request that each stand for one command.
Leaves(d) ==
    FoldLeft(LAMBDA n, c : n + (IF c.tag = "symbol" THEN Len(c.accounts) ELSE 1),
             0, d.children)

\* Spec 6: a request with an unrecognized element is rejected wholesale,
\* and an accepted one is answered with one <results> child per element,
\* in input order: so it yields one command per element.
OneCommandPerElement ==
    Parse(doc)[1] = "ok" => Len(Parse(doc)[2]) = Leaves(doc)
=============================================================================
