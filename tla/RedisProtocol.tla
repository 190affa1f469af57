--------------------------- MODULE RedisProtocol ---------------------------
(***************************************************************************)
(* What a Redis server writes, external: replies are trees, of which the   *)
(* server writes one item after the other, each array before its elements. *)
(* An item has a place in the reply (path), a byte for its type (sign), a  *)
(* line (text) and, if it is a string, as many bytes as the line says      *)
(* (data).  Nothing here says how a reader gets the tree back; the numeral *)
(* in a line, the signs and the nodes are those of RedisReader.            *)
(***************************************************************************)
EXTENDS RedisReader

LineEnd == <<"CR", "LF">>

IsBulk(item) == item.sign = "$" /\ readLongLong(item.text) >= 0

ItemBytes(item) == <<item.sign>> \o item.text \o LineEnd \o (IF IsBulk(item) THEN item.data \o LineEnd ELSE <<>>)

\* How many items are below this one.
Elements(item) == IF item.sign = "*" THEN readLongLong(item.text) ELSE 0

\* What the user gets for it.
ItemNode(item) ==
    CASE item.sign = "-" -> Node("error", item.text)
      [] item.sign = "+" -> Node("status", item.text)
      [] item.sign = ":" -> Node("integer", <<readLongLong(item.text)>>)
      [] item.sign = "$" -> IF IsBulk(item) THEN Node("string", item.data) ELSE Node("nil", <<>>)
      [] item.sign = "*" -> IF Elements(item) = -1 THEN Node("nil", <<>>) ELSE Node("array", <<Elements(item)>>)

\* No byte of the protocol, or an array below as many as a reader has tasks for.
Refused(item) == item.sign \notin DOMAIN TypeOf \/ (item.sign = "*" /\ Len(item.path) + 1 = STACK)

\* The order of a tree's places: a place before those below it, and these
\* before those of the next sibling.
Before(p, q) ==
    \/ Len(p) < Len(q) /\ \A m \in DOMAIN p : p[m] = q[m]
    \/ \E n \in DOMAIN p \cap DOMAIN q : p[n] < q[n] /\ \A m \in 1..(n - 1) : p[m] = q[m]

InOrder(items) == \A i, j \in DOMAIN items : i < j => Before(items[i].path, items[j].path)

\* Each item but the root is an element of an array.
HasParents(items) ==
    \A i \in DOMAIN items : \A n \in DOMAIN items[i].path :
        \E j \in DOMAIN items : /\ items[j].path = SubSeq(items[i].path, 1, n - 1)
                                /\ items[i].path[n] < Elements(items[j])

\* Each element of an array is there, unless what is refused comes before it.
HasElements(items) ==
    \A i \in DOMAIN items : \A n \in 0..(Elements(items[i]) - 1) :
        LET child == Append(items[i].path, n)
        IN  \/ \E j \in DOMAIN items : items[j].path = child
            \/ Refused(Last(items)) /\ \A j \in DOMAIN items : Before(items[j].path, child)

\* A line ends where it says, and a string is as long as its line says.
WellWritten(item) ==
    /\ \A n \in 1..(Len(item.text) - 1) : ~(item.text[n] = "CR" /\ item.text[n + 1] = "LF")
    /\ IsBulk(item) => Len(item.data) = readLongLong(item.text)

\* A reply as the server writes it; nothing follows what is refused.
IsAnswer(items) ==
    /\ items # <<>>
    /\ \A i \in DOMAIN items : WellWritten(items[i])
    /\ \A i \in 1..(Len(items) - 1) : ~Refused(items[i])
    /\ InOrder(items)
    /\ HasParents(items)
    /\ HasElements(items)

AnswerBytes(items) == FlattenSeq([i \in DOMAIN items |-> ItemBytes(items[i])])

\* The reply the bytes stand for, or none.
AnswerReply(items) ==
    IF Refused(Last(items)) THEN NoReply
    ELSE [path \in {items[i].path : i \in DOMAIN items} |->
              ItemNode(items[CHOOSE i \in DOMAIN items : items[i].path = path])]

=============================================================================
