----------------------------- MODULE Primitives -----------------------------
(***************************************************************************)
(* The serialisation of src/primatives and its Box, Rc and Arc readers:    *)
(* to_writer, from_reader and size of the integers, bool, Option, arrays,  *)
(* byte arrays and tuples, composed as types compose.  The nesting of the  *)
(* generated calls is a list of tasks.  A byte is below ByteBase (256 in   *)
(* the code); an integer is its bits taken as unsigned.                    *)
(***************************************************************************)
EXTENDS Naturals, Sequences

CONSTANTS
    ByteBase,   \* values of a byte
    Shapes,     \* the types read and written, each with values of it
    PeerBytes   \* lengths of the byte strings a peer makes up

ASSUME ByteBaseAssumption == ByteBase \in Nat \ {0, 1}
ASSUME PeerBytesAssumption == PeerBytes \subseteq Nat

\* ByteBase^n, as a recursion that proofs can unfold.
BytePower[n \in Nat] == IF n = 0 THEN 1 ELSE ByteBase * BytePower[n - 1]

VARIABLES
    type,     \* what is being sent
    body,     \* the value written, Nothing when the peer made the bytes up
    tasks,    \* calls still to make, the next one first
    stream,   \* bytes on the wire
    at,       \* bytes written or read
    stack,    \* values read, the last one first
    step,     \* "none", "write", "read", "done", "eof"
    junk      \* TRUE: memory nobody initialised was dropped as a value

bodyVars == <<type, body, tasks, stream, at, stack, step, junk>>

-----------------------------------------------------------------------------
(* Values, each with its Serializable::size. *)

Value(kind, n, items, size) == [kind |-> kind, n |-> n, items |-> items, size |-> size]
SizeOf(items) ==
    LET total[i \in 0..Len(items)] == IF i = 0 THEN 0 ELSE total[i - 1] + items[i].size
    IN  total[Len(items)]

IntValue(width, n) == Value("int", n, <<width>>, width)
BoolValue(n) == Value("bool", n, <<>>, 1)
NoneValue == Value("option", 0, <<>>, 1)
SomeSizeBare(item) == item.size
SomeSize(item) == 1 + item.size
SomeValue(item) == Value("option", 1, <<item>>, SomeSize(item))
ManyValue(kind, items) == Value(kind, Len(items), items, SizeOf(items))
Nothing == Value("nothing", 0, <<>>, 0)

\* Types.  `owns`: dropping a value of it frees memory; `fragile`: it has an
\* array of such a type in it.
Type(kind, width, of, owns, fragile) ==
    [kind |-> kind, width |-> width, of |-> of, owns |-> owns, fragile |-> fragile]
IntType(width) == Type("int", width, <<>>, FALSE, FALSE)
BytesType(width) == Type("bytes", width, <<>>, FALSE, FALSE)
BoolType == Type("bool", 1, <<>>, FALSE, FALSE)
Owned(t) == Type("owned", 0, <<t>>, TRUE, t.fragile)
OptionOf(t) == Type("option", 1, <<t>>, t.owns, t.fragile)
ArrayOf(n, t) == Type("array", n, <<t>>, t.owns /\ n > 0, (t.owns /\ n > 0) \/ t.fragile)
PairOf(s, t) == Type("tuple", 2, <<s, t>>, s.owns \/ t.owns, s.fragile \/ t.fragile)

\* A shape is a type with values of it, its parts are shapes too: what derives,
\* generics and tuples may be nested to.
IntShape(s) ==
    LET w == s.type.width IN
        /\ w \in Nat /\ s.type = IntType(w)
        /\ s.values \subseteq {IntValue(w, n) : n \in 0..(BytePower[w] - 1)}
BytesShape(s) ==
    LET w == s.type.width IN
        /\ w \in Nat /\ s.type = BytesType(w)
        /\ s.values \subseteq {Value("bytes", w, <<b>>, w) : b \in [1..w -> 0..(ByteBase - 1)]}
BoolShape(s) == s.type = BoolType /\ s.values \subseteq {BoolValue(0), BoolValue(1)}
OptionShape(s) ==
    \E r \in Shapes :
        /\ s.type = OptionOf(r.type)
        /\ s.values \subseteq {NoneValue} \union {SomeValue(v) : v \in r.values}
ArrayShape(s) ==
    LET n == s.type.width IN
        /\ n \in Nat
        /\ \E r \in Shapes :
               /\ s.type = ArrayOf(n, r.type)
               /\ s.values \subseteq {ManyValue("array", items) : items \in [1..n -> r.values]}
TupleShape(s) ==
    \E q, r \in Shapes :
        /\ s.type = PairOf(q.type, r.type)
        /\ s.values \subseteq {ManyValue("tuple", <<v, w>>) : v \in q.values, w \in r.values}
\* Boxes, also those of boxes, hold values of a kind of their own in the end.
OwnedShape(s) ==
    /\ \E r \in Shapes : s.type = Owned(r.type) /\ s.values \subseteq r.values
    /\ \A v \in s.values : \E r \in Shapes :
           r.type.kind # "owned" /\ r.type.kind = v.kind /\ v \in r.values

ASSUME ShapesAssumption ==
    \A s \in Shapes : \/ IntShape(s) \/ BytesShape(s) \/ BoolShape(s) \/ OptionShape(s)
                      \/ ArrayShape(s) \/ TupleShape(s) \/ OwnedShape(s)
\* A size is a usize.
ASSUME SizesAssumption == \A s \in Shapes : \A v \in s.values : v.size \in Nat

-----------------------------------------------------------------------------
(* to_writer. *)

\* to_be_bytes and from_be_bytes.
BigEndian(width, n) == [i \in 1..width |-> (n \div BytePower[width - i]) % ByteBase]
FromBigEndian(s) ==
    LET value[i \in 0..Len(s)] == IF i = 0 THEN 0 ELSE value[i - 1] * ByteBase + s[i]
    IN  value[Len(s)]

\* What to_writer of a value writes itself, and the values it goes on with.
Direct(v) == IF v.kind = "int" THEN BigEndian(v.size, v.n)
             ELSE IF v.kind = "bytes" THEN v.items[1] ELSE <<>>
Parts(v) ==
    CASE v.kind = "bool" -> <<IntValue(1, v.n)>>
      [] v.kind = "option" -> <<BoolValue(v.n)>> \o v.items
      [] v.kind \in {"array", "tuple"} -> v.items
      [] OTHER -> <<>>

WriteValue ==
    /\ step = "write" /\ tasks # <<>>
    /\ stream' = stream \o Direct(Head(tasks))
    /\ at' = at + Len(Direct(Head(tasks)))
    /\ tasks' = Parts(Head(tasks)) \o Tail(tasks)
    /\ UNCHANGED <<type, body, stack, step, junk>>

\* A task of the reader: `read` a value of a type, or go on after one.
Task(op, t) == [op |-> op, of |-> t]

\* The peer reads; the connection may end anywhere, or go on after the value.
Delivered(s) == {SubSeq(s, 1, n) : n \in 0..Len(s)} \union {Append(s, 0), Append(s, 1)}
BodySent ==
    /\ step = "write" /\ tasks = <<>>
    /\ stream' \in Delivered(stream)
    /\ at' = 0 /\ step' = "read" /\ tasks' = <<Task("read", type)>>
    /\ UNCHANGED <<type, body, stack, junk>>

-----------------------------------------------------------------------------
(* from_reader. *)

Take(width) == SubSeq(stream, at + 1, at + width)
Reading(op) == step = "read" /\ tasks # <<>> /\ Head(tasks).op = op
Then(calls, values) ==
    /\ tasks' = calls \o Tail(tasks) /\ stack' = values
    /\ UNCHANGED <<type, body, stream, step>>

\* An array in the making is dropped with the items that have no value yet.
Unfilled == \E i \in DOMAIN tasks : tasks[i].op = "assign" /\ tasks[i].of.owns

\* read_exact of the bytes of an integer or of Bytes<N>.
ReadBytes ==
    /\ Reading("read") /\ Head(tasks).of.kind \in {"int", "bytes"}
    /\ LET w == Head(tasks).of.width
           got == IF Head(tasks).of.kind = "int" THEN IntValue(w, FromBigEndian(Take(w)))
                  ELSE Value("bytes", w, <<Take(w)>>, w)
       IN  IF at + w <= Len(stream)
           THEN at' = at + w /\ Then(<<>>, <<got>> \o stack) /\ UNCHANGED junk
           ELSE /\ step' = "eof" /\ junk' = (junk \/ Unfilled)
                /\ UNCHANGED <<type, body, tasks, stream, at, stack>>

\* The calls a composed type makes before it has a value.
Calls(t) ==
    CASE t.kind = "bool" -> <<Task("read", IntType(1)), Task("nonzero", t)>>
      [] t.kind = "option" -> <<Task("read", BoolType), Task("some", t)>>
      [] t.kind = "owned" -> <<Task("read", t.of[1])>>
      [] t.kind = "array" ->
             [i \in 1..(2 * t.width) |-> Task(IF i % 2 = 1 THEN "read" ELSE "assign", t.of[1])]
               \o <<Task("collect", t)>>
      [] t.kind = "tuple" ->
             [i \in 1..t.width |-> Task("read", t.of[i])] \o <<Task("collect", t)>>
ReadComposed ==
    /\ Reading("read") /\ Head(tasks).of.kind \notin {"int", "bytes"}
    /\ Then(Calls(Head(tasks).of), stack) /\ UNCHANGED <<at, junk>>

\* Every byte but 0 is true.
Truth(n) == IF n = 0 THEN 0 ELSE 1
ReadNonzero ==
    /\ Reading("nonzero")
    /\ Then(<<>>, <<BoolValue(Truth(Head(stack).n))>> \o Tail(stack)) /\ UNCHANGED <<at, junk>>

ReadOption ==
    /\ Reading("some")
    /\ IF Head(stack).n = 0
       THEN Then(<<>>, <<NoneValue>> \o Tail(stack))
       ELSE Then(<<Task("read", Head(tasks).of.of[1]), Task("wrap", Head(tasks).of)>>, Tail(stack))
    /\ UNCHANGED <<at, junk>>
WrapSome ==
    /\ Reading("wrap")
    /\ Then(<<>>, <<SomeValue(Head(stack))>> \o Tail(stack)) /\ UNCHANGED <<at, junk>>

\* `*item = t` drops what the slot held: for every item, memory that
\* `MaybeUninit::uninit().assume_init()` left as it was.
DropsWhatever(t) == TRUE
Drops(t) == t.owns
AssignItem ==
    /\ Reading("assign")
    /\ junk' = (junk \/ Drops(Head(tasks).of))
    /\ Then(<<>>, stack) /\ UNCHANGED at

\* The last n values, in the order they were read.
CollectedReversed(n) == [i \in 1..n |-> stack[i]]
Collected(n) == [i \in 1..n |-> stack[n + 1 - i]]
Collect ==
    /\ Reading("collect")
    /\ LET t == Head(tasks).of
       IN  Then(<<>>, <<ManyValue(t.kind, Collected(t.width))>> \o SubSeq(stack, t.width + 1, Len(stack)))
    /\ UNCHANGED <<at, junk>>

BodyRead ==
    /\ step = "read" /\ tasks = <<>> /\ step' = "done"
    /\ UNCHANGED <<type, body, tasks, stream, at, stack, junk>>

-----------------------------------------------------------------------------
BodyNone ==
    /\ type = BoolType /\ body = Nothing /\ tasks = <<>> /\ stream = <<>> /\ at = 0
    /\ stack = <<>> /\ step = "none" /\ junk = FALSE

\* A value is written, or a peer sends any bytes for it.
BodyBegin ==
    /\ step = "none"
    /\ \E shape \in Shapes :
           /\ type' = shape.type
           /\ \/ \E v \in shape.values :
                     body' = v /\ tasks' = <<v>> /\ stream' = <<>> /\ step' = "write"
              \/ /\ body' = Nothing /\ tasks' = <<Task("read", shape.type)>> /\ step' = "read"
                 /\ stream' \in UNION {[1..n -> 0..(ByteBase - 1)] : n \in PeerBytes}
    /\ UNCHANGED <<at, stack, junk>>

BodyStep ==
    \/ WriteValue \/ BodySent
    \/ ReadBytes \/ ReadComposed \/ ReadNonzero \/ ReadOption \/ WrapSome
    \/ AssignItem \/ Collect \/ BodyRead

-----------------------------------------------------------------------------
(* Properties. *)

\* A value sent whole comes back as it was, and the reader stops behind it; of
\* one that was cut the reader never makes a value: no type's bytes are the
\* beginning of others of the same type.
BodyRoundTrip ==
    body # Nothing =>
        /\ step = "done" => Head(stack) = body /\ at = body.size
        /\ step = "eof" => Len(stream) < body.size

\* Serializable::size, from which frame lengths are computed before a byte is
\* written, is what to_writer writes - and, for bytes of any peer, what
\* from_reader takes, also where a bool is a byte to_writer would not write.
BodySizeIsExact ==
    /\ step = "write" /\ tasks = <<>> => at = body.size
    /\ step = "done" => at = Head(stack).size

\* Reading leaves memory alone unless an array's items own some: only there
\* does array.rs drop what "We immediately initiallize" has not initialised.
DropsOnlyOwners == junk => type.fragile
=============================================================================
