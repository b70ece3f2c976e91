--------------------------- MODULE CompilerProofs ---------------------------
(***************************************************************************)
(* compile_agent (Compiler), for every set of well-defined definitions,    *)
(* every request and all snapshots: it orders every program it builds and  *)
(* schedules exactly what the request needs, the cycles it reports exist,  *)
(* what it cannot dispatch it diagnoses, a scheduled question is the one   *)
(* compiled by itself, and a second program is a shorter first one.        *)
(* ProgramsAreOrdered needs nothing of a definition: that part is about    *)
(* the walk alone.                                                         *)
(***************************************************************************)
EXTENDS Compiler, FiniteSetTheorems, SequenceTheorems, WellFoundedInduction, TLAPS

IsFrame(f) ==
  \E node, agenda, depends : f = [node |-> node, agenda |-> agenda, depends |-> depends]

\* Visits: the first is the completion's, and what each has collected so far is
\* among some nodes.
WellStacked(s, ids) ==
  /\ s \in Seq(Image(s))
  /\ \A f \in Image(s) : IsFrame(f) /\ f.depends \in Seq(ids)
  /\ s # <<>> => s[1].node = Complete

WalkOK ==
  /\ nodes \in Seq(Image(nodes))
  /\ WellStacked(stack, Done)
  /\ outcome = "compiling" => stack # <<>>
  /\ ProgramOrdered

\* The last element of a nonempty sequence, and the rest.
LEMMA Parts ==
  ASSUME NEW S, NEW s \in Seq(S), s # <<>>
  PROVE  /\ Len(s) \in Nat /\ Len(s) >= 1
         /\ s[Len(s)] \in S
         /\ SubSeq(s, 1, Len(s) - 1) \in Seq(S)
         /\ Len(SubSeq(s, 1, Len(s) - 1)) = Len(s) - 1
         /\ \A i \in 1..(Len(s) - 1) : SubSeq(s, 1, Len(s) - 1)[i] = s[i]
  <1>1. Len(s) \in Nat \ {0}
    BY EmptySeq
  <1> DEFINE n == Len(s) - 1
             front == SubSeq(s, 1, n)
  <1>2. n \in Nat /\ Len(s) = n + 1
    BY <1>1
  <1>3. \A i \in 1..n : s[i] \in S
    BY <1>2, ElementOfSeq
  <1>4. s[n + 1] \in S
    BY <1>2, ElementOfSeq
  <1> HIDE DEF n
  <1>5. /\ front \in Seq(S)
        /\ Len(front) = IF 1 <= n THEN n - 1 + 1 ELSE 0
        /\ \A i \in 1..(n - 1 + 1) : front[i] = s[1 + i - 1]
    BY <1>2, <1>3, SubSeqProperties
  <1> HIDE DEF front
  <1>6. Len(front) = n
    BY <1>2, <1>5
  <1>7. \A i \in 1..n : front[i] = s[i]
    <2>1. n - 1 + 1 = n /\ \A i \in 1..n : 1 + i - 1 = i
      BY <1>2
    <2> QED BY <1>5, <2>1
  <1> USE DEF front
  <1>8. /\ SubSeq(s, 1, n) \in Seq(S) /\ Len(SubSeq(s, 1, n)) = n
        /\ \A i \in 1..n : SubSeq(s, 1, n)[i] = s[i]
    BY <1>5, <1>6, <1>7
  <1>9. Len(s) \in Nat /\ Len(s) >= 1 /\ s[Len(s)] \in S
    BY <1>2, <1>4
  <1> QED BY <1>8, <1>9, Zenon DEF n

\* A sequence is one over its own elements, and what holds of these and of a new
\* element holds of all after it is appended.
LEMMA Elements ==
  ASSUME NEW S, NEW s \in Seq(S)
  PROVE  /\ s \in Seq(Image(s))
         /\ Image(s) \subseteq S
  BY DEF Image

LEMMA Appended ==
  ASSUME NEW S, NEW s \in Seq(S), NEW e
  PROVE  /\ Append(s, e) \in Seq(Image(Append(s, e)))
         /\ Image(Append(s, e)) = Image(s) \cup {e}
         /\ Append(s, e) # <<>>
  <1>1. Append(s, e) \in Seq(S \cup {e})
    OBVIOUS
  <1>2. /\ Len(Append(s, e)) = Len(s) + 1 /\ Len(s) \in Nat
        /\ \A i \in 1..Len(s) : Append(s, e)[i] = s[i]
        /\ Append(s, e)[Len(s) + 1] = e
        /\ DOMAIN Append(s, e) = 1..(Len(s) + 1) /\ DOMAIN s = 1..Len(s)
    OBVIOUS
  <1>3. Image(Append(s, e)) = Image(s) \cup {e}
    <2>1. Image(Append(s, e)) \subseteq Image(s) \cup {e}
      BY <1>2 DEF Image
    <2>2. Image(s) \cup {e} \subseteq Image(Append(s, e))
      BY <1>2 DEF Image
    <2> QED BY <2>1, <2>2
  <1> QED BY <1>1, <1>2, <1>3, Elements

\* A program with one more node is ordered when this node depends on others of it.
LEMMA InsertedOrdered ==
  ASSUME nodes \in Seq(Image(nodes)), ProgramOrdered,
         NEW node, node.depends \subseteq Done, nodes' = Inserted(node)
  PROVE  /\ nodes' \in Seq(Image(nodes)')
         /\ Done' = Done \cup {node.id}
         /\ ProgramOrdered'
  <1>1. nodes' = Append(nodes, node)
    BY DEF Inserted
  <1>2. Image(nodes)' = Image(nodes') /\ Image(nodes') = Image(nodes) \cup {node}
    <2>1. Image(nodes)' = Image(nodes')
      BY DEF Image
    <2> QED BY <2>1, <1>1, Appended
  <1>3. nodes' \in Seq(Image(nodes)')
    BY <1>1, <1>2, Appended
  <1>4. Done' = Done \cup {node.id}
    <2>1. Done' = {n.id : n \in Image(nodes) \cup {node}}
      BY <1>2 DEF Done
    <2> QED BY <2>1 DEF Done
  <1>5. /\ DOMAIN nodes' = 1..(Len(nodes) + 1) /\ Len(nodes) \in Nat
        /\ DOMAIN nodes = 1..Len(nodes)
        /\ \A i \in 1..Len(nodes) : nodes'[i] = nodes[i]
        /\ nodes'[Len(nodes) + 1] = node
    BY <1>1
  <1>6. Done = {nodes[k].id : k \in 1..Len(nodes)}
    BY <1>5 DEF Done, Image
  <1>7. ASSUME NEW i \in DOMAIN nodes'
        PROVE  nodes'[i].depends \subseteq {nodes'[k].id : k \in 1..(i - 1)}
    <2>1. CASE i \in 1..Len(nodes)
      <3>1. nodes[i].depends \subseteq {nodes[k].id : k \in 1..(i - 1)}
        BY <2>1, <1>5 DEF ProgramOrdered
      <3>2. \A k \in 1..(i - 1) : nodes'[k] = nodes[k]
        BY <2>1, <1>5
      <3> QED BY <2>1, <3>1, <3>2, <1>5
    <2>2. CASE i = Len(nodes) + 1
      <3>1. \A k \in 1..(i - 1) : nodes'[k] = nodes[k]
        BY <2>2, <1>5
      <3>2. 1..(i - 1) = 1..Len(nodes)
        BY <2>2, <1>5
      <3> QED BY <2>2, <3>1, <3>2, <1>5, <1>6
    <2> QED BY <1>5, <2>1, <2>2
  <1>8. ProgramOrdered'
    BY <1>7 DEF ProgramOrdered
  <1> QED BY <1>3, <1>4, <1>8

\* A frame with other dependencies is one, of the same node.
LEMMA Changed ==
  ASSUME NEW f, IsFrame(f), NEW d
  PROVE  LET g == [f EXCEPT !.depends = d]
         IN  IsFrame(g) /\ g.node = f.node /\ g.depends = d
  <1>1. PICK n, b, c : f = [node |-> n, agenda |-> b, depends |-> c]
    BY DEF IsFrame
  <1>2. [f EXCEPT !.depends = d] = [node |-> n, agenda |-> b, depends |-> d]
    BY <1>1
  <1>3. f.node = n
    BY <1>1
  <1> QED BY <1>2, <1>3 DEF IsFrame

\* What the visits have collected stays collected when the program grows.
LEMMA StillStacked ==
  ASSUME NEW s, NEW A, NEW B, A \subseteq B, WellStacked(s, A)
  PROVE  WellStacked(s, B)
  <1>1. \A f \in Image(s) : f.depends \in Seq(B)
    BY SeqMonotonic DEF WellStacked
  <1> QED BY <1>1 DEF WellStacked

\* The innermost visit is a frame, and the visits below it are stacked.
LEMMA TopAndBelow ==
  ASSUME WalkOK, outcome = "compiling"
  PROVE  /\ IsFrame(Top) /\ Top.depends \in Seq(Done)
         /\ WellStacked(Below, Done) /\ Len(Below) \in Nat
         /\ Below = <<>> => Top.node = Complete
  <1>1. stack \in Seq(Image(stack)) /\ stack # <<>> /\ stack[1].node = Complete
    BY DEF WalkOK, WellStacked
  <1>2. /\ Len(stack) \in Nat /\ Len(stack) >= 1
        /\ stack[Len(stack)] \in Image(stack)
        /\ Below \in Seq(Image(stack))
        /\ Len(Below) = Len(stack) - 1
        /\ \A i \in 1..(Len(stack) - 1) : Below[i] = stack[i]
    BY <1>1, Parts DEF Below
  <1>3. IsFrame(Top) /\ Top.depends \in Seq(Done)
    BY <1>2 DEF Top, WalkOK, WellStacked
  <1>4. Below \in Seq(Image(Below)) /\ Image(Below) \subseteq Image(stack)
    BY <1>2, Elements
  <1>5. Below # <<>> => Below[1].node = Complete
    <2>1. ASSUME Below # <<>> PROVE Below[1] = stack[1]
      <3>1. Len(Below) \in Nat \ {0}
        BY <1>2, <2>1, EmptySeq
      <3> QED BY <1>2, <3>1
    <2> QED BY <1>1, <2>1
  <1>6. Below = <<>> => Top.node = Complete
    <2>1. ASSUME Below = <<>> PROVE Len(stack) = 1
      <3>1. Len(Below) = 0
        BY <2>1
      <3> QED BY <1>2, <3>1
    <2> QED BY <1>1, <2>1 DEF Top
  <1>7. Len(Below) \in Nat
    BY <1>2
  <1>8. WellStacked(Below, Done)
    BY <1>4, <1>5 DEF WellStacked, WalkOK
  <1> QED BY <1>3, <1>6, <1>7, <1>8

\* A visit on top of others.
LEMMA Pushed ==
  ASSUME NEW ids, NEW below, WellStacked(below, ids),
         NEW frame, IsFrame(frame), frame.depends \in Seq(ids),
         below = <<>> => frame.node = Complete
  PROVE  WellStacked(Append(below, frame), ids) /\ Append(below, frame) # <<>>
  <1> DEFINE s == Append(below, frame)
  <1>1. below \in Seq(Image(below))
    BY DEF WellStacked
  <1>2. Image(s) = Image(below) \cup {frame} /\ s \in Seq(Image(s)) /\ s # <<>>
    BY <1>1, Appended
  <1>3. \A f \in Image(s) : IsFrame(f) /\ f.depends \in Seq(ids)
    BY <1>2 DEF WellStacked
  <1>4. s[1].node = Complete
    <2>1. CASE below = <<>>
      <3>1. s[1] = frame
        BY <2>1
      <3> QED BY <2>1, <3>1
    <2>2. CASE below # <<>>
      <3>1. Len(below) \in Nat \ {0}
        BY <1>1, <2>2, EmptySeq
      <3>2. s[1] = below[1]
        BY <1>1, <3>1
      <3> QED BY <2>2, <3>2 DEF WellStacked
    <2> QED BY <2>1, <2>2
  <1> QED BY <1>2, <1>3, <1>4 DEF WellStacked

\* The innermost visit goes on, with dependencies that are in the program.
LEMMA Continued ==
  ASSUME WalkOK, outcome = "compiling", Top.agenda # <<>>,
         NEW ids, Done \subseteq ids, NEW items, NEW depends \in Seq(ids)
  PROVE  WellStacked(Continue(items, depends), ids) /\ Continue(items, depends) # <<>>
  <1> DEFINE frame == [node |-> Top.node, agenda |-> items \o Tail(Top.agenda),
                       depends |-> Top.depends \o depends]
  <1>1. /\ IsFrame(Top) /\ Top.depends \in Seq(ids)
        /\ WellStacked(Below, ids)
        /\ Below = <<>> => Top.node = Complete
    BY TopAndBelow, StillStacked, SeqMonotonic
  <1>2. Top.depends \o depends \in Seq(ids)
    BY <1>1, ConcatProperties
  <1>3. /\ IsFrame(frame) /\ frame.node = Top.node
        /\ frame.depends = Top.depends \o depends
    BY DEF IsFrame
  <1>4. Continue(items, depends) = Append(Below, frame)
    BY DEF Continue
  <1> HIDE DEF frame
  <1> QED BY <1>1, <1>2, <1>3, <1>4, Pushed

\* A visit that is closed leaves its node to the one that asked for it.
LEMMA Returned ==
  ASSUME WalkOK, outcome = "compiling", NEW id, NEW ids, Done \cup {id} \subseteq ids
  PROVE  WellStacked(Return(id), ids) /\ (Top.node # Complete => Return(id) # <<>>)
  <1> DEFINE n == Len(Below)
             caller == [Below[n] EXCEPT !.depends = Append(@, id)]
  <1>1. WellStacked(Below, ids) /\ n \in Nat /\ (Below = <<>> => Top.node = Complete)
    BY TopAndBelow, StillStacked
  <1>2. CASE Below = <<>>
    <2>1. Return(id) = <<>>
      BY <1>2 DEF Return
    <2>2. Image(<<>>) = {} /\ <<>> \in Seq(Image(<<>>))
      BY DEF Image
    <2> QED BY <1>1, <1>2, <2>1, <2>2 DEF WellStacked
  <1>3. CASE Below # <<>>
    <2>1. Below \in Seq(Image(Below)) /\ n \in Nat \ {0} /\ Below[n] \in Image(Below)
      BY <1>1, <1>3, Parts DEF WellStacked
    <2>2. IsFrame(Below[n]) /\ Below[n].depends \in Seq(ids)
      BY <1>1, <2>1 DEF WellStacked
    <2>3. IsFrame(caller) /\ caller.depends \in Seq(ids) /\ caller.node = Below[n].node
      <3>1. caller.depends = Append(Below[n].depends, id) /\ IsFrame(caller) /\ caller.node = Below[n].node
        <4>1. caller = [Below[n] EXCEPT !.depends = Append(Below[n].depends, id)]
          OBVIOUS
        <4> HIDE DEF caller
        <4> QED BY <2>2, <4>1, Changed
      <3>2. Append(Below[n].depends, id) \in Seq(ids)
        BY <2>2, AppendProperties
      <3> QED BY <3>1, <3>2
    <2>4. Return(id) = [Below EXCEPT ![n] = caller]
      BY <1>3, Zenon DEF Return
    <2> HIDE DEF caller
    <2> DEFINE s == [Below EXCEPT ![n] = caller]
    <2>5. s \in Seq(Image(Below) \cup {caller}) /\ Len(s) = n
      <3>1. Below \in Seq(Image(Below) \cup {caller})
        BY <2>1, SeqMonotonic
      <3> DEFINE S == Image(Below) \cup {caller}
      <3>2. n \in 1..Len(Below) /\ caller \in S /\ Below \in Seq(S)
        BY <2>1, <3>1
      <3> HIDE DEF S, n
      <3>3. s \in Seq(S) /\ Len(s) = Len(Below)
        BY <3>2, ExceptSeq
      <3> QED BY <3>3 DEF S, n
    <2>6. s \in Seq(Image(s)) /\ Image(s) \subseteq Image(Below) \cup {caller}
      BY <2>5, Elements
    <2>7. \A f \in Image(s) : IsFrame(f) /\ f.depends \in Seq(ids)
      BY <1>1, <2>3, <2>6 DEF WellStacked
    <2>8. s[1].node = Complete
      <3>1. Below[1].node = Complete
        BY <1>1, <1>3 DEF WellStacked
      <3>2. s[1] = IF n = 1 THEN caller ELSE Below[1]
        BY <2>1
      <3> QED BY <2>3, <3>1, <3>2
    <2>9. s # <<>>
      <3>1. Len(s) # 0
        BY <2>1, <2>5
      <3> HIDE DEF s
      <3> QED BY <3>1
    <2> QED BY <2>4, <2>6, <2>7, <2>8, <2>9 DEF WellStacked
  <1> QED BY <1>2, <1>3

LEMMA FrameIsFrame ==
  ASSUME NEW node, NEW agenda, NEW ids
  PROVE  LET f == Frame(node, agenda)
         IN  IsFrame(f) /\ f.node = node /\ f.depends \in Seq(ids)
  BY EmptySeq DEF Frame, IsFrame

\* A walk that has not begun.
LEMMA NotBegun ==
  ASSUME stack' = <<>>, nodes' = <<>>, outcome' # "compiling"
  PROVE  WalkOK'
  <1>1. Image(<<>>) = {} /\ <<>> \in Seq({})
    BY EmptySeq DEF Image
  <1>2. nodes' \in Seq(Image(nodes)') /\ ProgramOrdered'
    BY <1>1 DEF Image, ProgramOrdered
  <1>3. WellStacked(stack', Done')
    BY <1>1 DEF WellStacked
  <1> QED BY <1>2, <1>3 DEF WalkOK, WellStacked

\* A step that leaves the program alone needs only leave the stack in order.
LEMMA ProgramKept ==
  ASSUME WalkOK, nodes' = nodes, WellStacked(stack', Done),
         outcome' = "compiling" => stack' # <<>>
  PROVE  WalkOK'
  <1>1. Done' = Done /\ ProgramOrdered' /\ nodes' \in Seq(Image(nodes)')
    <2>1. Image(nodes)' = Image(nodes)
      BY DEF Image
    <2>2. ProgramOrdered'
      BY DEF WalkOK, ProgramOrdered
    <2> QED BY <2>1, <2>2 DEF WalkOK, Done
  <1>2. WellStacked(stack, Done)'
    BY <1>1 DEF WellStacked
  <1> QED BY <1>1, <1>2 DEF WalkOK

THEOREM WalkStarts == Init => WalkOK
  <1> SUFFICES ASSUME Init PROVE WalkOK
    OBVIOUS
  <1>1. stack = <<>> /\ nodes = <<>> /\ outcome = "called"
    BY DEF Init, Start
  <1>2. Image(<<>>) = {} /\ <<>> \in Seq({})
    BY EmptySeq DEF Image
  <1> QED BY <1>1, <1>2 DEF WalkOK, WellStacked, ProgramOrdered

\* The steps that resolve a reference.
LEMMA ResolvingKeeps ==
  ASSUME WalkOK, SkipAvailable \/ MeetNode \/ VisitProvider \/ OpenVisit \/ Bind
  PROVE  WalkOK'
  <1>1. outcome = "compiling" /\ Top.agenda # <<>>
    BY DEF SkipAvailable, MeetNode, VisitProvider, OpenVisit, Bind, Resolving
  <1>2. ASSUME NEW items PROVE WellStacked(Continue(items, <<>>), Done) /\ Continue(items, <<>>) # <<>>
    <2>1. <<>> \in Seq(Done)
      BY EmptySeq
    <2> QED BY <1>1, <2>1, Continued
  <1>3. ASSUME NEW items, NEW node, NEW agenda
        PROVE  LET s == Append(Continue(items, <<>>), Frame(node, agenda))
               IN  WellStacked(s, Done) /\ s # <<>>
    <2>1. IsFrame(Frame(node, agenda)) /\ Frame(node, agenda).depends \in Seq(Done)
      BY FrameIsFrame
    <2> QED BY <1>2, <2>1, Pushed
  <1>4. CASE SkipAvailable
    BY <1>2, <1>4, ProgramKept DEF SkipAvailable
  <1>5. CASE MeetNode
    <2>1. PICK id \in Done : stack' = Continue(<<>>, <<id>>)
      BY <1>5 DEF MeetNode
    <2>2. <<id>> \in Seq(Done)
      OBVIOUS
    <2>3. WellStacked(stack', Done) /\ stack' # <<>>
      BY <1>1, <2>1, <2>2, Continued
    <2> QED BY <1>5, <2>3, ProgramKept DEF MeetNode
  <1>6. CASE VisitProvider
    <2>1. PICK p \in DOMAIN definition.providers :
            /\ nodes' = Inserted([id |-> Retrieve(p), depends |-> {}, unresolved |-> ~ Supplied(p)])
            /\ stack' = Continue(<<>>, <<Retrieve(p)>>)
      BY <1>6 DEF VisitProvider
    <2>2. /\ nodes' \in Seq(Image(nodes)') /\ ProgramOrdered'
          /\ Done' = Done \cup {Retrieve(p)}
      <3> DEFINE node == [id |-> Retrieve(p), depends |-> {}, unresolved |-> ~ Supplied(p)]
      <3>1. node.id = Retrieve(p) /\ node.depends \subseteq Done /\ nodes' = Inserted(node)
        BY <2>1
      <3> HIDE DEF node
      <3> QED BY <3>1, InsertedOrdered DEF WalkOK
    <2>3. <<Retrieve(p)>> \in Seq(Done')
      BY <2>2
    <2>4. WellStacked(Continue(<<>>, <<Retrieve(p)>>), Done') /\ Continue(<<>>, <<Retrieve(p)>>) # <<>>
      BY <1>1, <2>2, <2>3, Continued
    <2>5. WellStacked(stack, Done)' /\ stack' # <<>>
      BY <2>1, <2>4 DEF WellStacked
    <2> QED BY <2>2, <2>5 DEF WalkOK
  <1>7. CASE OpenVisit
    <2>1. \E node, agenda : stack' = Append(Continue(<<>>, <<>>), Frame(node, agenda))
      BY <1>7 DEF OpenVisit
    <2>2. WellStacked(stack', Done) /\ stack' # <<>>
      BY <1>3, <2>1
    <2> QED BY <1>7, <2>2, ProgramKept DEF OpenVisit
  <1>8. CASE Bind
    <2>1. \/ \E node, agenda : stack' = Append(Continue(<<>>, <<>>), Frame(node, agenda))
          \/ \E items : stack' = Continue(items, <<>>)
      BY <1>8, Zenon DEF Bind
    <2>2. WellStacked(stack', Done) /\ stack' # <<>>
      BY <1>2, <1>3, <2>1
    <2> QED BY <1>8, <2>2, ProgramKept DEF Bind
  <1> QED BY <1>4, <1>5, <1>6, <1>7, <1>8

\* A visit that ends has only asked for nodes that are in the program.
LEMMA ClosingKeeps ==
  ASSUME WalkOK, CloseVisit
  PROVE  WalkOK'
  <1> DEFINE node == [id |-> Top.node, depends |-> Image(Top.depends), unresolved |-> NodeUnresolved]
  <1>1. /\ outcome = "compiling" /\ nodes' = Inserted(node) /\ stack' = Return(Top.node)
        /\ outcome' = IF Top.node = Complete THEN "compiled" ELSE outcome
    BY DEF CloseVisit
  <1>2. node.id = Top.node /\ node.depends \subseteq Done
    BY <1>1, TopAndBelow, Elements
  <1> HIDE DEF node
  <1>3. /\ nodes' \in Seq(Image(nodes)') /\ ProgramOrdered'
        /\ Done' = Done \cup {Top.node}
    BY <1>1, <1>2, InsertedOrdered DEF WalkOK
  <1>4. WellStacked(Return(Top.node), Done') /\ (Top.node # Complete => Return(Top.node) # <<>>)
    BY <1>1, <1>3, Returned
  <1>5. WellStacked(stack, Done)'
    BY <1>1, <1>4 DEF WellStacked
  <1>6. outcome' = "compiling" => stack' # <<>>
    BY <1>1, <1>4
  <1> QED BY <1>3, <1>5, <1>6 DEF WalkOK

THEOREM WalkGoesOn == WalkOK /\ [Next]_vars => WalkOK'
  <1> SUFFICES ASSUME WalkOK, [Next]_vars PROVE WalkOK'
    OBVIOUS
  <1>1. CASE Call
    <2>1. CASE CallRefusal = "none"
      <3>1. stack' = <<Frame(Complete, CompletionAgenda)>> /\ nodes' = nodes
        BY <1>1, <2>1 DEF Call
      <3> DEFINE frame == Frame(Complete, CompletionAgenda)
      <3>2. IsFrame(frame) /\ frame.node = Complete /\ frame.depends \in Seq(Done)
        BY FrameIsFrame
      <3> HIDE DEF frame
      <3>3. Image(<<frame>>) = {frame} /\ <<frame>> \in Seq({frame}) /\ <<frame>> # <<>>
        BY DEF Image
      <3>4. WellStacked(<<frame>>, Done)
        BY <3>2, <3>3 DEF WellStacked
      <3> QED BY <3>1, <3>3, <3>4, ProgramKept DEF frame
    <2>2. CASE CallRefusal # "none"
      <3>1. stack' = <<>> /\ nodes' = nodes
        BY <1>1, <2>2 DEF Call
      <3>2. Image(<<>>) = {} /\ <<>> \in Seq({})
        BY EmptySeq DEF Image
      <3>3. WellStacked(<<>>, Done)
        BY <3>2 DEF WellStacked
      <3>4. outcome' # "compiling"
        BY <1>1, <2>2 DEF Call, CallRefusal
      <3> QED BY <3>1, <3>3, <3>4, ProgramKept
    <2> QED BY <2>1, <2>2
  <1>2. CASE Refuse \/ RefuseClose
    <2>1. stack' = stack /\ nodes' = nodes /\ outcome = "compiling"
      BY <1>2 DEF Refuse, RefuseClose
    <2> QED BY <2>1, ProgramKept DEF WalkOK
  <1>3. CASE SkipAvailable \/ MeetNode \/ VisitProvider \/ OpenVisit \/ Bind
    BY <1>3, ResolvingKeeps
  <1>4. CASE CloseVisit
    BY <1>4, ClosingKeeps
  <1>5. CASE Recompile
    <2>1. stack' = <<>> /\ nodes' = <<>> /\ outcome' = "called"
      BY <1>5 DEF Recompile
    <2> QED BY <2>1, NotBegun
  <1>6. CASE UNCHANGED vars
    BY <1>6, ProgramKept DEF vars, WalkOK
  <1> QED BY <1>1, <1>2, <1>3, <1>4, <1>5, <1>6 DEF Next

\* Every program, and every part of one, lists a node after all it depends on
\* (compile_agent; the runtime executes a program's nodes as they become ready).
THEOREM ProgramsAreOrdered == Spec => []ProgramOrdered
  <1>1. WalkOK => ProgramOrdered
    BY DEF WalkOK
  <1> QED BY WalkStarts, WalkGoesOn, <1>1, PTL DEF Spec

-----------------------------------------------------------------------------
(* What is reached from some nodes, by following their definitions.        *)

\* A set of numbers with 0 and with every successor of its own is all of them.
LEMMA AllNumbers ==
  ASSUME NEW T \in SUBSET Nat, 0 \in T, \A n \in T : n + 1 \in T
  PROVE  T = Nat
  <1> SUFFICES ASSUME Nat \ T # {} PROVE FALSE
    OBVIOUS
  <1>1. PICK n \in Nat \ T : \A m \in Nat \ T : <<m, n>> \notin OpToRel(<, Nat)
    <2>1. IsWellFoundedOn(OpToRel(<, Nat), Nat)
      BY NatLessThanWellFounded
    <2> DEFINE C == Nat \ T
    <2>2. C \subseteq Nat /\ C # {}
      OBVIOUS
    <2> HIDE DEF C
    <2>3. \E x \in C : \A y \in C : <<y, x>> \notin OpToRel(<, Nat)
      BY <2>1, <2>2, WFMin
    <2> QED BY <2>3 DEF C
  <1>2. n # 0 /\ n - 1 \in Nat
    OBVIOUS
  <1>3. <<n - 1, n>> \in OpToRel(<, Nat)
    BY <1>2 DEF OpToRel
  <1>4. n - 1 \in T
    BY <1>1, <1>2, <1>3
  <1> QED BY <1>2, <1>4

\* A finite set of numbers that is not empty has a least one.
LEMMA LeastNumber ==
  ASSUME NEW T \in SUBSET Nat, T # {}
  PROVE  \E n \in T : \A m \in T : n <= m
  <1>1. IsWellFoundedOn(OpToRel(<, Nat), Nat)
    BY NatLessThanWellFounded
  <1>2. PICK n \in T : \A m \in T : <<m, n>> \notin OpToRel(<, Nat)
    BY <1>1, WFMin
  <1>3. ASSUME NEW m \in T, m < n PROVE FALSE
    BY <1>2, <1>3 DEF OpToRel
  <1>4. \A m \in T : m \in Nat
    OBVIOUS
  <1> QED BY <1>3, <1>4

\* What a finite set is mapped to is finite.
LEMMA FiniteImage ==
  ASSUME NEW S, IsFiniteSet(S), NEW f, DOMAIN f = S
  PROVE  IsFiniteSet({f[x] : x \in S})
  <1> DEFINE T == {f[x] : x \in S}
             g == [x \in S |-> f[x]]
  <1>1. g \in Surjection(S, T)
    BY DEF Surjection
  <1> QED BY <1>1, FS_Surjection

LEMMA NodesFinite ==
  ASSUME WellDefined(definition)
  PROVE  IsFiniteSet(AllNodes)
  <1>1. /\ IsFiniteSet(Judgments) /\ IsFiniteSet(Tools) /\ IsFiniteSet(Providers)
        /\ DOMAIN definition.tools \subseteq Tools
    BY NamesAssumption DEF WellDefined, FieldsTyped
  <1>2. IsFiniteSet(DOMAIN definition.tools)
    BY <1>1, FS_Subset
  <1>3. IsFiniteSet({Judge(j) : j \in Judgments})
    <2> DEFINE f == [j \in Judgments |-> Judge(j)]
    <2>1. {f[j] : j \in Judgments} = {Judge(j) : j \in Judgments}
      OBVIOUS
    <2>2. DOMAIN f = Judgments
      OBVIOUS
    <2> HIDE DEF f
    <2>3. IsFiniteSet({f[j] : j \in Judgments})
      BY <1>1, <2>2, FiniteImage
    <2> QED BY <2>1, <2>3
  <1>4. IsFiniteSet({Invoke(t) : t \in Tools})
    <2> DEFINE f == [t \in Tools |-> Invoke(t)]
    <2>1. {f[t] : t \in Tools} = {Invoke(t) : t \in Tools}
      OBVIOUS
    <2>2. DOMAIN f = Tools
      OBVIOUS
    <2> HIDE DEF f
    <2>3. IsFiniteSet({f[t] : t \in Tools})
      BY <1>1, <2>2, FiniteImage
    <2> QED BY <2>1, <2>3
  <1>5. IsFiniteSet({Retrieve(p) : p \in Providers})
    <2> DEFINE f == [p \in Providers |-> Retrieve(p)]
    <2>1. {f[p] : p \in Providers} = {Retrieve(p) : p \in Providers}
      OBVIOUS
    <2>2. DOMAIN f = Providers
      OBVIOUS
    <2> HIDE DEF f
    <2>3. IsFiniteSet({f[p] : p \in Providers})
      BY <1>1, <2>2, FiniteImage
    <2> QED BY <2>1, <2>3
  <1>6. ASSUME NEW t \in DOMAIN definition.tools
        PROVE  IsFiniteSet({Derive(t, i) : i \in Derivations(t)})
    <2> DEFINE S == Derivations(t)
               f == [i \in S |-> Derive(t, i)]
    <2>1. {f[i] : i \in S} = {Derive(t, i) : i \in S}
      OBVIOUS
    <2>2. DOMAIN f = S
      OBVIOUS
    <2>3. S \subseteq 1..Len(Tool(t).bindings) /\ Len(Tool(t).bindings) \in Nat
      BY DEF WellDefined, FieldsTyped, Tool, Derivations
    <2>4. IsFiniteSet(S)
      <3>1. IsFiniteSet(1..Len(Tool(t).bindings))
        BY <2>3, FS_Interval
      <3> QED BY <2>3, <3>1, FS_Subset
    <2> HIDE DEF f, S
    <2>5. IsFiniteSet({Derive(t, i) : i \in S})
      BY <2>1, <2>2, <2>4, FiniteImage
    <2> QED BY <2>5 DEF S
  <1> DEFINE ofTool(t) == {Derive(t, i) : i \in Derivations(t)}
             families == {ofTool(t) : t \in DOMAIN definition.tools}
  <1>7. IsFiniteSet(families)
    <2> DEFINE S == DOMAIN definition.tools
               f == [t \in S |-> ofTool(t)]
    <2>1. {f[t] : t \in S} = families
      OBVIOUS
    <2>2. DOMAIN f = S
      OBVIOUS
    <2> HIDE DEF f, families
    <2>3. IsFiniteSet({f[t] : t \in S})
      BY <1>2, <2>2, FiniteImage
    <2> QED BY <2>1, <2>3
  <1>8. IsFiniteSet(UNION families)
    <2>1. \A F \in families : IsFiniteSet(F)
      BY <1>6
    <2> HIDE DEF families
    <2> QED BY <1>7, <2>1, FS_UNION
  <1>9. IsFiniteSet({Complete})
    BY FS_Singleton
  <1> DEFINE J == {Judge(j) : j \in Judgments}
             I == {Invoke(t) : t \in Tools}
             R == {Retrieve(p) : p \in Providers}
             D == UNION families
  <1>10. AllNodes = J \cup I \cup R \cup {Complete} \cup D
    BY DEF AllNodes
  <1>11. IsFiniteSet(J) /\ IsFiniteSet(I) /\ IsFiniteSet(R) /\ IsFiniteSet(D)
    BY <1>3, <1>4, <1>5, <1>8
  <1> HIDE DEF J, I, R, D
  <1>12. IsFiniteSet(J \cup I)
    BY <1>11, FS_Union
  <1>13. IsFiniteSet(J \cup I \cup R)
    BY <1>11, <1>12, FS_Union
  <1>14. IsFiniteSet(J \cup I \cup R \cup {Complete})
    BY <1>9, <1>13, FS_Union
  <1>15. IsFiniteSet(J \cup I \cup R \cup {Complete} \cup D)
    BY <1>11, <1>14, FS_Union
  <1> QED BY <1>10, <1>15

\* One layer of nodes after the other.
IsLayers(f, m, ids) ==
  f = [n \in 0..m |-> IF n = 0 THEN ids
                      ELSE LET reached == f[n - 1] IN reached \cup LinksOf(reached)]

LEMMA LayersExist ==
  ASSUME NEW m \in Nat, NEW ids
  PROVE  \E f : IsLayers(f, m, ids)
  <1> DEFINE T == {n \in Nat : \E f : IsLayers(f, n, ids)}
  <1>1. 0 \in T
    <2>1. IsLayers([n \in 0..0 |-> ids], 0, ids)
      BY DEF IsLayers
    <2> QED BY <2>1
  <1>2. ASSUME NEW n \in T PROVE n + 1 \in T
    <2>1. PICK f : IsLayers(f, n, ids)
      OBVIOUS
    <2> DEFINE next == f[n] \cup LinksOf(f[n])
               g == [k \in 0..(n + 1) |-> IF k = n + 1 THEN next ELSE f[k]]
    <2>2. ASSUME NEW k \in 0..(n + 1)
          PROVE  g[k] = IF k = 0 THEN ids ELSE g[k - 1] \cup LinksOf(g[k - 1])
      <3>1. CASE k = 0
        BY <2>1, <3>1 DEF IsLayers
      <3>2. CASE k = n + 1
        <4>1. g[k - 1] = f[n] /\ g[k] = next
          BY <3>2
        <4> HIDE DEF g
        <4> QED BY <3>2, <4>1
      <3>3. CASE k # 0 /\ k # n + 1
        <4>1. k \in 0..n /\ k - 1 \in 0..n
          BY <3>3
        <4>2. g[k - 1] = f[k - 1] /\ g[k] = f[k]
          BY <3>3, <4>1
        <4>3. f[k] = f[k - 1] \cup LinksOf(f[k - 1])
          <5> DEFINE h == [l \in 0..n |-> IF l = 0 THEN ids
                             ELSE LET reached == f[l - 1] IN reached \cup LinksOf(reached)]
          <5>1. f = h
            BY <2>1 DEF IsLayers
          <5>2. h[k] = f[k - 1] \cup LinksOf(f[k - 1])
            BY <3>3, <4>1
          <5> QED BY <5>1, <5>2
        <4> HIDE DEF g
        <4> QED BY <3>3, <4>2, <4>3
      <3> QED BY <3>1, <3>2, <3>3
    <2>3. g = [k \in 0..(n + 1) |-> g[k]]
      OBVIOUS
    <2> HIDE DEF g
    <2>4. IsLayers(g, n + 1, ids)
      BY <2>2, <2>3 DEF IsLayers
    <2> QED BY <2>4
  <1>3. T \subseteq Nat
    OBVIOUS
  <1> HIDE DEF T
  <1>4. T = Nat
    BY <1>1, <1>2, <1>3, AllNumbers
  <1> QED BY <1>4 DEF T

\* The five kinds of nodes, and what their parts are.
LEMMA NodeParts ==
  /\ \A j : Judge(j)[1] = "judge" /\ Judge(j)[2] = j
  /\ \A t : Invoke(t)[1] = "invoke" /\ Invoke(t)[2] = t
  /\ \A p : Retrieve(p)[1] = "retrieve" /\ Retrieve(p)[2] = p
  /\ \A t, i : Derive(t, i)[1] = "derive" /\ Derive(t, i)[2] = t /\ Derive(t, i)[3] = i
  /\ Complete[1] = "complete"
  BY DEF Judge, Invoke, Retrieve, Derive, Complete, Node

LEMMA NodeCases ==
  ASSUME NEW id \in AllNodes
  PROVE  \/ \E j \in Judgments : id = Judge(j)
         \/ \E t \in Tools : id = Invoke(t)
         \/ \E p \in Providers : id = Retrieve(p)
         \/ id = Complete
         \/ \E t \in DOMAIN definition.tools : \E i \in Derivations(t) : id = Derive(t, i)
  BY DEF AllNodes

\* Nothing leads out of the nodes there may be.
LEMMA ProducersAreNodes ==
  ASSUME WellDefined(definition)
  PROVE  /\ \A ref : ProducingNodes(ref) \subseteq AllNodes
         /\ \A refs : NeedLinks(refs) \subseteq AllNodes
  <1>1. /\ DOMAIN definition.judgments \subseteq Judgments
        /\ DOMAIN definition.tools \subseteq Tools
        /\ DOMAIN definition.providers \subseteq Providers
    BY DEF WellDefined, FieldsTyped
  <1>2. ASSUME NEW ref PROVE ProducingNodes(ref) \subseteq AllNodes
    <2>1. CASE ref \in DOMAIN definition.judgments
      BY <1>1, <2>1 DEF ProducingNodes, AllNodes
    <2>2. CASE ref \notin DOMAIN definition.judgments /\ Registered(ref)
      BY <1>1, <2>2 DEF ProducingNodes, AllNodes, Registered
    <2>3. CASE ref \notin DOMAIN definition.judgments /\ ~ Registered(ref)
      BY <1>1, <2>3 DEF ProducingNodes, AllNodes, Producers
    <2> QED BY <2>1, <2>2, <2>3
  <1> QED BY <1>2 DEF NeedLinks

LEMMA BindingLinksInside ==
  ASSUME WellDefined(definition), NEW t \in DOMAIN definition.tools,
         NEW i \in DOMAIN Tool(t).bindings
  PROVE  BindingLinks(t, i) \subseteq AllNodes
  <1> DEFINE b == Tool(t).bindings[i]
  <1>1. /\ DOMAIN definition.judgments \subseteq Judgments
        /\ DOMAIN definition.tools \subseteq Tools
        /\ b \in Image(Tool(t).bindings)
    BY DEF WellDefined, FieldsTyped, Image
  <1>2. /\ b.kind = "candidate" => b.ref \in Providers /\ b.inputs[1] \in Judgments
        /\ b.kind = "judgment" => b.ref \in DOMAIN definition.judgments
        /\ b.kind = "generated" => b.ref \in DOMAIN definition.tools
    BY <1>1 DEF WellDefined, FieldsTyped, ToolsDefined, Tool
  <1>3. b.kind = "derivation" => Derive(t, i) \in AllNodes
    BY DEF AllNodes, Derivations
  <1>4. CASE b.kind = "candidate"
    BY <1>2, <1>4 DEF BindingLinks, AllNodes
  <1>5. CASE b.kind = "source"
    BY <1>5, ProducersAreNodes DEF BindingLinks
  <1>6. CASE b.kind = "judgment"
    BY <1>1, <1>2, <1>6 DEF BindingLinks, AllNodes
  <1>7. CASE b.kind = "generated"
    BY <1>1, <1>2, <1>7 DEF BindingLinks, AllNodes
  <1>8. CASE b.kind = "derivation"
    BY <1>3, <1>8 DEF BindingLinks
  <1>9. CASE b.kind \notin {"candidate", "source", "judgment", "generated", "derivation"}
    BY <1>9 DEF BindingLinks
  <1> QED BY <1>4, <1>5, <1>6, <1>7, <1>8, <1>9

LEMMA LinksInside ==
  ASSUME WellDefined(definition), given.revision \in Seq(Tools),
         NEW id \in AllNodes, Exists(id)
  PROVE  Links(id) \subseteq AllNodes
  <1>1. /\ DOMAIN definition.judgments \subseteq Judgments
        /\ DOMAIN definition.tools \subseteq Tools
    BY DEF WellDefined, FieldsTyped
  <1>2. ASSUME NEW j \in Judgments, id = Judge(j) PROVE Links(id) \subseteq AllNodes
    <2>1. j \in DOMAIN definition.judgments
      BY <1>2, NodeParts DEF Exists
    <2>2. /\ Image(Judgment(j).dependencies) \subseteq Judgments
          /\ Judgment(j).candidates \in Providers \cup {NoProvider}
      BY <1>1, <2>1 DEF WellDefined, FieldsTyped, JudgmentsDefined, Judgment
    <2>3. /\ {Judge(d) : d \in Image(Judgment(j).dependencies)} \subseteq AllNodes
          /\ {Retrieve(p) : p \in {Judgment(j).candidates} \ {NoProvider}} \subseteq AllNodes
      BY <2>2 DEF AllNodes
    <2>4. Links(id) = {Judge(d) : d \in Image(Judgment(j).dependencies)}
                        \cup NeedLinks(Image(Judgment(j).evidence))
                        \cup {Retrieve(p) : p \in {Judgment(j).candidates} \ {NoProvider}}
      BY <1>2, NodeParts DEF Links
    <2> QED BY <2>3, <2>4, ProducersAreNodes
  <1>3. ASSUME NEW t \in Tools, id = Invoke(t) PROVE Links(id) \subseteq AllNodes
    <2>1. t \in DOMAIN definition.tools
      BY <1>3, NodeParts DEF Exists
    <2>2. Links(id) = NeedLinks(Image(Tool(t).requires))
                        \cup UNION {BindingLinks(t, i) : i \in DOMAIN Tool(t).bindings}
      BY <1>3, NodeParts DEF Links
    <2>3. UNION {BindingLinks(t, i) : i \in DOMAIN Tool(t).bindings} \subseteq AllNodes
      BY <2>1, BindingLinksInside
    <2> QED BY <2>2, <2>3, ProducersAreNodes
  <1>4. ASSUME NEW p \in Providers, id = Retrieve(p) PROVE Links(id) \subseteq AllNodes
    BY <1>4, NodeParts DEF Links
  <1>5. CASE id = Complete
    <2>1. Links(id) = NeedLinks(Image(definition.required) \cup Image(Results))
                        \cup {Invoke(t) : t \in Image(given.revision)}
      BY <1>5, NodeParts DEF Links
    <2>2. Image(given.revision) \subseteq Tools
      BY Elements
    <2>3. {Invoke(t) : t \in Image(given.revision)} \subseteq AllNodes
      BY <2>2 DEF AllNodes
    <2> QED BY <2>1, <2>3, ProducersAreNodes
  <1>6. ASSUME NEW t \in DOMAIN definition.tools, NEW i \in Derivations(t),
               id = Derive(t, i)
        PROVE  Links(id) \subseteq AllNodes
    <2>1. Links(id) = NeedLinks(Image(Tool(t).bindings[i].inputs)) \cup {Invoke(Tool(t).bindings[i].ref)}
      BY <1>6, NodeParts DEF Links
    <2>2. Tool(t).bindings[i].ref \in Tools
      BY <1>6 DEF WellDefined, FieldsTyped, Tool, Image, Derivations
    <2>3. Invoke(Tool(t).bindings[i].ref) \in AllNodes
      BY <2>2 DEF AllNodes
    <2> QED BY <2>1, <2>3, ProducersAreNodes
  <1> QED BY <1>2, <1>3, <1>4, <1>5, <1>6, NodeCases

LEMMA FollowingAll ==
  ASSUME WellDefined(definition), given.revision \in Seq(Tools)
  PROVE  /\ \A C \in SUBSET AllNodes : LinksOf(C) \subseteq AllNodes
         /\ \A C, D : C \subseteq D => LinksOf(C) \subseteq LinksOf(D)
  BY LinksInside DEF LinksOf

\* ReachedFrom is the least set with these nodes that is closed under links:
\* there are no more layers than nodes before one adds nothing.
LEMMA Reached ==
  ASSUME WellDefined(definition), given.revision \in Seq(Tools),
         NEW ids \in SUBSET AllNodes
  PROVE  /\ ids \subseteq ReachedFrom(ids)
         /\ LinksOf(ReachedFrom(ids)) \subseteq ReachedFrom(ids)
         /\ \A C : ids \subseteq C /\ LinksOf(C) \subseteq C => ReachedFrom(ids) \subseteq C
  <1> DEFINE N == Cardinality(AllNodes)
             f == CHOOSE f : IsLayers(f, N, ids)
  <1>1. N \in Nat /\ IsFiniteSet(AllNodes)
    BY NodesFinite, FS_CardinalityType
  <1>2. ReachedFrom(ids) = f[N]
    BY DEF ReachedFrom, IsLayers
  <1>3. IsLayers(f, N, ids)
    BY <1>1, LayersExist
  <1>4. /\ f[0] = ids
        /\ \A n \in 0..N : n + 1 \in 0..N => f[n + 1] = f[n] \cup LinksOf(f[n])
    <2> DEFINE h == [n \in 0..N |-> IF n = 0 THEN ids
                       ELSE LET reached == f[n - 1] IN reached \cup LinksOf(reached)]
    <2>1. f = h
      BY <1>3 DEF IsLayers
    <2>2. h[0] = ids
      BY <1>1
    <2>3. ASSUME NEW n \in 0..N, n + 1 \in 0..N
          PROVE  h[n + 1] = f[n] \cup LinksOf(f[n])
      <3>1. n + 1 # 0 /\ (n + 1) - 1 = n
        BY <1>1, <2>3
      <3> HIDE DEF f
      <3> QED BY <2>3, <3>1
    <2> HIDE DEF f, h
    <2> QED BY <2>1, <2>2, <2>3
  <1> HIDE DEF f, N
  <1> DEFINE T == {n \in Nat : n \in 0..N =>
                     /\ ids \subseteq f[n] /\ f[n] \subseteq AllNodes
                     /\ LinksOf(f[n]) \subseteq f[n] \/ Cardinality(f[n]) >= n
                     /\ \A C : ids \subseteq C /\ LinksOf(C) \subseteq C => f[n] \subseteq C}
  <1>5. 0 \in T
    <2>1. Cardinality(ids) \in Nat
      BY <1>1, FS_Subset, FS_CardinalityType
    <2> QED BY <1>1, <1>4, <2>1
  <1>6. ASSUME NEW n \in T PROVE n + 1 \in T
    <2>1. SUFFICES ASSUME n + 1 \in 0..N
                   PROVE  /\ ids \subseteq f[n + 1] /\ f[n + 1] \subseteq AllNodes
                          /\ LinksOf(f[n + 1]) \subseteq f[n + 1] \/ Cardinality(f[n + 1]) >= n + 1
                          /\ \A C : ids \subseteq C /\ LinksOf(C) \subseteq C => f[n + 1] \subseteq C
      OBVIOUS
    <2>2. /\ n \in 0..N
          /\ ids \subseteq f[n] /\ f[n] \subseteq AllNodes
          /\ LinksOf(f[n]) \subseteq f[n] \/ Cardinality(f[n]) >= n
          /\ \A C : ids \subseteq C /\ LinksOf(C) \subseteq C => f[n] \subseteq C
      <3>1. n \in 0..N
        BY <1>1, <2>1
      <3> QED BY <3>1
    <2>3. f[n + 1] = f[n] \cup LinksOf(f[n])
      BY <1>4, <2>1, <2>2
    <2>4. LinksOf(f[n]) \subseteq AllNodes
      BY <2>2, FollowingAll
    <2>5. LinksOf(f[n + 1]) \subseteq f[n + 1] \/ Cardinality(f[n + 1]) >= n + 1
      <3>1. CASE LinksOf(f[n]) \subseteq f[n]
        <4>1. f[n + 1] = f[n]
          BY <2>3, <3>1
        <4> QED BY <3>1, <4>1
      <3>2. CASE ~ (LinksOf(f[n]) \subseteq f[n])
        <4>1. f[n + 1] # f[n] /\ f[n] \subseteq f[n + 1] /\ f[n + 1] \subseteq AllNodes
          BY <2>2, <2>3, <2>4, <3>2
        <4>2. IsFiniteSet(f[n + 1])
          BY <1>1, <4>1, FS_Subset
        <4>3. /\ Cardinality(f[n]) <= Cardinality(f[n + 1])
              /\ Cardinality(f[n]) # Cardinality(f[n + 1])
              /\ IsFiniteSet(f[n])
          BY <4>1, <4>2, FS_Subset
        <4>4. Cardinality(f[n]) \in Nat /\ Cardinality(f[n + 1]) \in Nat
          BY <4>2, <4>3, FS_CardinalityType
        <4>5. Cardinality(f[n]) >= n
          BY <2>2, <3>2
        <4> QED BY <4>3, <4>4, <4>5
      <3> QED BY <3>1, <3>2
    <2>6. ASSUME NEW C, ids \subseteq C, LinksOf(C) \subseteq C PROVE f[n + 1] \subseteq C
      <3>1. f[n] \subseteq C
        BY <2>2, <2>6
      <3>2. LinksOf(f[n]) \subseteq LinksOf(C)
        BY <3>1, FollowingAll
      <3> QED BY <2>3, <2>6, <3>1, <3>2
    <2> QED BY <2>2, <2>3, <2>4, <2>5, <2>6
  <1>7. T = Nat
    <2>1. T \subseteq Nat
      OBVIOUS
    <2> HIDE DEF T
    <2> QED BY <1>5, <1>6, <2>1, AllNumbers
  <1>8. /\ ids \subseteq f[N] /\ f[N] \subseteq AllNodes
        /\ LinksOf(f[N]) \subseteq f[N] \/ Cardinality(f[N]) >= N
        /\ \A C : ids \subseteq C /\ LinksOf(C) \subseteq C => f[N] \subseteq C
    <2>1. N \in T /\ N \in 0..N
      <3> HIDE DEF T
      <3> QED BY <1>1, <1>7
    <2> QED BY <2>1
  <1>9. LinksOf(f[N]) \subseteq f[N]
    <2>1. ASSUME Cardinality(f[N]) >= N PROVE f[N] = AllNodes
      <3>1. /\ Cardinality(f[N]) <= Cardinality(AllNodes)
            /\ Cardinality(AllNodes) = Cardinality(f[N]) => AllNodes = f[N]
            /\ IsFiniteSet(f[N])
        BY <1>1, <1>8, FS_Subset
      <3>2. Cardinality(f[N]) \in Nat
        BY <3>1, FS_CardinalityType
      <3> QED BY <1>1, <2>1, <3>1, <3>2 DEF N
    <2>2. LinksOf(AllNodes) \subseteq AllNodes
      BY FollowingAll
    <2> QED BY <1>8, <2>1, <2>2
  <1> QED BY <1>2, <1>8, <1>9

\* What a node of a closed set links to is in it.
LEMMA FollowOne ==
  ASSUME NEW C, LinksOf(C) \subseteq C, NEW id \in C, Exists(id)
  PROVE  Links(id) \subseteq C
  BY DEF LinksOf

\* A node reaches all that the nodes it links to reach.
LEMMA ReachedThrough ==
  ASSUME WellDefined(definition), given.revision \in Seq(Tools),
         NEW id \in AllNodes, Exists(id), NEW d \in Links(id)
  PROVE  ReachedFrom({d}) \subseteq ReachedFrom({id}) /\ d \in AllNodes
  <1>1. d \in AllNodes
    BY LinksInside
  <1>2. id \in ReachedFrom({id}) /\ LinksOf(ReachedFrom({id})) \subseteq ReachedFrom({id})
    BY Reached
  <1>3. d \in ReachedFrom({id})
    BY <1>2, FollowOne
  <1>4. {d} \subseteq ReachedFrom({id}) /\ {d} \in SUBSET AllNodes
    BY <1>1, <1>3
  <1> QED BY <1>1, <1>2, <1>4, Reached

-----------------------------------------------------------------------------
(* What a visit still owes, and what it owed when it was opened. *)

ItemKinds == {"judgment", "tool", "candidates", "need", "binding"}

IsAgenda(a) == a \in Seq(Image(a)) /\ \A x \in Image(a) : x.kind \in ItemKinds

\* The references a node's own definition makes, in the order they are visited.
AgendaOf(id) ==
  CASE id[1] = "judge" -> JudgmentAgenda(id[2])
    [] id[1] = "invoke" -> ToolAgenda(id[2])
    [] id[1] = "derive" -> LET b == Tool(id[2]).bindings[id[3]]
                           IN  Items("need", b.inputs) \o <<Item("tool", b.ref)>>
    [] id[1] = "complete" -> CompletionAgenda
    [] OTHER -> <<>>

\* A binding stands for the references it is replaced by.
RefsOf(id, x) ==
  IF x.kind = "binding" THEN Image(ReferencesOf(Tool(id[2]).bindings[x.ref])) ELSE {}

Expanded(id, items) == items \cup UNION {RefsOf(id, x) : x \in items}

Wanted(id) == Expanded(id, Image(AgendaOf(id)))

\* The nodes one reference leads to; a derivation is a node of its own.
ItemLinks(id, x) ==
  IF x.kind # "binding" THEN NodesFor(x)
  ELSE IF Tool(id[2]).bindings[x.ref].kind = "derivation" THEN {Derive(id[2], x.ref)} ELSE {}

\* A reference that no compilation over this much evidence refuses for itself.
Fine(id, x) ==
  /\ x.kind = "binding" => BindingRefusal(Tool(id[2]).bindings[x.ref]) = "none"
  /\ x.kind = "need" => IsAvailable(x) \/ \E n \in NodesFor(x) : NodesFor(x) = {n}
  /\ x.kind = "candidates" => Registered(x.ref)

\* A visit has resolved all its node wants but what its agenda still stands for,
\* and depends on nothing else; the node it called is not among its depends yet.
VisitOK(f, called) ==
  /\ IsAgenda(f.agenda)
  /\ f.node \in AllNodes /\ Exists(f.node)
  /\ Image(f.agenda) \subseteq Wanted(f.node)
  /\ Image(f.depends) \cup called \subseteq Links(f.node)
  /\ \A x \in Wanted(f.node) \ Expanded(f.node, Image(f.agenda)) :
       Fine(f.node, x) /\ ItemLinks(f.node, x) \subseteq Image(f.depends) \cup called

VisitsOK(s, called) ==
  \A i \in DOMAIN s : VisitOK(s[i], IF i < Len(s) THEN {s[i + 1].node} ELSE called)

\* A definition and the arguments of a call.
ArgumentsOK ==
  /\ WellDefined(definition)
  /\ given = Request(given.available, given.snapshots, given.supplied, given.routes,
                     given.revision, given.steps)
  /\ given.snapshots \in [DOMAIN given.snapshots -> Snapshots]
  /\ given.revision \in Seq(Tools)
  /\ outcome \in {"compiling", "compiled"} => CallRefusal = "none"

GroupsSafe(id) ==
  id[1] = "invoke" => \A g \in Tool(id[2]).groups : ~ GroupUnsafe(id[2], g)

\* A node of the program is in it for good reason and as its definition says.
NodeOK(n) ==
  /\ n.id \in AllNodes /\ Exists(n.id)
  /\ n.depends = Links(n.id)
  /\ \A x \in Wanted(n.id) : Fine(n.id, x)
  /\ GroupsSafe(n.id)

ProgramOK ==
  /\ \A n \in Image(nodes) : NodeOK(n)
  /\ Done \cup Open \subseteq Needed
  /\ outcome = "called" => nodes = <<>> /\ stack = <<>>
  /\ outcome = "compiled" => Complete \in Done

\* No visit is open twice, or open on a node that is in the program; a provider
\* is never one.
Fresh(s, ids) ==
  \A i \in DOMAIN s :
    /\ s[i].node[1] # "retrieve"
    /\ s[i].node[1] # "derive" =>
         /\ s[i].node \notin ids
         /\ \A k \in DOMAIN s : s[k].node = s[i].node => k = i

VisitsFresh == Fresh(stack, Done)

\* What is known of a node's questions and diagnostics from the moment it is in.
StatusOK(n) ==
  /\ n.unresolved \in BOOLEAN
  /\ n.id[1] \in {"derive", "complete"} => ~ n.unresolved
  /\ n.id[1] = "retrieve" => (n.unresolved <=> ~ Supplied(n.id[2]))
  /\ n.id[1] = "judge" =>
       /\ n.unresolved <=> ~ (CandidatesUsable(n.id[2]) /\ \A d \in n.depends : ~ IsUnresolved(d))
       /\ Options(n.id[2]) <= MaxOptions
  /\ n.unresolved => ReachedFrom({n.id}) \cap diagnosed # {}

StatusesOK ==
  /\ \A n \in Image(nodes) : StatusOK(n)
  /\ DOMAIN questions = {j \in Judgments : Judge(j) \in Done}
  /\ \A j \in DOMAIN questions : questions[j] <=> ~ IsUnresolved(Judge(j))

\* What a node of the first program links to comes before it.
Ranked(rank) == \A id \in earlier : \A d \in Links(id) : rank[d] < rank[id]

\* The first program of a run, seen from the second compilation: complete,
\* ordered, and refused nowhere.
Settled ==
  /\ Complete \in earlier
  /\ \A id \in earlier :
       /\ id \in AllNodes /\ Exists(id) /\ Links(id) \subseteq earlier
       /\ \A x \in Wanted(id) : Fine(id, x)
       /\ GroupsSafe(id)
  /\ \E rank \in [earlier -> Nat] : Ranked(rank)

SecondOK ==
  earlier # {} =>
    /\ Settled
    /\ DOMAIN given.routes = {}
    /\ \A p \in DOMAIN given.snapshots : given.snapshots[p].matches
    /\ CallRefusal = "none"
    /\ outcome \in {"called", "compiling", "compiled", "limit_exceeded"}

-----------------------------------------------------------------------------
(* Sequences and agendas. *)

LEMMA ImageOfConcat ==
  ASSUME NEW s, s \in Seq(Image(s)), NEW t, t \in Seq(Image(t))
  PROVE  /\ Image(s \o t) = Image(s) \cup Image(t)
         /\ s \o t \in Seq(Image(s \o t))
  <1>1. s \in Seq(Image(s) \cup Image(t)) /\ t \in Seq(Image(s) \cup Image(t))
    BY SeqMonotonic
  <1>2. /\ s \o t \in Seq(Image(s) \cup Image(t))
        /\ Len(s \o t) = Len(s) + Len(t)
        /\ \A i \in 1..(Len(s) + Len(t)) :
             (s \o t)[i] = IF i <= Len(s) THEN s[i] ELSE t[i - Len(s)]
    BY <1>1, ConcatProperties
  <1>3. /\ Len(s) \in Nat /\ DOMAIN s = 1..Len(s)
        /\ Len(t) \in Nat /\ DOMAIN t = 1..Len(t)
        /\ DOMAIN (s \o t) = 1..(Len(s) + Len(t))
    BY <1>1, <1>2, LenProperties
  <1>4. Image(s \o t) \subseteq Image(s) \cup Image(t)
    BY <1>2, Elements
  <1>5. ASSUME NEW x \in Image(s) PROVE x \in Image(s \o t)
    <2>1. PICK i \in 1..Len(s) : x = s[i]
      BY <1>3 DEF Image
    <2>2. i \in 1..(Len(s) + Len(t)) /\ (s \o t)[i] = x
      BY <1>2, <1>3, <2>1
    <2> QED BY <1>3, <2>2 DEF Image
  <1>6. ASSUME NEW x \in Image(t) PROVE x \in Image(s \o t)
    <2>1. PICK i \in 1..Len(t) : x = t[i]
      BY <1>3 DEF Image
    <2>2. i + Len(s) \in 1..(Len(s) + Len(t)) /\ (s \o t)[i + Len(s)] = x
      <3>1. ~ (i + Len(s) <= Len(s)) /\ (i + Len(s)) - Len(s) = i /\ i + Len(s) \in 1..(Len(s) + Len(t))
        BY <1>3, <2>1
      <3> QED BY <1>2, <2>1, <3>1
    <2> QED BY <1>3, <2>2 DEF Image
  <1>7. Image(s \o t) = Image(s) \cup Image(t)
    BY <1>4, <1>5, <1>6
  <1> QED BY <1>2, <1>7

LEMMA ImageOfHead ==
  ASSUME NEW s, s \in Seq(Image(s)), s # <<>>
  PROVE  /\ Image(s) = {Head(s)} \cup Image(Tail(s))
         /\ Tail(s) \in Seq(Image(Tail(s)))
  <1>1. /\ Head(s) = s[1] /\ Tail(s) \in Seq(Image(s)) /\ Len(Tail(s)) = Len(s) - 1
        /\ \A i \in 1..Len(Tail(s)) : Tail(s)[i] = s[i + 1]
        /\ Len(s) \in Nat /\ Len(s) >= 1 /\ DOMAIN s = 1..Len(s)
        /\ DOMAIN Tail(s) = 1..(Len(s) - 1)
    BY HeadTailProperties, EmptySeq, LenProperties
  <1>2. Image(s) \subseteq {Head(s)} \cup Image(Tail(s))
    <2>1. SUFFICES ASSUME NEW i \in 1..Len(s), i # 1 PROVE s[i] \in Image(Tail(s))
      BY <1>1, SMTT(30) DEF Image
    <2>2. i - 1 \in 1..(Len(s) - 1) /\ (i - 1) + 1 = i
      BY <1>1, <2>1
    <2>3. Tail(s)[i - 1] = s[i]
      BY <1>1, <2>2
    <2> QED BY <1>1, <2>2, <2>3 DEF Image
  <1>3. Image(Tail(s)) \subseteq Image(s)
    BY <1>1, Elements
  <1>4. Head(s) \in Image(s)
    BY <1>1 DEF Image
  <1> QED BY <1>1, <1>2, <1>3, <1>4, Elements

LEMMA ItemsAreAgenda ==
  ASSUME NEW kind \in ItemKinds, NEW S, NEW refs \in Seq(S)
  PROVE  /\ IsAgenda(Items(kind, refs))
         /\ Image(Items(kind, refs)) = {Item(kind, r) : r \in Image(refs)}
  <1>1. DOMAIN refs = 1..Len(refs) /\ Len(refs) \in Nat
    OBVIOUS
  <1>2. Image(Items(kind, refs)) = {Item(kind, r) : r \in Image(refs)}
    BY DEF Image, Items
  <1>3. Items(kind, refs) \in Seq(Image(Items(kind, refs)))
    <2>1. Items(kind, refs) = [i \in 1..Len(refs) |-> Item(kind, refs[i])]
      BY <1>1 DEF Items
    <2>2. \A i \in 1..Len(refs) : Item(kind, refs[i]) \in Image(Items(kind, refs))
      BY <1>1, <1>2 DEF Image
    <2> QED BY <1>1, <2>1, <2>2
  <1>4. \A x \in Image(Items(kind, refs)) : x.kind \in ItemKinds
    BY <1>2 DEF Item
  <1> QED BY <1>2, <1>3, <1>4 DEF IsAgenda

LEMMA OneItem ==
  ASSUME NEW kind \in ItemKinds, NEW r
  PROVE  IsAgenda(<<Item(kind, r)>>) /\ Image(<<Item(kind, r)>>) = {Item(kind, r)}
  <1>1. Image(<<Item(kind, r)>>) = {Item(kind, r)}
    BY DEF Image
  <1> QED BY <1>1 DEF IsAgenda, Item

LEMMA NoItem == IsAgenda(<<>>) /\ Image(<<>>) = {}
  BY EmptySeq DEF IsAgenda, Image

LEMMA AgendasJoined ==
  ASSUME NEW a, NEW b, IsAgenda(a), IsAgenda(b)
  PROVE  IsAgenda(a \o b) /\ Image(a \o b) = Image(a) \cup Image(b)
  BY ImageOfConcat DEF IsAgenda

\* What each kind of reference leads to.
LEMMA ItemsLead ==
  /\ \A r : NodesFor(Item("judgment", r)) = {Judge(r)}
  /\ \A r : NodesFor(Item("tool", r)) = {Invoke(r)}
  /\ \A r : NodesFor(Item("candidates", r)) = {Retrieve(r)}
  /\ \A r : NodesFor(Item("need", r)) = IF r \in given.available THEN {} ELSE ProducingNodes(r)
  /\ \A r : NodesFor(Item("binding", r)) = {}
  /\ \A kind, r : Item(kind, r).kind = kind /\ Item(kind, r).ref = r
  BY DEF NodesFor, Item, IsAvailable

LEMMA NodesOfItems ==
  ASSUME NEW S
  PROVE  /\ UNION {NodesFor(x) : x \in {Item("judgment", r) : r \in S}} = {Judge(r) : r \in S}
         /\ UNION {NodesFor(x) : x \in {Item("tool", r) : r \in S}} = {Invoke(r) : r \in S}
         /\ UNION {NodesFor(x) : x \in {Item("candidates", r) : r \in S}} = {Retrieve(r) : r \in S}
  <1>1. ASSUME NEW kind, NEW S1
        PROVE  UNION {NodesFor(x) : x \in {Item(kind, r) : r \in S1}} = UNION {NodesFor(Item(kind, r)) : r \in S1}
    OBVIOUS
  <1>2. UNION {NodesFor(Item("judgment", r)) : r \in S} = {Judge(r) : r \in S}
    BY ItemsLead
  <1>3. UNION {NodesFor(Item("tool", r)) : r \in S} = {Invoke(r) : r \in S}
    BY ItemsLead
  <1>4. UNION {NodesFor(Item("candidates", r)) : r \in S} = {Retrieve(r) : r \in S}
    BY ItemsLead
  <1>5. UNION {NodesFor(x) : x \in {Item("judgment", r) : r \in S}} = {Judge(r) : r \in S}
    BY <1>1, <1>2, Zenon
  <1>6. UNION {NodesFor(x) : x \in {Item("tool", r) : r \in S}} = {Invoke(r) : r \in S}
    BY <1>1, <1>3, Zenon
  <1>7. UNION {NodesFor(x) : x \in {Item("candidates", r) : r \in S}} = {Retrieve(r) : r \in S}
    BY <1>1, <1>4, Zenon
  <1> QED BY <1>5, <1>6, <1>7, Zenon

LEMMA NeedsLead ==
  ASSUME NEW refs
  PROVE  NeedLinks(refs) = UNION {NodesFor(Item("need", r)) : r \in refs}
  BY ItemsLead DEF NeedLinks

\* A binding is replaced by references of other kinds.
LEMMA BindingRefs ==
  ASSUME NEW b
  PROVE  /\ IsAgenda(ReferencesOf(b))
         /\ \A x \in Image(ReferencesOf(b)) : x.kind # "binding"
  <1>1. CASE b.kind = "candidate"
    <2> DEFINE x == Item("candidates", b.ref)
               y == Item("judgment", b.inputs[1])
    <2>1. ReferencesOf(b) = <<x, y>>
      BY <1>1 DEF ReferencesOf
    <2>2. x.kind = "candidates" /\ y.kind = "judgment"
      BY ItemsLead
    <2> HIDE DEF x, y
    <2>3. Image(<<x, y>>) = {x, y}
      BY DEF Image
    <2> QED BY <2>1, <2>2, <2>3 DEF IsAgenda, ItemKinds
  <1>2. ASSUME NEW kind \in ItemKinds \ {"binding"}, ReferencesOf(b) = <<Item(kind, b.ref)>>
        PROVE  /\ IsAgenda(ReferencesOf(b))
               /\ \A x \in Image(ReferencesOf(b)) : x.kind # "binding"
    BY <1>2, OneItem, ItemsLead
  <1>3. CASE b.kind \in {"source", "judgment", "generated"}
    <2>1. /\ b.kind = "source" => ReferencesOf(b) = <<Item("need", b.ref)>>
          /\ b.kind = "judgment" => ReferencesOf(b) = <<Item("judgment", b.ref)>>
          /\ b.kind = "generated" => ReferencesOf(b) = <<Item("tool", b.ref)>>
      BY DEF ReferencesOf
    <2> QED BY <1>2, <1>3, <2>1 DEF ItemKinds
  <1>4. CASE b.kind \notin {"candidate", "source", "judgment", "generated"}
    BY <1>4, NoItem DEF ReferencesOf
  <1> QED BY <1>1, <1>3, <1>4

LEMMA BindingLeads ==
  ASSUME NEW id, NEW i
  PROVE  LET x == Item("binding", i)
         IN  BindingLinks(id[2], i) = ItemLinks(id, x) \cup UNION {NodesFor(y) : y \in RefsOf(id, x)}
  <1> DEFINE x == Item("binding", i)
             b == Tool(id[2]).bindings[i]
  <1> SUFFICES BindingLinks(id[2], i) = ItemLinks(id, x) \cup UNION {NodesFor(y) : y \in RefsOf(id, x)}
    OBVIOUS
  <1>1. /\ RefsOf(id, x) = Image(ReferencesOf(b))
        /\ ItemLinks(id, x) = IF b.kind = "derivation" THEN {Derive(id[2], i)} ELSE {}
    <2>1. x.kind = "binding" /\ x.ref = i
      BY ItemsLead
    <2> HIDE DEF x
    <2> QED BY <2>1 DEF RefsOf, ItemLinks
  <1> HIDE DEF x
  <1>2. CASE b.kind = "candidate"
    <2> DEFINE y == Item("candidates", b.ref)
               z == Item("judgment", b.inputs[1])
    <2>1. ReferencesOf(b) = <<y, z>>
      BY <1>2 DEF ReferencesOf
    <2>2. NodesFor(y) = {Retrieve(b.ref)} /\ NodesFor(z) = {Judge(b.inputs[1])}
      BY ItemsLead
    <2>3. BindingLinks(id[2], i) = {Retrieve(b.ref), Judge(b.inputs[1])}
      BY <1>2 DEF BindingLinks
    <2> HIDE DEF y, z
    <2>4. Image(<<y, z>>) = {y, z}
      BY DEF Image
    <2>5. UNION {NodesFor(w) : w \in {y, z}} = NodesFor(y) \cup NodesFor(z)
      OBVIOUS
    <2>6. RefsOf(id, x) = {y, z} /\ ItemLinks(id, x) = {}
      BY <1>1, <1>2, <2>1, <2>4
    <2> HIDE DEF b
    <2> QED BY <2>2, <2>3, <2>5, <2>6
  <1>3. ASSUME NEW kind \in ItemKinds, ReferencesOf(b) = <<Item(kind, b.ref)>>
        PROVE  UNION {NodesFor(y) : y \in RefsOf(id, x)} = NodesFor(Item(kind, b.ref))
    <2>1. RefsOf(id, x) = {Item(kind, b.ref)}
      BY <1>1, <1>3, OneItem
    <2> QED BY <2>1
  <1>4. CASE b.kind = "source"
    <2>1. ReferencesOf(b) = <<Item("need", b.ref)>>
      BY <1>4 DEF ReferencesOf
    <2>2. BindingLinks(id[2], i) = NodesFor(Item("need", b.ref))
      BY <1>4, NeedsLead DEF BindingLinks
    <2>3. UNION {NodesFor(y) : y \in RefsOf(id, x)} = NodesFor(Item("need", b.ref))
      BY <1>3, <2>1 DEF ItemKinds
    <2> QED BY <1>1, <1>4, <2>2, <2>3
  <1>5. CASE b.kind = "judgment"
    <2>1. ReferencesOf(b) = <<Item("judgment", b.ref)>>
      BY <1>5 DEF ReferencesOf
    <2>2. BindingLinks(id[2], i) = NodesFor(Item("judgment", b.ref))
      BY <1>5, ItemsLead DEF BindingLinks
    <2>3. UNION {NodesFor(y) : y \in RefsOf(id, x)} = NodesFor(Item("judgment", b.ref))
      BY <1>3, <2>1 DEF ItemKinds
    <2> QED BY <1>1, <1>5, <2>2, <2>3
  <1>6. CASE b.kind = "generated"
    <2>1. ReferencesOf(b) = <<Item("tool", b.ref)>>
      BY <1>6 DEF ReferencesOf
    <2>2. BindingLinks(id[2], i) = NodesFor(Item("tool", b.ref))
      BY <1>6, ItemsLead DEF BindingLinks
    <2>3. UNION {NodesFor(y) : y \in RefsOf(id, x)} = NodesFor(Item("tool", b.ref))
      BY <1>3, <2>1 DEF ItemKinds
    <2> QED BY <1>1, <1>6, <2>2, <2>3
  <1>7. CASE b.kind \notin {"candidate", "source", "judgment", "generated"}
    <2>1. ReferencesOf(b) = <<>>
      BY <1>7 DEF ReferencesOf
    <2>2. RefsOf(id, x) = {}
      BY <1>1, <2>1, NoItem
    <2>3. BindingLinks(id[2], i) = ItemLinks(id, x)
      BY <1>1, <1>7 DEF BindingLinks
    <2> QED BY <2>2, <2>3
  <1> QED BY <1>2, <1>4, <1>5, <1>6, <1>7

LEMMA PlainAgenda ==
  ASSUME NEW id, \A x \in Image(AgendaOf(id)) : x.kind # "binding"
  PROVE  /\ Wanted(id) = Image(AgendaOf(id))
         /\ UNION {ItemLinks(id, x) : x \in Wanted(id)} = UNION {NodesFor(x) : x \in Image(AgendaOf(id))}
  <1>1. Wanted(id) = Image(AgendaOf(id))
    BY DEF Wanted, Expanded, RefsOf
  <1>2. \A x \in Image(AgendaOf(id)) : ItemLinks(id, x) = NodesFor(x)
    BY DEF ItemLinks
  <1> QED BY <1>1, <1>2

\* Each node links to what its references lead to, one by one; only a tool has
\* bindings among them.
AgendaLeads(id) ==
  /\ IsAgenda(AgendaOf(id))
  /\ Links(id) = UNION {ItemLinks(id, x) : x \in Wanted(id)}
  /\ \A x \in Wanted(id) : x.kind = "binding" =>
       id[1] = "invoke" /\ x.ref \in DOMAIN Tool(id[2]).bindings

LEMMA JudgmentLeads ==
  ASSUME WellDefined(definition), NEW j \in DOMAIN definition.judgments
  PROVE  AgendaLeads(Judge(j))
  <1> DEFINE id == Judge(j)
             D == {Item("judgment", d) : d \in Image(Judgment(j).dependencies)}
             E == {Item("need", e) : e \in Image(Judgment(j).evidence)}
             c == Judgment(j).candidates
             C == {Item("candidates", p) : p \in {c} \ {NoProvider}}
             last == IF c = NoProvider THEN <<>> ELSE <<Item("candidates", c)>>
  <1>1. AgendaOf(id) = Items("judgment", Judgment(j).dependencies)
                         \o Items("need", Judgment(j).evidence) \o last
    <2>1. id[1] = "judge" /\ id[2] = j
      BY NodeParts
    <2> HIDE DEF id
    <2> QED BY <2>1 DEF AgendaOf, JudgmentAgenda
  <1>2. /\ Judgment(j).dependencies \in Seq(Judgments) /\ Judgment(j).evidence \in Seq(Names)
    BY DEF WellDefined, FieldsTyped, Judgment
  <1>3. /\ IsAgenda(Items("judgment", Judgment(j).dependencies))
        /\ Image(Items("judgment", Judgment(j).dependencies)) = D
        /\ IsAgenda(Items("need", Judgment(j).evidence))
        /\ Image(Items("need", Judgment(j).evidence)) = E
    BY <1>2, ItemsAreAgenda DEF ItemKinds
  <1>4. IsAgenda(last) /\ Image(last) = C
    <2>1. CASE c = NoProvider
      BY <2>1, NoItem
    <2>2. CASE c # NoProvider
      BY <2>2, OneItem DEF ItemKinds
    <2> QED BY <2>1, <2>2
  <1>5. Image(AgendaOf(id)) = D \cup E \cup C /\ IsAgenda(AgendaOf(id))
    <2> HIDE DEF D, E, C, last, id
    <2> QED BY <1>1, <1>3, <1>4, AgendasJoined
  <1>6. \A x \in D \cup E \cup C : x.kind # "binding"
    BY ItemsLead
  <1>7. Links(id) = UNION {NodesFor(x) : x \in D \cup E \cup C}
    <2>1. Links(id) = {Judge(d) : d \in Image(Judgment(j).dependencies)}
                        \cup NeedLinks(Image(Judgment(j).evidence))
                        \cup {Retrieve(p) : p \in {c} \ {NoProvider}}
      BY NodeParts DEF Links
    <2>2. UNION {NodesFor(x) : x \in D} = {Judge(d) : d \in Image(Judgment(j).dependencies)}
      BY NodesOfItems
    <2>3. UNION {NodesFor(x) : x \in E} = NeedLinks(Image(Judgment(j).evidence))
      BY NeedsLead
    <2>4. UNION {NodesFor(x) : x \in C} = {Retrieve(p) : p \in {c} \ {NoProvider}}
      BY NodesOfItems
    <2> HIDE DEF D, E, C, c
    <2>5. UNION {NodesFor(x) : x \in D \cup E \cup C}
            = (UNION {NodesFor(x) : x \in D}) \cup (UNION {NodesFor(x) : x \in E})
                \cup (UNION {NodesFor(x) : x \in C})
      OBVIOUS
    <2> QED BY <2>1, <2>2, <2>3, <2>4, <2>5
  <1> HIDE DEF D, E, C, id
  <1>8. AgendaLeads(id)
    BY <1>5, <1>6, <1>7, PlainAgenda DEF AgendaLeads
  <1> QED BY <1>8, SMTT(30) DEF id

LEMMA CompletionLeads ==
  ASSUME WellDefined(definition), given.revision \in Seq(Tools)
  PROVE  AgendaLeads(Complete)
  <1> DEFINE D == {Item("need", r) : r \in Image(definition.required)}
             E == {Item("need", r) : r \in Image(Results)}
             C == {Item("tool", t) : t \in Image(given.revision)}
  <1>1. AgendaOf(Complete) = Items("need", definition.required)
                               \o Items("need", Results) \o Items("tool", given.revision)
    BY NodeParts DEF AgendaOf, CompletionAgenda
  <1>2. definition.required \in Seq(Names) /\ Results \in Seq(Names)
    BY DEF WellDefined, FieldsTyped, Results
  <1>3. /\ IsAgenda(Items("need", definition.required))
        /\ Image(Items("need", definition.required)) = D
        /\ IsAgenda(Items("need", Results))
        /\ Image(Items("need", Results)) = E
        /\ IsAgenda(Items("tool", given.revision))
        /\ Image(Items("tool", given.revision)) = C
    BY <1>2, ItemsAreAgenda DEF ItemKinds
  <1>5. Image(AgendaOf(Complete)) = D \cup E \cup C /\ IsAgenda(AgendaOf(Complete))
    <2> HIDE DEF D, E, C
    <2> QED BY <1>1, <1>3, AgendasJoined
  <1>6. \A x \in D \cup E \cup C : x.kind # "binding"
    BY ItemsLead
  <1>7. Links(Complete) = UNION {NodesFor(x) : x \in D \cup E \cup C}
    <2>1. Links(Complete) = NeedLinks(Image(definition.required) \cup Image(Results))
                              \cup {Invoke(t) : t \in Image(given.revision)}
      BY NodeParts DEF Links
    <2>2. UNION {NodesFor(x) : x \in C} = {Invoke(t) : t \in Image(given.revision)}
      BY NodesOfItems
    <2>3. UNION {NodesFor(x) : x \in D \cup E} = NeedLinks(Image(definition.required) \cup Image(Results))
      <3>1. D \cup E = {Item("need", r) : r \in Image(definition.required) \cup Image(Results)}
        OBVIOUS
      <3> HIDE DEF D, E
      <3> QED BY <3>1, NeedsLead
    <2> HIDE DEF D, E, C
    <2>5. UNION {NodesFor(x) : x \in D \cup E \cup C}
            = (UNION {NodesFor(x) : x \in D \cup E}) \cup (UNION {NodesFor(x) : x \in C})
      OBVIOUS
    <2> QED BY <2>1, <2>2, <2>3, <2>5
  <1> HIDE DEF D, E, C
  <1> QED BY <1>5, <1>6, <1>7, PlainAgenda DEF AgendaLeads

LEMMA DerivationLeads ==
  ASSUME WellDefined(definition), NEW t \in DOMAIN definition.tools, NEW i \in Derivations(t)
  PROVE  AgendaLeads(Derive(t, i))
  <1> DEFINE id == Derive(t, i)
             b == Tool(t).bindings[i]
             D == {Item("need", r) : r \in Image(b.inputs)}
             C == {Item("tool", b.ref)}
  <1>1. AgendaOf(id) = Items("need", b.inputs) \o <<Item("tool", b.ref)>>
    <2>1. id[1] = "derive" /\ id[2] = t /\ id[3] = i
      BY NodeParts
    <2> HIDE DEF id
    <2> QED BY <2>1 DEF AgendaOf
  <1>2. b.inputs \in Seq(Names)
    <2>1. b \in BindingValues
      BY DEF WellDefined, FieldsTyped, Tool, Derivations
    <2> QED BY <2>1 DEF BindingValues
  <1>3. /\ IsAgenda(Items("need", b.inputs)) /\ Image(Items("need", b.inputs)) = D
        /\ IsAgenda(<<Item("tool", b.ref)>>) /\ Image(<<Item("tool", b.ref)>>) = C
    BY <1>2, ItemsAreAgenda, OneItem DEF ItemKinds
  <1>5. Image(AgendaOf(id)) = D \cup C /\ IsAgenda(AgendaOf(id))
    <2> HIDE DEF D, C, id, b
    <2> QED BY <1>1, <1>3, AgendasJoined
  <1>6. \A x \in D \cup C : x.kind # "binding"
    BY ItemsLead
  <1>7. Links(id) = UNION {NodesFor(x) : x \in D \cup C}
    <2>1. Links(id) = NeedLinks(Image(b.inputs)) \cup {Invoke(b.ref)}
      BY NodeParts DEF Links
    <2>2. UNION {NodesFor(x) : x \in C} = {Invoke(b.ref)}
      BY ItemsLead
    <2>3. UNION {NodesFor(x) : x \in D} = NeedLinks(Image(b.inputs))
      BY NeedsLead
    <2> HIDE DEF D, C, b
    <2>5. UNION {NodesFor(x) : x \in D \cup C}
            = (UNION {NodesFor(x) : x \in D}) \cup (UNION {NodesFor(x) : x \in C})
      OBVIOUS
    <2> QED BY <2>1, <2>2, <2>3, <2>5
  <1> HIDE DEF D, C, id
  <1>8. AgendaLeads(id)
    BY <1>5, <1>6, <1>7, PlainAgenda DEF AgendaLeads
  <1> QED BY <1>8 DEF id

LEMMA ToolLeads ==
  ASSUME WellDefined(definition), NEW t \in DOMAIN definition.tools
  PROVE  AgendaLeads(Invoke(t))
  <1> DEFINE id == Invoke(t)
             N == DOMAIN Tool(t).bindings
             D == {Item("need", r) : r \in Image(Tool(t).requires)}
             B == {Item("binding", i) : i \in N}
             second == [i \in N |-> Item("binding", i)]
  <1>1. AgendaOf(id) = Items("need", Tool(t).requires) \o second
    BY NodeParts DEF AgendaOf, ToolAgenda
  <1>2. Tool(t).requires \in Seq(Names) /\ N = 1..Len(Tool(t).bindings) /\ Len(Tool(t).bindings) \in Nat
    BY DEF WellDefined, FieldsTyped, Tool
  <1>3. IsAgenda(Items("need", Tool(t).requires)) /\ Image(Items("need", Tool(t).requires)) = D
    BY <1>2, ItemsAreAgenda DEF ItemKinds
  <1>4. IsAgenda(second) /\ Image(second) = B
    <2>1. Image(second) = B
      BY DEF Image
    <2>2. \A x \in B : x.kind \in ItemKinds
      BY ItemsLead DEF ItemKinds
    <2>3. second \in Seq(B)
      BY <1>2
    <2> HIDE DEF second, B
    <2> QED BY <2>1, <2>2, <2>3 DEF IsAgenda
  <1>5. Image(AgendaOf(id)) = D \cup B /\ IsAgenda(AgendaOf(id))
    <2> HIDE DEF D, B, second, id
    <2> QED BY <1>1, <1>3, <1>4, AgendasJoined
  <1> DEFINE R == UNION {RefsOf(id, x) : x \in B}
  <1>6. Wanted(id) = D \cup B \cup R
    <2>1. \A x \in D : RefsOf(id, x) = {}
      BY ItemsLead DEF RefsOf
    <2>2. UNION {RefsOf(id, x) : x \in D \cup B} = R
      BY <2>1
    <2> HIDE DEF R, D, B, id
    <2> QED BY <1>5, <2>2 DEF Wanted, Expanded
  <1>7. /\ \A x \in R : x.kind # "binding"
        /\ \A x \in D : x.kind # "binding"
        /\ \A x \in B : x.kind = "binding" /\ x.ref \in N
    <2>1. \A x \in R : x.kind # "binding"
      BY BindingRefs DEF RefsOf
    <2> HIDE DEF R
    <2> QED BY <2>1, ItemsLead
  <1>8. Links(id) = NeedLinks(Image(Tool(t).requires)) \cup UNION {BindingLinks(t, i) : i \in N}
    BY NodeParts DEF Links
  <1>9. NeedLinks(Image(Tool(t).requires)) = UNION {ItemLinks(id, x) : x \in D}
    <2>1. \A x \in D : ItemLinks(id, x) = NodesFor(x)
      BY <1>7 DEF ItemLinks
    <2>2. NeedLinks(Image(Tool(t).requires)) = UNION {NodesFor(x) : x \in D}
      BY NeedsLead
    <2> HIDE DEF D
    <2> QED BY <2>1, <2>2
  <1>10. UNION {BindingLinks(t, i) : i \in N} = UNION {ItemLinks(id, x) : x \in B \cup R}
    <2>1. \A x \in R : ItemLinks(id, x) = NodesFor(x)
      <3> HIDE DEF R
      <3> QED BY <1>7 DEF ItemLinks
    <2>2. ASSUME NEW i \in N
          PROVE  BindingLinks(t, i) = ItemLinks(id, Item("binding", i))
                   \cup UNION {NodesFor(y) : y \in RefsOf(id, Item("binding", i))}
      <3>1. id[2] = t
        BY NodeParts
      <3> HIDE DEF id
      <3> QED BY <3>1, BindingLeads
    <2> HIDE DEF id, N
    <2> QED BY <2>1, <2>2
  <1>11. AgendaLeads(id)
    <2>1. Links(id) = UNION {ItemLinks(id, x) : x \in D \cup B \cup R}
      <3> HIDE DEF D, B, R, id, N
      <3> QED BY <1>8, <1>9, <1>10
    <2>2. id[1] = "invoke" /\ id[2] = t
      BY NodeParts
    <2> HIDE DEF D, B, R, id
    <2> QED BY <1>5, <1>6, <1>7, <2>1, <2>2 DEF AgendaLeads
  <1> QED BY <1>11, Zenon

LEMMA EveryNodeLeads ==
  ASSUME WellDefined(definition), given.revision \in Seq(Tools),
         NEW id \in AllNodes, Exists(id)
  PROVE  AgendaLeads(id)
  <1>1. ASSUME NEW p, id = Retrieve(p) PROVE AgendaLeads(id)
    <2>1. AgendaOf(id) = <<>> /\ Links(id) = {}
      BY <1>1, NodeParts DEF AgendaOf, Links
    <2> QED BY <2>1, NoItem, PlainAgenda DEF AgendaLeads
  <1>2. ASSUME NEW j \in Judgments, id = Judge(j) PROVE j \in DOMAIN definition.judgments
    BY <1>2, NodeParts DEF Exists
  <1>3. ASSUME NEW t \in Tools, id = Invoke(t) PROVE t \in DOMAIN definition.tools
    BY <1>3, NodeParts DEF Exists
  <1> QED BY <1>1, <1>2, <1>3, NodeCases, JudgmentLeads, ToolLeads, CompletionLeads, DerivationLeads
-----------------------------------------------------------------------------
(* Steps that leave the definition and the request alone. *)

LEMMA SameArguments ==
  ASSUME definition' = definition, given' = given
  PROVE  /\ \A id : Links(id)' = Links(id) /\ Wanted(id)' = Wanted(id) /\ (Exists(id)' <=> Exists(id))
         /\ \A id, x : Fine(id, x)' <=> Fine(id, x)
         /\ \A ids : ReachedFrom(ids)' = ReachedFrom(ids)
         /\ AllNodes' = AllNodes
         /\ \A f, called : VisitOK(f, called)' <=> VisitOK(f, called)
  <1>1. \A id : Links(id)' = Links(id) /\ (Exists(id)' <=> Exists(id))
    BY DEF Links, NeedLinks, BindingLinks, ProducingNodes, Producers, Registered, Judgment, Tool, Results, Exists
  <1>2. \A ids : ReachedFrom(ids)' = ReachedFrom(ids)
    BY DEF ReachedFrom, LinksOf, AllNodes, Derivations, Exists, Links, NeedLinks, BindingLinks,
           ProducingNodes, Producers, Registered, Judgment, Tool, Results
  <1>3. \A id, x : RefsOf(id, x)' = RefsOf(id, x)
    BY DEF RefsOf, Tool
  <1>4. \A id : Wanted(id)' = Wanted(id)
    BY DEF Wanted, Expanded, RefsOf, AgendaOf, JudgmentAgenda, ToolAgenda, CompletionAgenda,
           Judgment, Tool, Results
  <1>5. AllNodes' = AllNodes
    BY DEF AllNodes, Derivations, Tool
  <1>6. \A x : NodesFor(x)' = NodesFor(x) /\ (IsAvailable(x)' <=> IsAvailable(x))
    BY DEF NodesFor, IsAvailable, ProducingNodes, Producers, Registered, Tool
  <1>7. \A b : BindingRefusal(b)' = BindingRefusal(b)
    BY DEF BindingRefusal, Registered, Judgment, Tool
  <1>8. \A id, x : (Fine(id, x)' <=> Fine(id, x)) /\ ItemLinks(id, x)' = ItemLinks(id, x)
    BY <1>6, <1>7 DEF Fine, ItemLinks, Tool, Registered
  <1>9. \A id, items : Expanded(id, items)' = Expanded(id, items)
    BY <1>3 DEF Expanded
  <1>10. \A f, called : VisitOK(f, called)' <=> VisitOK(f, called)
    BY <1>1, <1>4, <1>5, <1>8, <1>9 DEF VisitOK
  <1> QED BY <1>1, <1>2, <1>4, <1>5, <1>8, <1>10
-----------------------------------------------------------------------------
(* Visits begin, go on and end. *)

\* A reference is replaced by none but what the node wants.
LEMMA RefsWanted ==
  ASSUME NEW id, NEW x \in Wanted(id)
  PROVE  RefsOf(id, x) \subseteq Wanted(id)
  <1> DEFINE A == Image(AgendaOf(id))
  <1>1. Wanted(id) = A \cup UNION {RefsOf(id, y) : y \in A}
    BY DEF Wanted, Expanded
  <1> HIDE DEF A
  <1>2. CASE x \in A
    BY <1>1, <1>2
  <1>3. ASSUME NEW y \in A, x \in RefsOf(id, y) PROVE RefsOf(id, x) = {}
    <2>1. x.kind # "binding"
      BY <1>3, BindingRefs DEF RefsOf
    <2> QED BY <2>1 DEF RefsOf
  <1> QED BY <1>1, <1>2, <1>3

LEMMA VisitBegins ==
  ASSUME NEW id \in AllNodes, Exists(id), AgendaLeads(id)
  PROVE  VisitOK(Frame(id, AgendaOf(id)), {})
  <1> DEFINE f == Frame(id, AgendaOf(id))
  <1>1. f.node = id /\ f.agenda = AgendaOf(id) /\ Image(f.depends) = {}
    BY DEF Frame, Image
  <1> HIDE DEF f
  <1>2. Expanded(id, Image(f.agenda)) = Wanted(id) /\ Image(f.agenda) \subseteq Wanted(id)
    BY <1>1 DEF Wanted, Expanded
  <1>3. VisitOK(f, {})
    BY <1>1, <1>2 DEF VisitOK, AgendaLeads
  <1> QED BY <1>3 DEF f

\* The first reference is dealt with: what it is replaced by comes first, and the
\* nodes it leads to are depended on or called.
LEMMA VisitGoesOn ==
  ASSUME NEW f, VisitOK(f, {}), AgendaLeads(f.node), f.agenda # <<>>,
         f.depends \in Seq(Image(f.depends)),
         NEW items, IsAgenda(items), Image(items) = RefsOf(f.node, Head(f.agenda)),
         Fine(f.node, Head(f.agenda)),
         NEW depends, depends \in Seq(Image(depends)), NEW called,
         Image(depends) \cup called = ItemLinks(f.node, Head(f.agenda))
  PROVE  VisitOK([node |-> f.node, agenda |-> items \o Tail(f.agenda),
                  depends |-> f.depends \o depends], called)
  <1> DEFINE g == [node |-> f.node, agenda |-> items \o Tail(f.agenda),
                   depends |-> f.depends \o depends]
             x == Head(f.agenda)
             id == f.node
             rest == Tail(f.agenda)
             new == items \o rest
             deps == f.depends \o depends
  <1>1. g.node = id /\ g.agenda = new /\ g.depends = deps
    OBVIOUS
  <1>2. Image(deps) = Image(f.depends) \cup Image(depends)
    BY ImageOfConcat
  <1>3. Image(f.agenda) = {x} \cup Image(rest) /\ IsAgenda(rest)
    BY ImageOfHead DEF VisitOK, IsAgenda
  <1>4. IsAgenda(new) /\ Image(new) = RefsOf(id, x) \cup Image(rest)
    BY <1>3, AgendasJoined
  <1> HIDE DEF g, x, id, rest, new, deps
  <1>5. x \in Wanted(id) /\ Image(rest) \subseteq Wanted(id) /\ id \in AllNodes /\ Exists(id)
        /\ Image(f.depends) \subseteq Links(id)
    BY <1>3 DEF VisitOK, id
  <1>6. RefsOf(id, x) \subseteq Wanted(id)
    BY <1>5, RefsWanted
  <1>7. ItemLinks(id, x) \subseteq Links(id) /\ Fine(id, x)
    BY <1>5 DEF AgendaLeads, id, x
  <1>8. Image(depends) \cup called = ItemLinks(id, x)
    BY DEF id, x
  <1>9. Expanded(id, Image(f.agenda)) \subseteq {x} \cup Expanded(id, Image(new))
    BY <1>3, <1>4 DEF Expanded
  <1>10. ASSUME NEW y \in Wanted(id) \ Expanded(id, Image(new))
         PROVE  Fine(id, y) /\ ItemLinks(id, y) \subseteq Image(deps) \cup called
    <2>1. CASE y = x
      BY <2>1, <1>2, <1>7, <1>8
    <2>2. CASE y # x
      <3>1. y \in Wanted(id) \ Expanded(id, Image(f.agenda))
        BY <1>9, <2>2
      <3>2. Fine(id, y) /\ ItemLinks(id, y) \subseteq Image(f.depends)
        BY <3>1 DEF VisitOK, id
      <3> QED BY <3>2, <1>2
    <2> QED BY <2>1, <2>2
  <1>11. Image(new) \subseteq Wanted(id) /\ Image(deps) \cup called \subseteq Links(id)
    BY <1>2, <1>4, <1>5, <1>6, <1>7, <1>8
  <1>12. VisitOK(g, called)
    BY <1>1, <1>4, <1>5, <1>10, <1>11 DEF VisitOK
  <1> QED BY <1>12 DEF g, x, id, rest, new, deps

\* A visit with nothing left to do has all its node links to.
LEMMA VisitEnds ==
  ASSUME NEW f, VisitOK(f, {}), AgendaLeads(f.node), f.agenda = <<>>
  PROVE  Image(f.depends) = Links(f.node) /\ \A x \in Wanted(f.node) : Fine(f.node, x)
  <1>1. Expanded(f.node, Image(f.agenda)) = {}
    BY NoItem DEF Expanded
  <1>2. \A x \in Wanted(f.node) : Fine(f.node, x) /\ ItemLinks(f.node, x) \subseteq Image(f.depends)
    BY <1>1 DEF VisitOK
  <1>3. Image(f.depends) \subseteq Links(f.node)
    BY DEF VisitOK
  <1> QED BY <1>2, <1>3 DEF AgendaLeads

\* A visit gets the node it called for.
LEMMA VisitReturns ==
  ASSUME NEW f, IsFrame(f), NEW id, VisitOK(f, {id}), f.depends \in Seq(Image(f.depends))
  PROVE  VisitOK([f EXCEPT !.depends = Append(@, id)], {})
  <1> DEFINE g == [f EXCEPT !.depends = Append(@, id)]
             deps == Append(f.depends, id)
  <1>1. PICK n, a, d : f = [node |-> n, agenda |-> a, depends |-> d]
    BY DEF IsFrame
  <1>2. g.node = f.node /\ g.agenda = f.agenda /\ g.depends = deps
    BY <1>1
  <1>3. Image(deps) = Image(f.depends) \cup {id}
    BY Appended
  <1> HIDE DEF g, deps
  <1>4. VisitOK(g, {})
    BY <1>2, <1>3 DEF VisitOK
  <1> QED BY <1>4 DEF g

\* A stack of visits and one on top.
LEMMA VisitsSplit ==
  ASSUME stack \in Seq(Image(stack)), stack # <<>>, VisitsOK(stack, {})
  PROVE  VisitsOK(Below, {Top.node}) /\ VisitOK(Top, {})
  <1>1. /\ Len(stack) \in Nat /\ Len(stack) >= 1 /\ DOMAIN stack = 1..Len(stack)
        /\ Below \in Seq(Image(stack)) /\ Len(Below) = Len(stack) - 1
        /\ \A i \in 1..(Len(stack) - 1) : Below[i] = stack[i]
    BY Parts DEF Below
  <1>2. VisitOK(Top, {})
    <2> DEFINE n == Len(stack)
    <2>1. n \in DOMAIN stack /\ ~ (n < n)
      BY <1>1
    <2>2. VisitOK(stack[n], IF n < n THEN {stack[n + 1].node} ELSE {})
      BY <2>1 DEF VisitsOK
    <2> QED BY <2>1, <2>2 DEF Top
  <1>3. ASSUME NEW i \in DOMAIN Below
        PROVE  VisitOK(Below[i], IF i < Len(Below) THEN {Below[i + 1].node} ELSE {Top.node})
    <2>1. /\ i \in 1..(Len(stack) - 1) /\ i \in DOMAIN stack /\ i < Len(stack)
          /\ (i < Len(Below) => i + 1 \in 1..(Len(stack) - 1))
          /\ (~ (i < Len(Below)) => i + 1 = Len(stack))
      BY <1>1
    <2>2. VisitOK(Below[i], {stack[i + 1].node})
      BY <1>1, <2>1 DEF VisitsOK
    <2>3. stack[i + 1].node = IF i < Len(Below) THEN Below[i + 1].node ELSE Top.node
      BY <1>1, <2>1 DEF Top
    <2> QED BY <2>2, <2>3
  <1>4. VisitsOK(Below, {Top.node})
    BY <1>3 DEF VisitsOK
  <1> QED BY <1>2, <1>4

LEMMA VisitsPushed ==
  ASSUME NEW s, s \in Seq(Image(s)), NEW f, NEW called,
         VisitsOK(s, {f.node}), VisitOK(f, called)
  PROVE  VisitsOK(Append(s, f), called)
  <1> DEFINE t == Append(s, f)
  <1>1. /\ Len(s) \in Nat /\ DOMAIN s = 1..Len(s)
        /\ Len(t) = Len(s) + 1 /\ DOMAIN t = 1..(Len(s) + 1)
        /\ \A i \in 1..Len(s) : t[i] = s[i]
        /\ t[Len(s) + 1] = f
    OBVIOUS
  <1> HIDE DEF t
  <1>2. ASSUME NEW i \in DOMAIN t
        PROVE  VisitOK(t[i], IF i < Len(t) THEN {t[i + 1].node} ELSE called)
    <2>1. CASE i = Len(s) + 1
      BY <1>1, <2>1
    <2>2. CASE i # Len(s) + 1
      <3>1. i \in 1..Len(s) /\ i < Len(t) /\ i + 1 \in DOMAIN t /\ t[i] = s[i]
        BY <1>1, <2>2
      <3>2. VisitOK(s[i], IF i < Len(s) THEN {s[i + 1].node} ELSE {f.node})
        BY <1>1, <3>1 DEF VisitsOK
      <3>3. t[i + 1] = IF i < Len(s) THEN s[i + 1] ELSE f
        BY <1>1, <3>1
      <3> QED BY <3>1, <3>2, <3>3
    <2> QED BY <2>1, <2>2
  <1>3. VisitsOK(t, called)
    BY <1>2 DEF VisitsOK
  <1> QED BY <1>3 DEF t

LEMMA VisitsReturned ==
  ASSUME NEW s, s \in Seq(Image(s)), s # <<>>, NEW id, VisitsOK(s, {id}),
         \A f \in Image(s) : IsFrame(f) /\ f.depends \in Seq(Image(f.depends))
  PROVE  VisitsOK([s EXCEPT ![Len(s)].depends = Append(@, id)], {})
  <1> DEFINE n == Len(s)
             g == [s[n] EXCEPT !.depends = Append(@, id)]
             t == [s EXCEPT ![n] = g]
  <1>1. n \in Nat /\ n >= 1 /\ DOMAIN s = 1..n /\ s[n] \in Image(s)
    BY Parts
  <1>2. VisitOK(s[n], {id})
    <2>1. n \in DOMAIN s /\ ~ (n < n)
      BY <1>1
    <2>2. VisitOK(s[n], IF n < n THEN {s[n + 1].node} ELSE {id})
      BY <2>1 DEF VisitsOK
    <2> QED BY <2>1, <2>2
  <1>3. VisitOK(g, {}) /\ g.node = s[n].node
    <2>1. VisitOK(g, {})
      BY <1>1, <1>2, VisitReturns
    <2>2. IsFrame(s[n])
      BY <1>1
    <2>3. g.node = s[n].node
      BY <2>2, Changed
    <2> QED BY <2>1, <2>3
  <1>4. [s EXCEPT ![Len(s)].depends = Append(@, id)] = t
    OBVIOUS
  <1> HIDE DEF g
  <1>5. /\ DOMAIN t = 1..n /\ Len(t) = n
        /\ t[n] = g /\ \A i \in 1..n : i # n => t[i] = s[i]
        /\ \A i \in 1..n : t[i].node = s[i].node
    <2> HIDE DEF n
    <2>1. DOMAIN t = 1..n /\ \A i \in 1..n : t[i] = IF i = n THEN g ELSE s[i]
      BY <1>1
    <2>2. t[n] = g
      BY <1>1, <2>1
    <2>3. Len(t) = n
      <3> HIDE DEF t
      <3> QED BY <1>1, <2>1
    <2> QED BY <1>3, <2>1, <2>2, <2>3
  <1> HIDE DEF t
  <1>6. ASSUME NEW i \in DOMAIN t PROVE VisitOK(t[i], IF i < Len(t) THEN {t[i + 1].node} ELSE {})
    <2> HIDE DEF n
    <2>1. CASE i = n
      <3>1. ~ (i < Len(t)) /\ t[i] = g
        BY <1>1, <1>5, <2>1
      <3> QED BY <1>3, <3>1
    <2>2. CASE i # n
      <3>1. i \in 1..n /\ i < n /\ i + 1 \in 1..n
        BY <1>1, <1>5, <2>2
      <3>2. VisitOK(s[i], {s[i + 1].node})
        BY <1>1, <3>1 DEF VisitsOK, n
      <3>3. t[i] = s[i] /\ t[i + 1].node = s[i + 1].node
        BY <1>5, <2>2, <3>1
      <3> QED BY <1>5, <3>1, <3>2, <3>3
    <2> QED BY <2>1, <2>2
  <1>7. VisitsOK(t, {})
    BY <1>6 DEF VisitsOK
  <1> QED BY <1>4, <1>7
-----------------------------------------------------------------------------
(* What the walk has at each step. *)

Base == WalkOK /\ ArgumentsOK /\ VisitsOK(stack, {}) /\ ProgramOK

Going == {"called", "compiling", "compiled"}

LEMMA RefusalsEnd ==
  /\ CallRefusal \notin Going
  /\ \A x : Refusal(x) \notin Going
  /\ CloseRefusal \notin Going
  <1>1. CallRefusal \notin Going
    BY DEF CallRefusal, Going
  <1>2. CloseRefusal \notin Going
    BY DEF CloseRefusal, Going
  <1>3. \A b : BindingRefusal(b) \notin Going
    BY DEF BindingRefusal, Going
  <1>4. \A x : ReferenceRefusal(x) \notin Going
    BY <1>3 DEF ReferenceRefusal, Going
  <1>5. \A x : Refusal(x) \notin Going
    BY <1>4 DEF Refusal, Going
  <1> QED BY <1>1, <1>2, <1>5

\* A need that is not refused has one producer.
LEMMA OneProducer ==
  ASSUME WellDefined(definition), NEW x, ~ IsAvailable(x), x.kind = "need",
         NodesFor(x) # {}, ~ (Cardinality(NodesFor(x)) > 1)
  PROVE  \E n \in NodesFor(x) : NodesFor(x) = {n}
  <1>1. NodesFor(x) \subseteq AllNodes
    BY ProducersAreNodes DEF NodesFor
  <1>2. IsFiniteSet(NodesFor(x))
    BY <1>1, NodesFinite, FS_Subset
  <1>3. Cardinality(NodesFor(x)) \in Nat /\ Cardinality(NodesFor(x)) # 0
    BY <1>2, FS_CardinalityType, FS_EmptySet
  <1>4. Cardinality(NodesFor(x)) = 1
    BY <1>3
  <1> QED BY <1>2, <1>4, FS_Singleton

LEMMA NotRefused ==
  ASSUME WellDefined(definition), NEW x, x.kind \in ItemKinds, ReferenceRefusal(x) = "none"
  PROVE  /\ Fine(Top.node, x)
         /\ \A p \in DOMAIN given.snapshots :
              Retrieve(p) \in NodesFor(x) \ Done => given.snapshots[p].matches \/ x.kind = "binding"
  <1> DEFINE T == Top.node
  <1>1. CASE x.kind = "binding"
    BY <1>1 DEF Fine, ReferenceRefusal
  <1>2. CASE x.kind = "need"
    <2>1. ~ (~ IsAvailable(x) /\ NodesFor(x) = {})
      BY <1>2 DEF ReferenceRefusal
    <2>2. ~ (Cardinality(NodesFor(x)) > 1)
      BY <1>2, <2>1 DEF ReferenceRefusal
    <2>3. Fine(T, x)
      <3>1. IsAvailable(x) \/ \E n \in NodesFor(x) : NodesFor(x) = {n}
        BY <1>2, <2>1, <2>2, OneProducer
      <3> QED BY <1>2, <3>1 DEF Fine
    <2>4. \A p \in DOMAIN given.snapshots : Retrieve(p) \in NodesFor(x) \ Done => given.snapshots[p].matches
      BY <1>2, <2>1, <2>2 DEF ReferenceRefusal
    <2> QED BY <2>3, <2>4
  <1>3. CASE x.kind \in {"judgment", "tool", "candidates"}
    <2>1. Fine(T, x)
      BY <1>3 DEF Fine, ReferenceRefusal
    <2>2. \A p \in DOMAIN given.snapshots : Retrieve(p) \in NodesFor(x) \ Done => given.snapshots[p].matches
      BY <1>3 DEF ReferenceRefusal
    <2> QED BY <2>1, <2>2
  <1> QED BY <1>1, <1>2, <1>3 DEF ItemKinds

\* A reference leads to one node at most, and a binding to none but a derivation.
LEMMA OneNode ==
  ASSUME NEW id, NEW x, x.kind \in ItemKinds, Fine(id, x), NEW d \in NodesFor(x)
  PROVE  x.kind # "binding" /\ NodesFor(x) = {d} /\ ItemLinks(id, x) = {d} /\ RefsOf(id, x) = {}
  <1>1. x.kind # "binding"
    BY DEF NodesFor
  <1>2. NodesFor(x) = {d}
    <2>1. CASE x.kind = "need"
      <3>1. ~ IsAvailable(x)
        BY <2>1 DEF NodesFor
      <3> QED BY <2>1, <3>1 DEF Fine
    <2>2. CASE x.kind # "need"
      BY <1>1, <2>2 DEF NodesFor, ItemKinds
    <2> QED BY <2>1, <2>2
  <1> QED BY <1>1, <1>2 DEF ItemLinks, RefsOf

\* What the completion needs includes all that what it needs links to.
LEMMA NeededClosed ==
  ASSUME ArgumentsOK
  PROVE  /\ Complete \in Needed
         /\ \A id \in Needed : Exists(id) => Links(id) \subseteq Needed
         /\ \A C : Complete \in C /\ LinksOf(C) \subseteq C => Needed \subseteq C
  <1>1. {Complete} \in SUBSET AllNodes
    BY DEF AllNodes
  <1>2. WellDefined(definition) /\ given.revision \in Seq(Tools)
    BY DEF ArgumentsOK
  <1>3. /\ {Complete} \subseteq Needed /\ LinksOf(Needed) \subseteq Needed
        /\ \A C : {Complete} \subseteq C /\ LinksOf(C) \subseteq C => Needed \subseteq C
    BY <1>1, <1>2, Reached DEF Needed
  <1>4. \A id \in Needed : Exists(id) => Links(id) \subseteq Needed
    BY <1>3, FollowOne
  <1> QED BY <1>3, <1>4

\* The innermost visit.
LEMMA OnTop ==
  ASSUME Base, outcome = "compiling"
  PROVE  /\ IsFrame(Top) /\ Top.depends \in Seq(Image(Top.depends)) /\ Image(Top.depends) \subseteq Done
         /\ VisitOK(Top, {}) /\ VisitsOK(Below, {Top.node})
         /\ Below \in Seq(Image(Below))
         /\ \A f \in Image(Below) : IsFrame(f) /\ f.depends \in Seq(Image(f.depends))
         /\ Open = {f.node : f \in Image(Below)} \cup {Top.node}
         /\ Top.node \in AllNodes /\ Exists(Top.node) /\ AgendaLeads(Top.node)
         /\ Links(Top.node) \subseteq AllNodes /\ Links(Top.node) \subseteq Needed
  <1>1. stack \in Seq(Image(stack)) /\ stack # <<>>
    BY DEF Base, WalkOK, WellStacked
  <1>2. VisitOK(Top, {}) /\ VisitsOK(Below, {Top.node})
    BY <1>1, VisitsSplit DEF Base
  <1>3. IsFrame(Top) /\ Top.depends \in Seq(Done) /\ WellStacked(Below, Done)
    BY TopAndBelow DEF Base
  <1>4. Top.depends \in Seq(Image(Top.depends)) /\ Image(Top.depends) \subseteq Done
    BY <1>3, Elements
  <1>5. /\ Below \in Seq(Image(Below))
        /\ \A f \in Image(Below) : IsFrame(f) /\ f.depends \in Seq(Image(f.depends))
    BY <1>3, Elements DEF WellStacked
  <1>6. Image(stack) = Image(Below) \cup {Top}
    <2>1. /\ Len(stack) \in Nat /\ Len(stack) >= 1 /\ DOMAIN stack = 1..Len(stack)
          /\ Below \in Seq(Image(stack)) /\ Len(Below) = Len(stack) - 1 /\ DOMAIN Below = 1..Len(Below)
          /\ \A i \in 1..(Len(stack) - 1) : Below[i] = stack[i]
      BY <1>1, Parts DEF Below
    <2> DEFINE n == Len(stack)
    <2>2. DOMAIN stack = DOMAIN Below \cup {n} /\ \A i \in DOMAIN Below : Below[i] = stack[i]
      BY <2>1
    <2>3. Top = stack[n]
      BY DEF Top
    <2> HIDE DEF n
    <2> QED BY <2>2, <2>3 DEF Image
  <1>7. Open = {f.node : f \in Image(Below)} \cup {Top.node}
    BY <1>6 DEF Open
  <1>8. Top.node \in AllNodes /\ Exists(Top.node)
    BY <1>2 DEF VisitOK
  <1>9. AgendaLeads(Top.node) /\ Links(Top.node) \subseteq AllNodes
    BY <1>8, EveryNodeLeads, LinksInside DEF Base, ArgumentsOK
  <1>10. Links(Top.node) \subseteq Needed
    BY <1>7, <1>8, NeededClosed DEF Base, ProgramOK
  <1> QED BY <1>2, <1>3, <1>4, <1>5, <1>7, <1>8, <1>9, <1>10

\* The reference that is resolved.
LEMMA OnReference ==
  ASSUME Base, outcome = "compiling", Top.agenda # <<>>
  PROVE  /\ Reference \in Wanted(Top.node) /\ Reference.kind \in ItemKinds
         /\ ItemLinks(Top.node, Reference) \subseteq Links(Top.node)
         /\ RefsOf(Top.node, Reference) \subseteq Wanted(Top.node)
         /\ Reference.kind = "binding" =>
              /\ Top.node[1] = "invoke" /\ Reference.ref \in DOMAIN Tool(Top.node[2]).bindings
              /\ RefsOf(Top.node, Reference) =
                   Image(ReferencesOf(Tool(Top.node[2]).bindings[Reference.ref]))
         /\ Refusal(Reference) = "none" =>
              /\ Fine(Top.node, Reference) /\ NodesFor(Reference) \cap Open = {}
              /\ \A d \in NodesFor(Reference) :
                   /\ NodesFor(Reference) = {d} /\ ItemLinks(Top.node, Reference) = {d}
                   /\ RefsOf(Top.node, Reference) = {} /\ d \in Links(Top.node)
  <1>1. VisitOK(Top, {}) /\ AgendaLeads(Top.node)
    BY OnTop
  <1>2. IsAgenda(Top.agenda) /\ Image(Top.agenda) \subseteq Wanted(Top.node)
    BY <1>1 DEF VisitOK
  <1>3. Reference \in Image(Top.agenda)
    BY <1>2, ImageOfHead DEF Reference, IsAgenda
  <1>4. Reference \in Wanted(Top.node) /\ Reference.kind \in ItemKinds
    BY <1>2, <1>3 DEF IsAgenda
  <1>5. ItemLinks(Top.node, Reference) \subseteq Links(Top.node)
    BY <1>1, <1>4 DEF AgendaLeads
  <1>6. RefsOf(Top.node, Reference) \subseteq Wanted(Top.node)
    BY <1>4, RefsWanted
  <1>7. ASSUME Refusal(Reference) = "none"
        PROVE  /\ Fine(Top.node, Reference) /\ NodesFor(Reference) \cap Open = {}
               /\ \A d \in NodesFor(Reference) :
                    /\ NodesFor(Reference) = {d} /\ ItemLinks(Top.node, Reference) = {d}
                    /\ RefsOf(Top.node, Reference) = {} /\ d \in Links(Top.node)
    <2>1. ReferenceRefusal(Reference) = "none" /\ NodesFor(Reference) \cap Open = {}
      BY <1>7 DEF Refusal
    <2>2. Fine(Top.node, Reference)
      BY <1>4, <2>1, NotRefused DEF Base, ArgumentsOK
    <2>3. ASSUME NEW d \in NodesFor(Reference)
          PROVE  /\ NodesFor(Reference) = {d} /\ ItemLinks(Top.node, Reference) = {d}
                 /\ RefsOf(Top.node, Reference) = {} /\ d \in Links(Top.node)
      <3>1. /\ NodesFor(Reference) = {d} /\ ItemLinks(Top.node, Reference) = {d}
            /\ RefsOf(Top.node, Reference) = {}
        BY <1>4, <2>2, OneNode
      <3> QED BY <3>1, <1>5
    <2> QED BY <2>1, <2>2, <2>3
  <1>8. ASSUME Reference.kind = "binding"
        PROVE  /\ Top.node[1] = "invoke" /\ Reference.ref \in DOMAIN Tool(Top.node[2]).bindings
               /\ RefsOf(Top.node, Reference) =
                    Image(ReferencesOf(Tool(Top.node[2]).bindings[Reference.ref]))
    BY <1>1, <1>4, <1>8 DEF AgendaLeads, RefsOf
  <1> QED BY <1>4, <1>5, <1>6, <1>7, <1>8
NodesOf(s) == {f.node : f \in Image(s)}

LEMMA NodesOfPushed ==
  ASSUME NEW s, s \in Seq(Image(s)), NEW f
  PROVE  NodesOf(Append(s, f)) = NodesOf(s) \cup {f.node}
  <1>1. Image(Append(s, f)) = Image(s) \cup {f}
    BY Appended
  <1> QED BY <1>1 DEF NodesOf

\* The innermost visit goes on.
LEMMA VisitContinued ==
  ASSUME Base, outcome = "compiling", Top.agenda # <<>>, Refusal(Reference) = "none",
         NEW items, IsAgenda(items), Image(items) = RefsOf(Top.node, Reference),
         NEW depends, depends \in Seq(Image(depends)), NEW called,
         Image(depends) \cup called = ItemLinks(Top.node, Reference)
  PROVE  /\ VisitsOK(Continue(items, depends), called)
         /\ Continue(items, depends) \in Seq(Image(Continue(items, depends)))
         /\ NodesOf(Continue(items, depends)) = Open
  <1> DEFINE g == [node |-> Top.node, agenda |-> items \o Tail(Top.agenda),
                   depends |-> Top.depends \o depends]
  <1>1. VisitOK(g, called)
    <2>1. Fine(Top.node, Reference)
      BY OnReference
    <2> QED BY <2>1, OnTop, VisitGoesOn DEF Reference
  <1>2. g.node = Top.node /\ Continue(items, depends) = Append(Below, g)
    BY DEF Continue
  <1> HIDE DEF g
  <1>3. VisitsOK(Append(Below, g), called)
    BY <1>1, <1>2, OnTop, VisitsPushed
  <1>4. NodesOf(Append(Below, g)) = NodesOf(Below) \cup {g.node}
    BY OnTop, NodesOfPushed
  <1>5. NodesOf(Append(Below, g)) = Open
    BY <1>2, <1>4, OnTop DEF NodesOf
  <1>6. Append(Below, g) \in Seq(Image(Append(Below, g)))
    BY OnTop, Appended
  <1> QED BY <1>2, <1>3, <1>5, <1>6

\* The innermost visit calls for a node that is visited in its turn.
LEMMA VisitCalls ==
  ASSUME Base, outcome = "compiling", Top.agenda # <<>>, Refusal(Reference) = "none",
         NEW d, Exists(d),
         RefsOf(Top.node, Reference) = {}, ItemLinks(Top.node, Reference) = {d}
  PROVE  LET s == Append(Continue(<<>>, <<>>), Frame(d, AgendaOf(d)))
         IN  /\ VisitsOK(s, {}) /\ NodesOf(s) = Open \cup {d} /\ d \in Needed
  <1> DEFINE c == Continue(<<>>, <<>>)
             f == Frame(d, AgendaOf(d))
  <1>1. d \in Links(Top.node)
    BY OnReference
  <1>2. d \in AllNodes /\ d \in Needed
    BY <1>1, OnTop
  <1>3. <<>> \in Seq(Image(<<>>)) /\ Image(<<>>) = {} /\ IsAgenda(<<>>)
    BY NoItem, EmptySeq
  <1>4. VisitsOK(c, {d}) /\ c \in Seq(Image(c)) /\ NodesOf(c) = Open
    BY <1>3, VisitContinued
  <1>5. VisitOK(f, {}) /\ f.node = d
    <2>1. AgendaLeads(d)
      BY <1>2, EveryNodeLeads DEF Base, ArgumentsOK
    <2>2. f.node = d
      BY DEF Frame
    <2> QED BY <1>2, <2>1, <2>2, VisitBegins
  <1> HIDE DEF c, f
  <1>6. VisitsOK(Append(c, f), {})
    BY <1>4, <1>5, VisitsPushed
  <1>7. NodesOf(Append(c, f)) = Open \cup {d}
    BY <1>4, <1>5, NodesOfPushed
  <1> QED BY <1>2, <1>6, <1>7 DEF c, f

\* The innermost visit ends, and the one below goes on.
LEMMA VisitReturned ==
  ASSUME Base, outcome = "compiling"
  PROVE  VisitsOK(Return(Top.node), {}) /\ NodesOf(Return(Top.node)) \subseteq Open
  <1>1. CASE Below = <<>>
    <2>1. Return(Top.node) = <<>>
      BY <1>1 DEF Return
    <2>2. Image(<<>>) = {} /\ DOMAIN <<>> = {}
      BY NoItem
    <2> QED BY <2>1, <2>2 DEF VisitsOK, NodesOf
  <1>2. CASE Below # <<>>
    <2> DEFINE n == Len(Below)
               t == [Below EXCEPT ![n].depends = Append(@, Top.node)]
    <2>1. Return(Top.node) = t
      BY <1>2, Zenon DEF Return
    <2>2. VisitsOK(t, {})
      BY <1>2, OnTop, VisitsReturned
    <2>3. n \in DOMAIN Below /\ IsFrame(Below[n])
      <3>1. Below \in Seq(Image(Below))
        BY OnTop
      <3>2. n \in Nat /\ n >= 1 /\ Below[n] \in Image(Below) /\ DOMAIN Below = 1..n
        BY <1>2, <3>1, Parts
      <3>3. IsFrame(Below[n])
        BY <3>2, OnTop
      <3> QED BY <3>2, <3>3
    <2>4. \A i \in DOMAIN Below : t[i].node = Below[i].node
      <3> DEFINE g == [Below[n] EXCEPT !.depends = Append(@, Top.node)]
      <3>1. g.node = Below[n].node
        BY <2>3, Changed
      <3>2. t = [Below EXCEPT ![n] = g]
        OBVIOUS
      <3> HIDE DEF g, n, t
      <3> QED BY <2>3, <3>1, <3>2
    <2>5. DOMAIN t = DOMAIN Below
      OBVIOUS
    <2> HIDE DEF t
    <2>6. NodesOf(t) \subseteq NodesOf(Below)
      BY <2>4, <2>5 DEF NodesOf, Image
    <2> QED BY <2>1, <2>2, <2>6, OnTop DEF NodesOf
  <1> QED BY <1>1, <1>2

\* A step of one compilation keeps what was known, and has this much to show.
LEMMA BaseKept ==
  ASSUME Base, WalkOK', definition' = definition, given' = given,
         VisitsOK(stack', {}), NodesOf(stack') \subseteq Needed,
         \A n \in Image(nodes') : n \in Image(nodes) \/ (NodeOK(n) /\ n.id \in Needed),
         outcome' \in {"compiling", "compiled"} => CallRefusal = "none",
         outcome' = "called" => nodes' = <<>> /\ stack' = <<>>,
         outcome' = "compiled" => \E n \in Image(nodes') : n.id = Complete
  PROVE  Base'
  <1>1. CallRefusal' = CallRefusal
    BY DEF CallRefusal, Image
  <1>2. ArgumentsOK'
    BY <1>1 DEF Base, ArgumentsOK, WellDefined, FieldsTyped, JudgmentsDefined, ToolsDefined
  <1>3. VisitsOK(stack, {})'
    <2>1. \A f, called : VisitOK(f, called)' <=> VisitOK(f, called)
      BY SameArguments
    <2> QED BY <2>1 DEF VisitsOK
  <1>4. \A n : NodeOK(n)' <=> NodeOK(n)
    <2>1. \A id : GroupsSafe(id)' <=> GroupsSafe(id)
      BY DEF GroupsSafe, GroupUnsafe, Tool
    <2> QED BY <2>1, SameArguments DEF NodeOK
  <1>5. Needed' = Needed
    BY SameArguments DEF Needed, Complete, Node
  <1>6. Image(nodes)' = Image(nodes') /\ Image(stack)' = Image(stack')
    BY DEF Image
  <1>7. \A n \in Image(nodes)' : NodeOK(n)'
    BY <1>4, <1>6 DEF Base, ProgramOK
  <1>8. Done' = {n.id : n \in Image(nodes')} /\ Open' = NodesOf(stack')
    BY <1>6 DEF Done, Open, NodesOf
  <1>9. Done' \subseteq Needed
    BY <1>8 DEF Base, ProgramOK, Done
  <1>10. outcome' = "compiled" => Complete \in Done'
    BY <1>8
  <1>11. ProgramOK'
    BY <1>5, <1>7, <1>8, <1>9, <1>10 DEF ProgramOK, Complete, Node
  <1> QED BY <1>2, <1>3, <1>11 DEF Base
LEMMA BaseStarts == Init => Base
  <1> SUFFICES ASSUME Init PROVE Base
    OBVIOUS
  <1>1. /\ definition \in Definitions /\ WellDefined(definition) /\ given \in Requests
        /\ stack = <<>> /\ nodes = <<>> /\ outcome = "called"
    BY DEF Init, Start
  <1>2. ArgumentsOK
    BY <1>1, RequestsAssumption DEF ArgumentsOK
  <1>3. Image(<<>>) = {} /\ DOMAIN <<>> = {}
    BY NoItem
  <1>4. VisitsOK(stack, {})
    BY <1>1, <1>3 DEF VisitsOK
  <1>5. Done \cup Open = {}
    BY <1>1, <1>3 DEF Done, Open
  <1>6. ProgramOK
    BY <1>1, <1>3, <1>5 DEF ProgramOK
  <1> QED BY <1>2, <1>4, <1>6, WalkStarts DEF Base

LEMMA CallKeepsBase ==
  ASSUME Base, WalkOK', Call PROVE Base'
  <1> USE DEF Going
  <1>1. /\ outcome = "called" /\ nodes' = nodes /\ definition' = definition /\ given' = given
        /\ outcome' = IF CallRefusal = "none" THEN "compiling" ELSE CallRefusal
        /\ stack' = IF CallRefusal = "none" THEN <<Frame(Complete, CompletionAgenda)>> ELSE <<>>
    BY DEF Call
  <1>2. \A n \in Image(nodes') : n \in Image(nodes)
    BY <1>1
  <1>3. ASSUME CallRefusal = "none"
        PROVE  VisitsOK(stack', {}) /\ NodesOf(stack') \subseteq Needed
    <2> DEFINE f == Frame(Complete, AgendaOf(Complete))
    <2>1. stack' = <<f>> /\ f.node = Complete
      BY <1>1, <1>3, NodeParts DEF AgendaOf, Frame
    <2>2. Complete \in AllNodes /\ Exists(Complete) /\ Complete \in Needed
      BY NodeParts, NeededClosed DEF AllNodes, Exists, Base
    <2>3. VisitOK(f, {})
      BY <2>2, EveryNodeLeads, VisitBegins DEF Base, ArgumentsOK
    <2> HIDE DEF f
    <2>4. Image(<<f>>) = {f} /\ DOMAIN <<f>> = {1} /\ Len(<<f>>) = 1
      BY DEF Image
    <2> QED BY <2>1, <2>2, <2>3, <2>4 DEF VisitsOK, NodesOf
  <1>4. ASSUME CallRefusal # "none"
        PROVE  VisitsOK(stack', {}) /\ NodesOf(stack') \subseteq Needed /\ outcome' \notin Going
    <2>1. stack' = <<>> /\ Image(<<>>) = {} /\ DOMAIN <<>> = {}
      BY <1>1, <1>4, NoItem
    <2>2. outcome' \notin Going
      BY <1>1, <1>4, RefusalsEnd
    <2> QED BY <2>1, <2>2 DEF VisitsOK, NodesOf
  <1>5. VisitsOK(stack', {}) /\ NodesOf(stack') \subseteq Needed
    BY <1>3, <1>4
  <1>6. /\ outcome' \in {"compiling", "compiled"} => CallRefusal = "none"
        /\ outcome' # "called" /\ outcome' # "compiled"
    BY <1>1, <1>4
  <1> QED BY <1>1, <1>2, <1>5, <1>6, BaseKept

LEMMA RefusingKeepsBase ==
  ASSUME Base, WalkOK', Refuse \/ RefuseClose PROVE Base'
  <1>1. /\ outcome = "compiling" /\ nodes' = nodes /\ definition' = definition /\ given' = given
        /\ stack' = stack
    BY DEF Refuse, RefuseClose
  <1>2. outcome' \notin Going
    BY RefusalsEnd DEF Refuse, RefuseClose
  <1>3. NodesOf(stack') = Open
    BY <1>1 DEF NodesOf, Open
  <1>4. VisitsOK(stack', {}) /\ NodesOf(stack') \subseteq Needed
    BY <1>1, <1>3 DEF Base, ProgramOK
  <1> QED BY <1>1, <1>2, <1>4, BaseKept DEF Going

\* A node without links that a reference of the innermost visit asks for.
LEMMA ProviderNodeOK ==
  ASSUME WellDefined(definition), NEW p \in DOMAIN definition.providers, NEW unresolved
  PROVE  NodeOK([id |-> Retrieve(p), depends |-> {}, unresolved |-> unresolved])
  <1> DEFINE id == Retrieve(p)
             n == [id |-> id, depends |-> {}, unresolved |-> unresolved]
  <1>1. id \in AllNodes
    BY DEF WellDefined, FieldsTyped, AllNodes
  <1>2. id[1] = "retrieve" /\ id[2] = p
    BY NodeParts
  <1>3. n.id = id /\ n.depends = {}
    OBVIOUS
  <1> HIDE DEF id, n
  <1>4. Exists(id) /\ Links(id) = {} /\ AgendaOf(id) = <<>> /\ GroupsSafe(id)
    BY <1>2 DEF Exists, Registered, Links, AgendaOf, GroupsSafe
  <1>5. Wanted(id) = {}
    BY <1>4, NoItem DEF Wanted, Expanded
  <1>6. NodeOK(n)
    BY <1>1, <1>3, <1>4, <1>5 DEF NodeOK
  <1> QED BY <1>6 DEF id, n

\* What is on the stack after a reference is resolved.
LEMMA ResolvedVisits ==
  ASSUME Base, SkipAvailable \/ MeetNode \/ VisitProvider \/ OpenVisit \/ Bind
  PROVE  /\ VisitsOK(stack', {})
         /\ NodesOf(stack') = Open \/ \E d \in Needed : NodesOf(stack') = Open \cup {d}
  <1>1. outcome = "compiling" /\ Top.agenda # <<>> /\ Refusal(Reference) = "none"
    BY DEF SkipAvailable, MeetNode, VisitProvider, OpenVisit, Bind, Resolving
  <1>2. <<>> \in Seq(Image(<<>>)) /\ Image(<<>>) = {} /\ IsAgenda(<<>>)
    BY NoItem, EmptySeq
  <1>3. ASSUME NEW d \in NodesFor(Reference)
        PROVE  /\ VisitsOK(Continue(<<>>, <<d>>), {}) /\ NodesOf(Continue(<<>>, <<d>>)) = Open
               /\ Exists(d) => LET s == Append(Continue(<<>>, <<>>), Frame(d, AgendaOf(d)))
                               IN  VisitsOK(s, {}) /\ NodesOf(s) = Open \cup {d} /\ d \in Needed
    <2>1. RefsOf(Top.node, Reference) = {} /\ ItemLinks(Top.node, Reference) = {d}
      BY <1>1, OnReference
    <2>2. <<d>> \in Seq(Image(<<d>>)) /\ Image(<<d>>) = {d}
      BY DEF Image
    <2>3. Image(<<d>>) \cup {} = ItemLinks(Top.node, Reference) /\ Image(<<>>) = RefsOf(Top.node, Reference)
      BY <1>2, <2>1, <2>2
    <2>4. VisitsOK(Continue(<<>>, <<d>>), {}) /\ NodesOf(Continue(<<>>, <<d>>)) = Open
      BY <1>1, <1>2, <2>2, <2>3, VisitContinued
    <2> QED BY <1>1, <2>1, <2>4, VisitCalls
  <1>4. CASE SkipAvailable
    <2>1. Reference.kind = "need" /\ IsAvailable(Reference) /\ stack' = Continue(<<>>, <<>>)
      BY <1>4 DEF SkipAvailable, IsAvailable
    <2>2. RefsOf(Top.node, Reference) = {} /\ ItemLinks(Top.node, Reference) = {}
      BY <2>1 DEF RefsOf, ItemLinks, NodesFor
    <2>3. Image(<<>>) \cup {} = ItemLinks(Top.node, Reference) /\ Image(<<>>) = RefsOf(Top.node, Reference)
      BY <1>2, <2>2
    <2> QED BY <1>1, <1>2, <2>1, <2>3, VisitContinued
  <1>5. CASE MeetNode
    <2>1. PICK d \in NodesFor(Reference) : stack' = Continue(<<>>, <<d>>)
      BY <1>5 DEF MeetNode
    <2> QED BY <2>1, <1>3
  <1>6. CASE VisitProvider
    <2>1. PICK p : Retrieve(p) \in NodesFor(Reference) /\ stack' = Continue(<<>>, <<Retrieve(p)>>)
      BY <1>6 DEF VisitProvider
    <2> QED BY <2>1, <1>3
  <1>7. CASE OpenVisit
    <2>1. PICK d \in NodesFor(Reference) :
            Exists(d) /\ stack' = Append(Continue(<<>>, <<>>), Frame(d, AgendaOf(d)))
      <3>1. ASSUME NEW j \in DOMAIN definition.judgments
            PROVE  Exists(Judge(j)) /\ AgendaOf(Judge(j)) = JudgmentAgenda(j)
        <4>1. Judge(j)[1] = "judge" /\ Judge(j)[2] = j
          BY NodeParts
        <4>2. Exists(Judge(j))
          BY <4>1 DEF Exists
        <4> QED BY <4>1, <4>2 DEF AgendaOf
      <3>2. ASSUME NEW t \in DOMAIN definition.tools
            PROVE  Exists(Invoke(t)) /\ AgendaOf(Invoke(t)) = ToolAgenda(t)
        <4>1. Invoke(t)[1] = "invoke" /\ Invoke(t)[2] = t
          BY NodeParts
        <4>2. Exists(Invoke(t))
          BY <4>1 DEF Exists
        <4> QED BY <4>1, <4>2 DEF AgendaOf
      <3> QED BY <1>7, <3>1, <3>2 DEF OpenVisit
    <2> QED BY <2>1, <1>3
  <1>8. CASE Bind
    <2> DEFINE t == Top.node[2]
               i == Reference.ref
               b == Tool(t).bindings[i]
    <2>1. /\ Reference.kind = "binding" /\ Top.node[1] = "invoke"
          /\ RefsOf(Top.node, Reference) = Image(ReferencesOf(b))
          /\ ItemLinks(Top.node, Reference) = IF b.kind = "derivation" THEN {Derive(t, i)} ELSE {}
      BY <1>1, <1>8, OnReference DEF Bind, ItemLinks
    <2>2. CASE b.kind = "derivation"
      <3> DEFINE d == Derive(t, i)
      <3>1. stack' = Append(Continue(<<>>, <<>>), Frame(d, AgendaOf(d)))
        <4>1. AgendaOf(d) = Items("need", b.inputs) \o <<Item("tool", b.ref)>>
          <5>1. d[1] = "derive" /\ d[2] = t /\ d[3] = i
            BY NodeParts
          <5> HIDE DEF d, t, i
          <5>2. AgendaOf(d) = Items("need", Tool(d[2]).bindings[d[3]].inputs)
                                \o <<Item("tool", Tool(d[2]).bindings[d[3]].ref)>>
            BY <5>1 DEF AgendaOf
          <5> QED BY <5>1, <5>2
        <4>2. stack' = Append(Continue(<<>>, <<>>),
                              Frame(d, Items("need", b.inputs) \o <<Item("tool", b.ref)>>))
          BY <1>8, <2>2, Zenon DEF Bind
        <4> QED BY <4>1, <4>2
      <3>2. Exists(d)
        <4>1. Exists(Top.node)
          BY <1>1, OnTop
        <4> QED BY <4>1, <2>1, NodeParts DEF Exists
      <3>3. RefsOf(Top.node, Reference) = {} /\ ItemLinks(Top.node, Reference) = {d}
        BY <2>1, <2>2, <1>2 DEF ReferencesOf
      <3> HIDE DEF d
      <3>4. /\ VisitsOK(Append(Continue(<<>>, <<>>), Frame(d, AgendaOf(d))), {})
            /\ NodesOf(Append(Continue(<<>>, <<>>), Frame(d, AgendaOf(d)))) = Open \cup {d}
            /\ d \in Needed
        BY <1>1, <3>2, <3>3, VisitCalls
      <3> HIDE DEF b, i, t
      <3> QED BY <3>1, <3>4
    <2>3. CASE b.kind # "derivation"
      <3>1. stack' = Continue(ReferencesOf(b), <<>>)
        BY <1>8, <2>3, Zenon DEF Bind
      <3> DEFINE items == ReferencesOf(b)
      <3>2. IsAgenda(items) /\ Image(items) = RefsOf(Top.node, Reference)
            /\ Image(<<>>) \cup {} = ItemLinks(Top.node, Reference)
        BY <1>2, <2>1, <2>3, BindingRefs
      <3> HIDE DEF items
      <3>3. VisitsOK(Continue(items, <<>>), {}) /\ NodesOf(Continue(items, <<>>)) = Open
        BY <1>1, <1>2, <3>2, VisitContinued
      <3> QED BY <3>1, <3>3 DEF items
    <2> HIDE DEF b, i, t
    <2> QED BY <2>2, <2>3, Zenon
  <1> QED BY <1>4, <1>5, <1>6, <1>7, <1>8
LEMMA ResolvingKeepsBase ==
  ASSUME Base, WalkOK', SkipAvailable \/ MeetNode \/ VisitProvider \/ OpenVisit \/ Bind
  PROVE  Base'
  <1>1. /\ outcome = "compiling" /\ outcome' = outcome /\ definition' = definition /\ given' = given
        /\ Top.agenda # <<>> /\ Refusal(Reference) = "none"
    BY DEF SkipAvailable, MeetNode, VisitProvider, OpenVisit, Bind, Resolving
  <1>2. VisitsOK(stack', {}) /\ NodesOf(stack') \subseteq Needed
    BY ResolvedVisits DEF Base, ProgramOK
  <1>3. ASSUME NEW n \in Image(nodes') PROVE n \in Image(nodes) \/ (NodeOK(n) /\ n.id \in Needed)
    <2>1. CASE VisitProvider
      <3>1. PICK p \in DOMAIN definition.providers :
              /\ Retrieve(p) \in NodesFor(Reference)
              /\ nodes' = Append(nodes, [id |-> Retrieve(p), depends |-> {}, unresolved |-> ~ Supplied(p)])
        BY <2>1 DEF VisitProvider, Inserted
      <3> DEFINE new == [id |-> Retrieve(p), depends |-> {}, unresolved |-> ~ Supplied(p)]
      <3>2. NodeOK(new) /\ new.id = Retrieve(p)
        BY ProviderNodeOK DEF Base, ArgumentsOK
      <3>3. new.id \in Needed
        BY <1>1, <3>1, <3>2, OnReference, OnTop
      <3> HIDE DEF new
      <3>4. Image(nodes') = Image(nodes) \cup {new}
        <4>1. nodes' = Append(nodes, new)
          BY <3>1 DEF new
        <4> QED BY <4>1, Appended DEF Base, WalkOK
      <3> QED BY <3>2, <3>3, <3>4
    <2>2. CASE ~ VisitProvider
      <3>1. nodes' = nodes
        BY <2>2 DEF SkipAvailable, MeetNode, OpenVisit, Bind
      <3> QED BY <3>1
    <2> QED BY <2>1, <2>2
  <1>4. CallRefusal = "none"
    BY <1>1 DEF Base, ArgumentsOK
  <1> QED BY <1>1, <1>2, <1>3, <1>4, BaseKept

\* The node that is put into the program when its visit ends.
LEMMA ClosedNode ==
  ASSUME Base, CloseVisit
  PROVE  LET n == [id |-> Top.node, depends |-> Image(Top.depends), unresolved |-> NodeUnresolved]
         IN  /\ nodes' = Append(nodes, n) /\ Image(nodes') = Image(nodes) \cup {n}
             /\ NodeOK(n) /\ n.id \in Needed
             /\ n.id = Top.node /\ n.depends = Image(Top.depends) /\ n.unresolved = NodeUnresolved
  <1> DEFINE n == [id |-> Top.node, depends |-> Image(Top.depends), unresolved |-> NodeUnresolved]
  <1>1. /\ outcome = "compiling" /\ Top.agenda = <<>> /\ CloseRefusal = "none" /\ nodes' = Append(nodes, n)
    BY DEF CloseVisit, Inserted
  <1>2. n.id = Top.node /\ n.depends = Image(Top.depends) /\ n.unresolved = NodeUnresolved
    OBVIOUS
  <1> HIDE DEF n
  <1>3. Image(nodes') = Image(nodes) \cup {n}
    BY <1>1, Appended DEF Base, WalkOK
  <1>4. /\ VisitOK(Top, {}) /\ AgendaLeads(Top.node) /\ Top.node \in AllNodes /\ Exists(Top.node)
        /\ Top.node \in Needed
    BY <1>1, OnTop DEF Base, ProgramOK
  <1>5. Image(Top.depends) = Links(Top.node) /\ \A x \in Wanted(Top.node) : Fine(Top.node, x)
    BY <1>1, <1>4, VisitEnds
  <1>6. GroupsSafe(Top.node)
    BY <1>1 DEF GroupsSafe, CloseRefusal
  <1>7. NodeOK(n)
    BY <1>2, <1>4, <1>5, <1>6 DEF NodeOK
  <1> QED BY <1>1, <1>2, <1>3, <1>4, <1>7 DEF n

LEMMA ClosingKeepsBase ==
  ASSUME Base, WalkOK', CloseVisit PROVE Base'
  <1>1. /\ outcome = "compiling" /\ definition' = definition /\ given' = given
        /\ stack' = Return(Top.node)
        /\ outcome' = IF Top.node = Complete THEN "compiled" ELSE outcome
    BY DEF CloseVisit
  <1>2. VisitsOK(stack', {}) /\ NodesOf(stack') \subseteq Needed
    BY <1>1, VisitReturned DEF Base, ProgramOK
  <1>3. PICK n : Image(nodes') = Image(nodes) \cup {n} /\ NodeOK(n) /\ n.id \in Needed /\ n.id = Top.node
    BY ClosedNode
  <1>4. outcome' = "compiled" => \E k \in Image(nodes') : k.id = Complete
    BY <1>1, <1>3
  <1>5. CallRefusal = "none"
    BY <1>1 DEF Base, ArgumentsOK
  <1>6. outcome' # "called"
    BY <1>1
  <1> QED BY <1>1, <1>2, <1>3, <1>4, <1>5, <1>6, BaseKept

LEMMA RecompilingKeepsBase ==
  ASSUME Base, WalkOK', Recompile PROVE Base'
  <1>1. /\ stack' = <<>> /\ nodes' = <<>> /\ outcome' = "called" /\ definition' = definition
    BY DEF Recompile
  <1>2. PICK added \in SUBSET Evidence,
             snapshots \in [{p \in Providers : Retrieve(p) \in Done} -> {s \in Snapshots : s.matches}] :
          given' = [given EXCEPT !.available = @ \cup added, !.snapshots = snapshots]
    BY DEF Recompile
  <1>3. given = Request(given.available, given.snapshots, given.supplied, given.routes,
                        given.revision, given.steps)
    BY DEF Base, ArgumentsOK
  <1>4. given' = Request(given.available \cup added, snapshots, given.supplied, given.routes,
                         given.revision, given.steps)
    BY <1>2, <1>3 DEF Request
  <1>5. /\ given' = Request(given'.available, given'.snapshots, given'.supplied, given'.routes,
                            given'.revision, given'.steps)
        /\ given'.snapshots = snapshots /\ given'.revision = given.revision
    BY <1>4 DEF Request
  <1>6. given'.snapshots \in [DOMAIN given'.snapshots -> Snapshots]
    BY <1>5
  <1>7. ArgumentsOK'
    BY <1>1, <1>5, <1>6
       DEF Base, ArgumentsOK, WellDefined, FieldsTyped, JudgmentsDefined, ToolsDefined, Request
  <1>8. Image(<<>>) = {} /\ DOMAIN <<>> = {}
    BY NoItem
  <1>9. VisitsOK(stack, {})'
    BY <1>1, <1>8 DEF VisitsOK
  <1>10. Done' = {} /\ Open' = {} /\ Image(nodes)' = {}
    BY <1>1, <1>8 DEF Done, Open, Image
  <1>11. ProgramOK'
    BY <1>1, <1>10 DEF ProgramOK
  <1> QED BY <1>7, <1>9, <1>11 DEF Base

LEMMA BaseGoesOn == Base /\ [Next]_vars => Base'
  <1> SUFFICES ASSUME Base, [Next]_vars PROVE Base'
    OBVIOUS
  <1>1. WalkOK'
    BY WalkGoesOn DEF Base
  <1>2. ASSUME UNCHANGED vars PROVE Base'
    <2>1. /\ definition' = definition /\ given' = given /\ stack' = stack /\ nodes' = nodes
          /\ outcome' = outcome
      BY <1>2 DEF vars
    <2>2. NodesOf(stack') = Open
      BY <2>1 DEF NodesOf, Open
    <2>3. VisitsOK(stack', {}) /\ NodesOf(stack') \subseteq Needed
      BY <2>1, <2>2 DEF Base, ProgramOK
    <2>4. /\ outcome \in {"compiling", "compiled"} => CallRefusal = "none"
          /\ outcome = "called" => nodes = <<>> /\ stack = <<>>
          /\ outcome = "compiled" => \E n \in Image(nodes) : n.id = Complete
      BY DEF Base, ArgumentsOK, ProgramOK, Done
    <2> QED BY <1>1, <2>1, <2>3, <2>4, BaseKept
  <1> QED BY <1>1, <1>2, CallKeepsBase, RefusingKeepsBase, ResolvingKeepsBase, ClosingKeepsBase,
             RecompilingKeepsBase DEF Next

\* Every compiled program has exactly the nodes the completion contract leads to,
\* and each depends on exactly what its own definition refers to (compile_agent).
THEOREM ProgramsAreWhatIsNeeded == Spec => []ProgramIsWhatIsNeeded
  <1>1. ASSUME Base, outcome = "compiled"
        PROVE  /\ Done = Needed
               /\ \A n \in Image(nodes) : n.depends = Links(n.id)
    <2>1. /\ \A n \in Image(nodes) : n.depends = Links(n.id)
          /\ Done \subseteq Needed /\ Complete \in Done
      BY <1>1 DEF Base, ProgramOK, NodeOK
    <2>2. \A n \in Image(nodes) : n.depends \subseteq Done
      <3>1. ASSUME NEW i \in DOMAIN nodes PROVE nodes[i].depends \subseteq Done
        <4>1. nodes[i].depends \subseteq {nodes[k].id : k \in 1..(i - 1)}
          <5>1. ProgramOrdered
            BY <1>1 DEF Base, WalkOK
          <5> QED BY <5>1 DEF ProgramOrdered
        <4>2. i \in Nat /\ DOMAIN nodes = 1..Len(nodes) /\ Len(nodes) \in Nat
          BY <1>1 DEF Base, WalkOK
        <4>3. 1..(i - 1) \subseteq DOMAIN nodes
          BY <4>2
        <4> QED BY <4>1, <4>3 DEF Done, Image
      <3> QED BY <3>1 DEF Image
    <2>3. LinksOf(Done) \subseteq Done
      BY <2>1, <2>2 DEF LinksOf, Done
    <2>4. Needed \subseteq Done
      <3>1. ArgumentsOK
        BY <1>1 DEF Base
      <3>2. \A C : Complete \in C /\ LinksOf(C) \subseteq C => Needed \subseteq C
        BY <3>1, NeededClosed
      <3> QED BY <2>1, <2>3, <3>2
    <2> QED BY <2>1, <2>4
  <1>2. Base => ProgramIsWhatIsNeeded
    BY <1>1 DEF ProgramIsWhatIsNeeded
  <1> QED BY BaseStarts, BaseGoesOn, <1>2, PTL DEF Spec

\* The open visits are a path: from the node of each, its links lead to the
\* innermost one.
LEMMA OpenLeadToTop ==
  ASSUME Base, outcome = "compiling", NEW i \in DOMAIN stack
  PROVE  LET id == stack[i].node
         IN  /\ Exists(id) /\ id \in Needed
             /\ id = Top.node \/ Top.node \in ReachedFrom(Links(id))
             /\ Links(id) \subseteq ReachedFrom(Links(id))
             /\ LinksOf(ReachedFrom(Links(id))) \subseteq ReachedFrom(Links(id))
  <1> DEFINE id == stack[i].node
             R == ReachedFrom(Links(id))
             n == Len(stack)
  <1>1. n \in Nat /\ DOMAIN stack = 1..n
    BY DEF Base, WalkOK, WellStacked
  <1>2. \A k \in 1..n : stack[k].node \in AllNodes /\ Exists(stack[k].node) /\ stack[k].node \in Needed
    <2>1. \A k \in 1..n : VisitOK(stack[k], IF k < n THEN {stack[k + 1].node} ELSE {})
      BY <1>1 DEF Base, VisitsOK
    <2>2. \A k \in 1..n : stack[k].node \in AllNodes /\ Exists(stack[k].node)
      BY <2>1 DEF VisitOK
    <2>3. \A k \in 1..n : stack[k].node \in Needed
      BY <1>1 DEF Base, ProgramOK, Open, Image
    <2> QED BY <2>2, <2>3
  <1>3. \A k \in 1..n : k < n => stack[k + 1].node \in Links(stack[k].node)
    <2>1. ASSUME NEW k \in 1..n, k < n PROVE stack[k + 1].node \in Links(stack[k].node)
      <3>1. VisitOK(stack[k], {stack[k + 1].node})
        BY <1>1, <2>1 DEF Base, VisitsOK
      <3> QED BY <3>1 DEF VisitOK
    <2> QED BY <2>1
  <1>4. Exists(id) /\ id \in AllNodes /\ id \in Needed /\ i \in 1..n
    BY <1>1, <1>2
  <1>5. Links(id) \subseteq R /\ LinksOf(R) \subseteq R
    <2>1. WellDefined(definition) /\ given.revision \in Seq(Tools)
      BY DEF Base, ArgumentsOK
    <2> HIDE DEF id
    <2>2. Links(id) \in SUBSET AllNodes
      BY <1>4, <2>1, LinksInside
    <2> QED BY <2>1, <2>2, Reached
  <1>6. ASSUME i # n PROVE Top.node \in R
    <2> DEFINE T == {k \in Nat : i + 1 + k <= n => stack[i + 1 + k].node \in R}
    <2> HIDE DEF n, R
    <2>1. 0 \in T
      <3>1. stack[i + 1].node \in Links(id)
        BY <1>1, <1>3, <1>4, <1>6
      <3> QED BY <1>4, <1>5, <3>1
    <2>2. ASSUME NEW k \in T PROVE k + 1 \in T
      <3>1. SUFFICES ASSUME i + 1 + (k + 1) <= n PROVE stack[i + 1 + (k + 1)].node \in R
        BY <2>2
      <3> DEFINE m == i + 1 + k
      <3>2. m \in 1..n /\ m < n /\ i + 1 + (k + 1) = m + 1 /\ i + 1 + k <= n
        BY <1>1, <1>4, <3>1
      <3>3. stack[m].node \in R
        BY <3>2
      <3> HIDE DEF m
      <3>4. Exists(stack[m].node) /\ stack[m + 1].node \in Links(stack[m].node)
        BY <1>2, <1>3, <3>2
      <3>5. Links(stack[m].node) \subseteq R
        BY <1>5, <3>3, <3>4, FollowOne
      <3> QED BY <3>2, <3>4, <3>5
    <2>3. T \in SUBSET Nat
      OBVIOUS
    <2> HIDE DEF T
    <2>4. T = Nat
      BY <2>1, <2>2, <2>3, AllNumbers
    <2>5. n - (i + 1) \in T /\ i + 1 + (n - (i + 1)) = n
      BY <1>1, <1>4, <1>6, <2>4
    <2>6. stack[n].node \in R
      <3> DEFINE k == n - (i + 1)
      <3>1. k \in T /\ i + 1 + k = n /\ n <= n
        BY <1>1, <2>5
      <3> HIDE DEF k
      <3> QED BY <3>1 DEF T
    <2> QED BY <2>6 DEF Top, n
  <1>7. i = n => id = Top.node
    BY DEF Top
  <1> QED BY <1>4, <1>5, <1>6, <1>7

LEMMA CycleFound ==
  ASSUME Base, Refuse, Refusal(Reference) = "dependency_cycle"
  PROVE  \E id \in Needed : Exists(id) /\ id \in ReachedFrom(Links(id))
  <1>1. outcome = "compiling" /\ Top.agenda # <<>>
    <2>1. outcome = "compiling"
      BY DEF Refuse
    <2>2. Top.agenda # <<>>
      BY ZenonT(60) DEF Refuse
    <2> QED BY <2>1, <2>2
  <1>2. ReferenceRefusal(Reference) # "dependency_cycle"
    BY DEF ReferenceRefusal, BindingRefusal
  <1>3. PICK id \in NodesFor(Reference) : id \in Open
    BY <1>2 DEF Refusal
  <1>4. id \in Links(Top.node)
    <2>1. Reference.kind # "binding"
      BY <1>3 DEF NodesFor
    <2>2. ItemLinks(Top.node, Reference) = NodesFor(Reference)
      BY <2>1 DEF ItemLinks
    <2> QED BY <1>1, <1>3, <2>2, OnReference
  <1>5. PICK i \in DOMAIN stack : id = stack[i].node
    BY <1>3 DEF Open, Image
  <1>6. /\ Exists(id) /\ id \in Needed
        /\ id = Top.node \/ Top.node \in ReachedFrom(Links(id))
        /\ Links(id) \subseteq ReachedFrom(Links(id))
        /\ LinksOf(ReachedFrom(Links(id))) \subseteq ReachedFrom(Links(id))
    BY <1>1, <1>5, OpenLeadToTop
  <1>7. id \in ReachedFrom(Links(id))
    <2>1. CASE id = Top.node
      BY <2>1, <1>4, <1>6
    <2>2. CASE Top.node \in ReachedFrom(Links(id))
      <3>1. Exists(Top.node)
        BY <1>1, OnTop
      <3>2. Links(Top.node) \subseteq ReachedFrom(Links(id))
        BY <1>6, <2>2, <3>1, FollowOne
      <3> QED BY <1>4, <3>2
    <2> QED BY <1>6, <2>1, <2>2
  <1> QED BY <1>6, <1>7

\* A cycle is reported only where something the completion contract needs needs
\* itself (compile_agent's dependency_cycle).
THEOREM ReportedCyclesAreReal == Spec => []CyclesAreReal
  <1>1. Init => CyclesAreReal
    BY DEF Init, Start, CyclesAreReal
  <1>2. ASSUME Base, CyclesAreReal, [Next]_vars PROVE CyclesAreReal'
    <2> DEFINE Found == \E id \in Needed : Exists(id) /\ id \in ReachedFrom(Links(id))
    <2>1. SUFFICES ASSUME outcome' = "dependency_cycle" PROVE Found'
      BY DEF CyclesAreReal
    <2>2. CASE UNCHANGED vars \/ Refuse
      <3>1. definition' = definition /\ given' = given
        BY <2>2 DEF vars, Refuse
      <3>2. Found
        <4>1. CASE UNCHANGED vars
          BY <1>2, <2>1, <4>1 DEF vars, CyclesAreReal
        <4>2. CASE Refuse
          BY <1>2, <2>1, <4>2, CycleFound DEF Refuse
        <4> QED BY <2>2, <4>1, <4>2
      <3>3. PICK id \in Needed : Exists(id) /\ id \in ReachedFrom(Links(id))
        BY <3>2
      <3>4. /\ Links(id)' = Links(id) /\ (Exists(id)' <=> Exists(id)) /\ Needed' = Needed
            /\ \A ids : ReachedFrom(ids)' = ReachedFrom(ids)
        BY <3>1, SameArguments DEF Needed, Complete, Node
      <3>5. ReachedFrom(Links(id))' = ReachedFrom(Links(id))
        BY <3>4
      <3> QED BY <3>3, <3>4, <3>5
    <2>3. CASE Call
      BY <2>1, <2>3 DEF Call, CallRefusal
    <2>4. CASE RefuseClose
      BY <2>1, <2>4 DEF RefuseClose, CloseRefusal
    <2>5. CASE SkipAvailable \/ MeetNode \/ VisitProvider \/ OpenVisit \/ Bind
      BY <2>1, <2>5 DEF SkipAvailable, MeetNode, VisitProvider, OpenVisit, Bind, Resolving
    <2>6. CASE CloseVisit
      BY <2>1, <2>6 DEF CloseVisit
    <2>7. CASE Recompile
      BY <2>1, <2>7 DEF Recompile
    <2> QED BY <1>2, <2>2, <2>3, <2>4, <2>5, <2>6, <2>7 DEF Next
  <1> QED BY <1>1, <1>2, BaseStarts, BaseGoesOn, PTL DEF Spec

-----------------------------------------------------------------------------
(* A node is visited once, so that what is known of it stays known. *)

LEMMA FreshLike ==
  ASSUME NEW s, NEW t, NEW ids, Fresh(s, ids), DOMAIN t \subseteq DOMAIN s,
         \A i \in DOMAIN t : t[i].node = s[i].node
  PROVE  Fresh(t, ids)
  BY DEF Fresh

LEMMA FreshGrown ==
  ASSUME NEW s, NEW ids, NEW d, Fresh(s, ids), d[1] = "derive" \/ d \notin NodesOf(s)
  PROVE  Fresh(s, ids \cup {d})
  BY DEF Fresh, NodesOf, Image

LEMMA FreshPushed ==
  ASSUME NEW s, s \in Seq(Image(s)), NEW ids, NEW f, Fresh(s, ids), f.node[1] # "retrieve",
         f.node[1] = "derive" \/ f.node \notin ids \cup NodesOf(s)
  PROVE  Fresh(Append(s, f), ids)
  <1> DEFINE t == Append(s, f)
             n == Len(s)
  <1>1. /\ n \in Nat /\ DOMAIN s = 1..n /\ DOMAIN t = 1..(n + 1)
        /\ \A i \in 1..n : t[i] = s[i]
        /\ t[n + 1] = f
    OBVIOUS
  <1> HIDE DEF t, n
  <1>2. ASSUME NEW i \in DOMAIN t
        PROVE  /\ t[i].node[1] # "retrieve"
               /\ t[i].node[1] # "derive" =>
                    /\ t[i].node \notin ids
                    /\ \A k \in DOMAIN t : t[k].node = t[i].node => k = i
    <2>1. CASE i = n + 1
      <3>1. ASSUME NEW k \in DOMAIN t, k # n + 1 PROVE t[k].node \in NodesOf(s)
        <4>1. k \in DOMAIN s /\ t[k] = s[k]
          BY <1>1, <3>1
        <4> QED BY <4>1 DEF NodesOf, Image
      <3> QED BY <1>1, <2>1, <3>1
    <2>2. CASE i # n + 1
      <3>1. i \in DOMAIN s /\ t[i] = s[i]
        BY <1>1, <2>2
      <3>2. s[i].node \in NodesOf(s)
        BY <3>1 DEF NodesOf, Image
      <3>3. ASSUME NEW k \in DOMAIN t, t[k].node = t[i].node, t[i].node[1] # "derive" PROVE k = i
        <4>1. k # n + 1
          BY <1>1, <3>1, <3>2, <3>3
        <4>2. k \in DOMAIN s /\ t[k] = s[k]
          BY <1>1, <4>1
        <4> QED BY <3>1, <3>3, <4>2 DEF Fresh
      <3> QED BY <3>1, <3>3 DEF Fresh
    <2> QED BY <2>1, <2>2
  <1>3. Fresh(t, ids)
    BY <1>2 DEF Fresh
  <1> QED BY <1>3 DEF t

\* The stack without its top, and with another frame of the same node on it.
LEMMA SameNodes ==
  ASSUME Base, outcome = "compiling"
  PROVE  /\ DOMAIN Below \subseteq DOMAIN stack /\ Len(stack) \in DOMAIN stack \ DOMAIN Below
         /\ \A i \in DOMAIN Below : Below[i] = stack[i]
         /\ \A items, depends : LET s == Continue(items, depends)
              IN  DOMAIN s = DOMAIN stack /\ \A i \in DOMAIN stack : s[i].node = stack[i].node
         /\ \A id : LET s == Return(id)
              IN  DOMAIN s = DOMAIN Below /\ \A i \in DOMAIN Below : s[i].node = Below[i].node
  <1> DEFINE n == Len(stack)
  <1>1. /\ n \in Nat /\ n >= 1 /\ DOMAIN stack = 1..n
        /\ Below \in Seq(Image(stack)) /\ Len(Below) = n - 1
        /\ \A i \in 1..(n - 1) : Below[i] = stack[i]
    <2>1. stack \in Seq(Image(stack)) /\ stack # <<>>
      BY DEF Base, WalkOK, WellStacked
    <2> QED BY <2>1, Parts DEF Below
  <1>2. DOMAIN Below = 1..(n - 1) /\ Top = stack[n]
    BY <1>1 DEF Top
  <1> HIDE DEF n
  <1>3. ASSUME NEW items, NEW depends
        PROVE  LET s == Continue(items, depends)
               IN  DOMAIN s = DOMAIN stack /\ \A i \in DOMAIN stack : s[i].node = stack[i].node
    <2> DEFINE g == [node |-> Top.node, agenda |-> items \o Tail(Top.agenda),
                     depends |-> Top.depends \o depends]
               t == Append(Below, g)
    <2>1. Continue(items, depends) = t /\ g.node = stack[n].node
      BY <1>2 DEF Continue
    <2> HIDE DEF g
    <2>2. /\ DOMAIN t = 1..(Len(Below) + 1) /\ t[Len(Below) + 1] = g
          /\ \A i \in 1..Len(Below) : t[i] = Below[i]
      BY <1>1
    <2> HIDE DEF t
    <2>3. DOMAIN t = 1..n /\ t[n] = g /\ \A i \in 1..(n - 1) : t[i] = stack[i]
      BY <1>1, <2>2
    <2>4. \A i \in 1..n : t[i].node = stack[i].node
      BY <1>1, <2>1, <2>3
    <2> QED BY <1>1, <2>1, <2>3, <2>4
  <1>4. ASSUME NEW id
        PROVE  LET s == Return(id)
               IN  DOMAIN s = DOMAIN Below /\ \A i \in DOMAIN Below : s[i].node = Below[i].node
    <2>1. CASE Below = <<>>
      <3>1. Return(id) = Below
        BY <2>1 DEF Return
      <3> QED BY <3>1
    <2>2. CASE Below # <<>>
      <3> DEFINE m == Len(Below)
                 g == [Below[m] EXCEPT !.depends = Append(@, id)]
                 t == [Below EXCEPT ![m] = g]
      <3>1. Return(id) = t
        BY <2>2, Zenon DEF Return
      <3>2. Below \in Seq(Image(Below)) /\ \A f \in Image(Below) : IsFrame(f)
        BY OnTop
      <3>3. m \in Nat /\ m >= 1 /\ Below[m] \in Image(Below) /\ DOMAIN Below = 1..m
        BY <2>2, <3>2, Parts
      <3>4. g.node = Below[m].node
        BY <3>2, <3>3, Changed
      <3> HIDE DEF g, m
      <3>5. DOMAIN t = DOMAIN Below /\ \A i \in DOMAIN Below : t[i] = IF i = m THEN g ELSE Below[i]
        OBVIOUS
      <3> QED BY <3>1, <3>4, <3>5
    <2> QED BY <2>1, <2>2
  <1>5. DOMAIN Below \subseteq DOMAIN stack /\ n \in DOMAIN stack \ DOMAIN Below
        /\ \A i \in DOMAIN Below : Below[i] = stack[i]
    BY <1>1, <1>2
  <1> QED BY <1>3, <1>4, <1>5 DEF n

\* The steps that resolve a reference change the stack in one of two ways.
LEMMA StackChanges ==
  ASSUME Base, SkipAvailable \/ MeetNode \/ VisitProvider \/ OpenVisit \/ Bind
  PROVE  \/ \E items, depends : stack' = Continue(items, depends)
         \/ /\ ~ VisitProvider
            /\ \E d, agenda :
                 /\ stack' = Append(Continue(<<>>, <<>>), Frame(d, agenda)) /\ d[1] # "retrieve"
                 /\ d[1] = "derive" \/ d \notin Done \cup Open
  <1>1. CASE SkipAvailable \/ MeetNode
    BY <1>1 DEF SkipAvailable, MeetNode
  <1>2. CASE VisitProvider
    BY <1>2 DEF VisitProvider
  <1>3. CASE OpenVisit
    <2>1. PICK d \in NodesFor(Reference) \ Done :
            /\ d[1] # "retrieve"
            /\ \E agenda : stack' = Append(Continue(<<>>, <<>>), Frame(d, agenda))
      BY <1>3, NodeParts DEF OpenVisit
    <2>2. NodesFor(Reference) \cap Open = {}
      BY <1>3, OnReference DEF OpenVisit, Resolving
    <2>3. ~ VisitProvider
      <3>1. ASSUME VisitProvider PROVE FALSE
        <4>1. PICK p : Retrieve(p) \in NodesFor(Reference)
          BY <3>1 DEF VisitProvider
        <4>2. NodesFor(Reference) = {Retrieve(p)}
          BY <1>3, <4>1, OnReference DEF OpenVisit, Resolving
        <4> QED BY <2>1, <4>2, NodeParts
      <3> QED BY <3>1
    <2> QED BY <2>1, <2>2, <2>3
  <1>4. CASE Bind
    <2>1. \/ \E i, agenda : stack' = Append(Continue(<<>>, <<>>), Frame(Derive(Top.node[2], i), agenda))
          \/ \E items : stack' = Continue(items, <<>>)
      BY <1>4, Zenon DEF Bind
    <2>2. ~ VisitProvider
      <3>1. NodesFor(Reference) = {}
        BY <1>4 DEF Bind, NodesFor
      <3> QED BY <3>1 DEF VisitProvider
    <2> QED BY <2>1, <2>2, NodeParts
  <1> QED BY <1>1, <1>2, <1>3, <1>4

LEMMA NodesInserted ==
  ASSUME Base, NEW n, nodes' = Append(nodes, n)
  PROVE  Image(nodes') = Image(nodes) \cup {n} /\ Done' = Done \cup {n.id}
  <1>1. Image(nodes') = Image(nodes) \cup {n} /\ Image(nodes)' = Image(nodes')
    <2>1. Image(nodes)' = Image(nodes')
      BY DEF Image
    <2> QED BY <2>1, Appended DEF Base, WalkOK
  <1> QED BY <1>1 DEF Done

LEMMA FreshStarts == Init => VisitsFresh
  <1>1. DOMAIN <<>> = {}
    OBVIOUS
  <1> QED BY <1>1 DEF Init, Start, VisitsFresh, Fresh

LEMMA FreshGoesOn ==
  ASSUME Base, VisitsFresh, [Next]_vars
  PROVE  VisitsFresh'
  <1>1. ASSUME nodes' = nodes PROVE Done' = Done
    BY <1>1 DEF Done, Image
  <1>2. SUFFICES Fresh(stack', Done')
    BY DEF VisitsFresh, Fresh
  <1>3. ASSUME UNCHANGED vars \/ Refuse \/ RefuseClose PROVE Fresh(stack', Done')
    <2>1. stack' = stack /\ nodes' = nodes
      BY <1>3 DEF vars, Refuse, RefuseClose
    <2> QED BY <1>1, <2>1 DEF VisitsFresh
  <1>4. ASSUME stack' = <<>> PROVE Fresh(stack', Done')
    <2>1. DOMAIN stack' = {}
      BY <1>4
    <2> QED BY <2>1 DEF Fresh
  <1>5. CASE Recompile
    BY <1>4, <1>5 DEF Recompile
  <1>6. CASE Call
    <2>1. CASE CallRefusal = "none"
      <3> DEFINE f == Frame(Complete, CompletionAgenda)
      <3>1. stack' = <<f>> /\ nodes' = nodes /\ nodes = <<>>
        BY <1>6, <2>1 DEF Call, Base, ProgramOK
      <3>2. Done' = {}
        BY <3>1, NoItem DEF Done, Image
      <3>3. f.node = Complete /\ Complete[1] = "complete"
        BY NodeParts DEF Frame
      <3> HIDE DEF f
      <3>4. DOMAIN <<f>> = {1}
        OBVIOUS
      <3> QED BY <3>1, <3>2, <3>3, <3>4 DEF Fresh
    <2>2. CASE CallRefusal # "none"
      BY <1>4, <1>6, <2>2 DEF Call
    <2> QED BY <2>1, <2>2
  <1>7. CASE SkipAvailable \/ MeetNode \/ VisitProvider \/ OpenVisit \/ Bind
    <2>1. outcome = "compiling" /\ Top.agenda # <<>> /\ Refusal(Reference) = "none"
      BY <1>7 DEF SkipAvailable, MeetNode, VisitProvider, OpenVisit, Bind, Resolving
    <2>2. ASSUME NEW items, NEW depends PROVE Fresh(Continue(items, depends), Done)
      BY <2>1, SameNodes, FreshLike DEF VisitsFresh
    <2>3. CASE \E items, depends : stack' = Continue(items, depends)
      <3>1. CASE VisitProvider
        <4>1. PICK p : /\ Retrieve(p) \in NodesFor(Reference)
                       /\ nodes' = Append(nodes, [id |-> Retrieve(p), depends |-> {}, unresolved |-> ~ Supplied(p)])
          BY <3>1 DEF VisitProvider, Inserted
        <4> DEFINE n == [id |-> Retrieve(p), depends |-> {}, unresolved |-> ~ Supplied(p)]
        <4>2. n.id = Retrieve(p) /\ nodes' = Append(nodes, n)
          BY <4>1
        <4> HIDE DEF n
        <4>3. Done' = Done \cup {Retrieve(p)}
          BY <4>2, NodesInserted
        <4>4. Retrieve(p) \notin NodesOf(stack)
          BY <2>1, <4>1, OnReference DEF NodesOf, Open
        <4>5. Fresh(stack, Done \cup {Retrieve(p)})
          BY <4>4, FreshGrown DEF VisitsFresh
        <4> QED BY <2>1, <2>3, <4>3, <4>5, SameNodes, FreshLike
      <3>2. CASE ~ VisitProvider
        <4>1. nodes' = nodes
          BY <1>7, <3>2 DEF SkipAvailable, MeetNode, OpenVisit, Bind
        <4> QED BY <1>1, <2>2, <2>3, <4>1
      <3> QED BY <3>1, <3>2
    <2>4. CASE /\ ~ VisitProvider
               /\ \E d, agenda :
                    /\ stack' = Append(Continue(<<>>, <<>>), Frame(d, agenda)) /\ d[1] # "retrieve"
                    /\ d[1] = "derive" \/ d \notin Done \cup Open
      <3>1. PICK d, agenda :
              /\ stack' = Append(Continue(<<>>, <<>>), Frame(d, agenda)) /\ d[1] # "retrieve"
              /\ d[1] = "derive" \/ d \notin Done \cup Open
        BY <2>4, ZenonT(60)
      <3>2. nodes' = nodes
        BY <1>7, <2>4 DEF SkipAvailable, MeetNode, OpenVisit, Bind
      <3> DEFINE c == Continue(<<>>, <<>>)
                 f == Frame(d, agenda)
      <3>3. f.node = d
        BY DEF Frame
      <3>4. c \in Seq(Image(c))
        <4>1. WellStacked(c, Done)
          <5>1. <<>> \in Seq(Done)
            BY EmptySeq
          <5> QED BY <2>1, <5>1, Continued DEF Base
        <4> QED BY <4>1 DEF WellStacked
      <3>5. Fresh(c, Done) /\ NodesOf(c) = Open
        <4>1. DOMAIN c = DOMAIN stack /\ \A i \in DOMAIN stack : c[i].node = stack[i].node
          BY <2>1, SameNodes
        <4> HIDE DEF c
        <4>2. NodesOf(c) = Open
          BY <4>1 DEF NodesOf, Open, Image
        <4> QED BY <2>2, <4>2 DEF c
      <3> HIDE DEF c, f
      <3>6. Fresh(Append(c, f), Done)
        BY <3>1, <3>3, <3>4, <3>5, FreshPushed
      <3> QED BY <1>1, <3>1, <3>2, <3>6 DEF c, f
    <2> QED BY <1>7, <2>3, <2>4, StackChanges
  <1>8. CASE CloseVisit
    <2>1. outcome = "compiling" /\ stack' = Return(Top.node)
      BY <1>8 DEF CloseVisit
    <2>2. PICK n : nodes' = Append(nodes, n) /\ n.id = Top.node
      BY <1>8, ClosedNode
    <2>3. Done' = Done \cup {Top.node}
      BY <2>2, NodesInserted
    <2>4. Fresh(Below, Done)
      BY <2>1, SameNodes, FreshLike DEF VisitsFresh
    <2>5. Top.node[1] = "derive" \/ Top.node \notin NodesOf(Below)
      <3>1. SUFFICES ASSUME Top.node[1] # "derive", NEW i \in DOMAIN Below, Below[i].node = Top.node
                     PROVE FALSE
        BY DEF NodesOf, Image
      <3>2. i \in DOMAIN stack /\ Len(stack) \in DOMAIN stack /\ i # Len(stack)
            /\ stack[i].node = stack[Len(stack)].node
        BY <2>1, <3>1, SameNodes DEF Top
      <3> QED BY <3>1, <3>2 DEF VisitsFresh, Fresh, Top
    <2>6. Fresh(Below, Done')
      BY <2>3, <2>4, <2>5, FreshGrown
    <2> QED BY <2>1, <2>6, SameNodes, FreshLike
  <1> QED BY <1>3, <1>5, <1>6, <1>7, <1>8 DEF Next

-----------------------------------------------------------------------------
(* Which nodes are resolved, and where the program says why one is not. *)

LEMMA DependsInside ==
  ASSUME WalkOK
  PROVE  \A n \in Image(nodes) : n.depends \subseteq Done
  <1>1. ProgramOrdered /\ DOMAIN nodes = 1..Len(nodes) /\ Len(nodes) \in Nat
    BY DEF WalkOK
  <1>2. ASSUME NEW i \in DOMAIN nodes PROVE nodes[i].depends \subseteq Done
    <2>1. nodes[i].depends \subseteq {nodes[k].id : k \in 1..(i - 1)}
      BY <1>1 DEF ProgramOrdered
    <2>2. i \in Nat /\ 1..(i - 1) \subseteq DOMAIN nodes
      BY <1>1
    <2> QED BY <2>1, <2>2 DEF Done, Image
  <1> QED BY <1>2 DEF Image

LEMMA OptionsTyped ==
  ASSUME ArgumentsOK, NEW j \in DOMAIN definition.judgments
  PROVE  /\ Options(j) \in Nat
         /\ Judgment(j).candidates \in Providers \cup {NoProvider}
         /\ \A p \in DOMAIN given.snapshots :
              given.snapshots[p].failed \in BOOLEAN /\ given.snapshots[p].size \in Nat
  <1>1. Judgment(j).options \in Nat /\ Judgment(j).candidates \in Providers \cup {NoProvider}
    BY DEF ArgumentsOK, WellDefined, FieldsTyped, Judgment
  <1>2. \A p \in DOMAIN given.snapshots :
           given.snapshots[p].failed \in BOOLEAN /\ given.snapshots[p].size \in Nat
    <2>1. \A p \in DOMAIN given.snapshots :
             given.snapshots[p] \in [matches : BOOLEAN, failed : BOOLEAN, size : Nat]
      BY SnapshotsAssumption DEF ArgumentsOK
    <2> QED BY <2>1
  <1> QED BY <1>1, <1>2 DEF Options, Supplied

\* A node that is put into the program changes nothing about those in it.
LEMMA UnresolvedKept ==
  ASSUME Base, NEW n, nodes' = Append(nodes, n), n.id \notin Done \/ ~ n.unresolved
  PROVE  \A d \in Done : IsUnresolved(d)' <=> IsUnresolved(d)
  <1>1. Image(nodes') = Image(nodes) \cup {n}
    BY NodesInserted
  <1>2. \A d : IsUnresolved(d)' <=> \E k \in Image(nodes') : k.id = d /\ k.unresolved
    BY DEF IsUnresolved, Image
  <1>3. ASSUME NEW d \in Done
        PROVE  (\E k \in Image(nodes') : k.id = d /\ k.unresolved) <=> IsUnresolved(d)
    BY <1>1 DEF IsUnresolved
  <1> QED BY <1>2, <1>3

LEMMA StatusKept ==
  ASSUME Base, definition' = definition, given' = given, diagnosed \subseteq diagnosed',
         NEW n, StatusOK(n), n.depends \subseteq Done,
         \A d \in Done : IsUnresolved(d)' <=> IsUnresolved(d)
  PROVE  StatusOK(n)'
  <1>1. /\ \A p : Supplied(p)' <=> Supplied(p)
        /\ \A j : (CandidatesUsable(j)' <=> CandidatesUsable(j)) /\ Options(j)' = Options(j)
    BY DEF Supplied, CandidatesUsable, Options, Judgment
  <1>2. ReachedFrom({n.id})' = ReachedFrom({n.id})
    BY SameArguments
  <1>3. (\A d \in n.depends : ~ IsUnresolved(d)') <=> (\A d \in n.depends : ~ IsUnresolved(d))
    OBVIOUS
  <1>4. n.unresolved => ReachedFrom({n.id}) \cap diagnosed' # {}
    BY DEF StatusOK
  <1>5. n.id[1] = "judge" =>
          /\ n.unresolved <=> ~ (CandidatesUsable(n.id[2])' /\ \A d \in n.depends : ~ IsUnresolved(d)')
          /\ Options(n.id[2])' <= MaxOptions
    BY <1>1, <1>3 DEF StatusOK
  <1>6. /\ n.unresolved \in BOOLEAN
        /\ n.id[1] \in {"derive", "complete"} => ~ n.unresolved
        /\ n.id[1] = "retrieve" => (n.unresolved <=> ~ Supplied(n.id[2])')
    BY <1>1 DEF StatusOK
  <1> QED BY <1>2, <1>4, <1>5, <1>6 DEF StatusOK

\* A reason on what a node depends on is a reason for the node.
LEMMA ReasonsCarry ==
  ASSUME Base, StatusesOK, NEW id \in AllNodes, Exists(id), NEW d \in Links(id), IsUnresolved(d)
  PROVE  ReachedFrom({id}) \cap diagnosed # {}
  <1>1. PICK k \in Image(nodes) : k.id = d /\ k.unresolved
    BY DEF IsUnresolved
  <1>2. ReachedFrom({d}) \cap diagnosed # {}
    BY <1>1 DEF StatusesOK, StatusOK
  <1>3. ReachedFrom({d}) \subseteq ReachedFrom({id})
    BY ReachedThrough DEF Base, ArgumentsOK
  <1> QED BY <1>2, <1>3

LEMMA ReachesItself ==
  ASSUME Base, NEW id \in AllNodes
  PROVE  id \in ReachedFrom({id})
  BY Reached DEF Base, ArgumentsOK

\* The node of a visit that ends has its reason in the program.
LEMMA ClosedReason ==
  ASSUME Base, StatusesOK, CloseVisit, NodeUnresolved
  PROVE  ReachedFrom({Top.node}) \cap diagnosed' # {}
  <1> DEFINE id == Top.node
             j == id[2]
  <1>1. /\ outcome = "compiling" /\ Top.agenda = <<>> /\ id \in AllNodes /\ Exists(id)
        /\ Image(Top.depends) = Links(id) /\ Links(id) \subseteq Done
    <2>1. outcome = "compiling" /\ Top.agenda = <<>>
      BY DEF CloseVisit
    <2> QED BY <2>1, OnTop, VisitEnds
  <1>2. diagnosed' = IF id[1] = "judge" /\ CandidatesDiagnosed(j)
                     THEN diagnosed \cup {id} ELSE diagnosed
    BY DEF CloseVisit
  <1>3. id \in ReachedFrom({id})
    BY <1>1, ReachesItself
  <1>4. ASSUME NEW d \in Links(id), IsUnresolved(d) PROVE ReachedFrom({id}) \cap diagnosed' # {}
    <2>1. ReachedFrom({id}) \cap diagnosed # {}
      BY <1>1, <1>4, ReasonsCarry
    <2> QED BY <1>2, <2>1
  <1>5. CASE id[1] = "invoke"
    <2>1. id \in diagnosed \/ \E d \in Links(id) : IsUnresolved(d)
      BY <1>1, <1>5 DEF NodeUnresolved
    <2> QED BY <1>2, <1>3, <1>4, <2>1
  <1>6. CASE id[1] = "judge"
    <2>1. j \in DOMAIN definition.judgments
      BY <1>1, <1>6 DEF Exists
    <2>2. ~ ((\A d \in Links(id) : ~ IsUnresolved(d)) /\ CandidatesUsable(j))
      BY <1>1, <1>6 DEF NodeUnresolved, Dispatchable
    <2>3. CASE CandidatesDiagnosed(j)
      BY <1>2, <1>3, <1>6, <2>3
    <2>4. CASE ~ CandidatesUsable(j) /\ ~ CandidatesDiagnosed(j)
      <3> DEFINE p == Judgment(j).candidates
                 d == Retrieve(p)
      <3>1. p # NoProvider /\ ~ Supplied(p)
        BY <2>4 DEF CandidatesUsable, CandidatesDiagnosed
      <3>2. d \in Links(id)
        BY <1>6, <3>1 DEF Links
      <3>3. PICK k \in Image(nodes) : k.id = d
        BY <1>1, <3>2 DEF Done
      <3>4. k.unresolved
        <4>1. StatusOK(k) /\ k.id[1] = "retrieve" /\ k.id[2] = p
          BY <3>3, NodeParts DEF StatusesOK
        <4> HIDE DEF d, p
        <4> QED BY <3>1, <4>1 DEF StatusOK
      <3>5. IsUnresolved(d)
        BY <3>3, <3>4 DEF IsUnresolved
      <3> QED BY <1>4, <3>2, <3>5
    <2> QED BY <1>4, <2>2, <2>3, <2>4
  <1>7. CASE id[1] \notin {"judge", "invoke"}
    BY <1>7 DEF NodeUnresolved
  <1> QED BY <1>5, <1>6, <1>7

LEMMA ClosingKeepsStatuses ==
  ASSUME Base, VisitsFresh, StatusesOK, CloseVisit
  PROVE  StatusesOK'
  <1> DEFINE id == Top.node
             j == id[2]
  <1>1. PICK n : /\ nodes' = Append(nodes, n) /\ Image(nodes') = Image(nodes) \cup {n}
                 /\ NodeOK(n) /\ n.id = id /\ n.depends = Image(Top.depends)
                 /\ n.unresolved = NodeUnresolved
    BY ClosedNode
  <1>2. /\ outcome = "compiling" /\ CloseRefusal = "none" /\ definition' = definition /\ given' = given
        /\ diagnosed \subseteq diagnosed'
        /\ questions' = IF id[1] # "judge" THEN questions
                        ELSE [k \in DOMAIN questions \cup {j} |->
                                IF k = j THEN ~ NodeUnresolved ELSE questions[k]]
    BY DEF CloseVisit
  <1>3. id[1] # "retrieve" /\ (id[1] = "derive" \/ id \notin Done)
    BY <1>2, SameNodes DEF VisitsFresh, Fresh, Top
  <1>4. /\ id \in AllNodes /\ Exists(id) /\ n.depends \subseteq Done
        /\ id[1] = "judge" => j \in DOMAIN definition.judgments /\ j \in Judgments /\ id = Judge(j)
    <2>1. id \in AllNodes /\ Exists(id) /\ n.depends \subseteq Done
      BY <1>1, <1>2, OnTop
    <2>2. id[1] = "judge" => j \in Judgments /\ id = Judge(j)
      BY <2>1, NodeCases, NodeParts
    <2> QED BY <2>1, <2>2 DEF Exists
  <1>5. id[1] \in {"derive", "complete"} => ~ NodeUnresolved
    BY DEF NodeUnresolved
  <1>6. \A d \in Done : IsUnresolved(d)' <=> IsUnresolved(d)
    BY <1>1, <1>3, <1>5, UnresolvedKept
  <1>7. ASSUME NEW k \in Image(nodes) PROVE StatusOK(k)'
    <2>1. StatusOK(k) /\ k.depends \subseteq Done
      BY DependsInside DEF StatusesOK, Base
    <2> QED BY <1>2, <1>6, <2>1, StatusKept
  <1>8. StatusOK(n)'
    <2>1. NodeUnresolved \in BOOLEAN
      BY Zenon DEF NodeUnresolved, Dispatchable
    <2>2. id[1] = "judge" =>
            /\ NodeUnresolved <=> ~ (CandidatesUsable(j) /\ \A d \in n.depends : ~ IsUnresolved(d))
            /\ Options(j) <= MaxOptions
      <3>1. id[1] = "judge" => Options(j) \in Nat /\ ~ (Options(j) > MaxOptions)
        BY <1>2, <1>4, OptionsTyped DEF CloseRefusal, Base
      <3> QED BY <1>1, <3>1, OptionsAssumption DEF NodeUnresolved, Dispatchable
    <2>3. /\ \A k : CandidatesUsable(k)' <=> CandidatesUsable(k)
          /\ \A k : Options(k)' = Options(k)
      BY <1>2 DEF CandidatesUsable, Options, Judgment, Supplied
    <2>4. ReachedFrom({n.id})' = ReachedFrom({n.id})
      BY <1>2, SameArguments
    <2>5. n.unresolved => ReachedFrom({n.id}) \cap diagnosed' # {}
      BY <1>1, ClosedReason
    <2>6. (\A d \in n.depends : ~ IsUnresolved(d)') <=> (\A d \in n.depends : ~ IsUnresolved(d))
      BY <1>4, <1>6
    <2> HIDE DEF id
    <2>7. n.id[1] = "judge" =>
            /\ n.unresolved <=> ~ (CandidatesUsable(n.id[2])' /\ \A d \in n.depends : ~ IsUnresolved(d)')
            /\ Options(n.id[2])' <= MaxOptions
      BY <1>1, <2>2, <2>3, <2>6
    <2>8. /\ n.unresolved \in BOOLEAN
          /\ n.id[1] \in {"derive", "complete"} => ~ n.unresolved
          /\ n.id[1] # "retrieve"
      BY <1>1, <1>3, <1>5, <2>1
    <2> QED BY <2>4, <2>5, <2>7, <2>8 DEF StatusOK
  <1>9. Done' = Done \cup {id}
    BY <1>1, NodesInserted
  <1>10. DOMAIN questions' = {k \in Judgments : Judge(k) \in Done'}
    <2>1. DOMAIN questions' = IF id[1] = "judge" THEN DOMAIN questions \cup {j} ELSE DOMAIN questions
      BY <1>2
    <2>2. \A k : Judge(k) = id <=> id[1] = "judge" /\ k = j
      <3>1. \A k : Judge(k) = id => id[1] = "judge" /\ k = j
        BY NodeParts
      <3> QED BY <1>4, <3>1
    <2> HIDE DEF id, j
    <2> QED BY <1>4, <1>9, <2>1, <2>2 DEF StatusesOK
  <1>11. IsUnresolved(n.id)' <=> IF id \in Done THEN IsUnresolved(id) ELSE NodeUnresolved
    <2>1. IsUnresolved(n.id)' <=> \E k \in Image(nodes') : k.id = n.id /\ k.unresolved
      BY DEF IsUnresolved, Image
    <2>2. CASE id \in Done
      BY <1>1, <1>6, <2>2
    <2>3. CASE id \notin Done
      BY <1>1, <2>1, <2>3 DEF Done
    <2> QED BY <2>2, <2>3
  <1>12. ASSUME NEW k \in DOMAIN questions' PROVE questions'[k] <=> ~ IsUnresolved(Judge(k))'
    <2>1. CASE id[1] = "judge" /\ k = j
      <3>1. questions'[k] = ~ NodeUnresolved
        BY <1>2, <2>1
      <3>2. Judge(k) = n.id
        BY <1>1, <1>4, <2>1
      <3>3. IsUnresolved(n.id)' <=> NodeUnresolved
        BY <1>3, <1>11, <2>1
      <3>4. IsUnresolved(Judge(k))' <=> IsUnresolved(n.id)'
        BY <3>2 DEF Judge, Node
      <3> QED BY <3>1, <3>3, <3>4
    <2>2. CASE ~ (id[1] = "judge" /\ k = j)
      <3>1. k \in DOMAIN questions /\ questions'[k] = questions[k]
        BY <1>2, <2>2
      <3>2. Judge(k) \in Done
        BY <3>1 DEF StatusesOK
      <3> QED BY <1>6, <3>1, <3>2 DEF StatusesOK
    <2> QED BY <2>1, <2>2
  <1>13. Image(nodes)' = Image(nodes')
    BY DEF Image
  <1>14. (DOMAIN questions = {k \in Judgments : Judge(k) \in Done})'
    BY <1>10 DEF Judge, Node
  <1>15. (\A k \in DOMAIN questions : questions[k] <=> ~ IsUnresolved(Judge(k)))'
    BY <1>12 DEF Judge, Node
  <1>16. \A k \in Image(nodes)' : StatusOK(k)'
    BY <1>1, <1>7, <1>8, <1>13
  <1> QED BY <1>14, <1>15, <1>16 DEF StatusesOK

\* A step that closes no visit keeps what is known.
LEMMA StatusesKept ==
  ASSUME Base, StatusesOK, definition' = definition, given' = given,
         diagnosed \subseteq diagnosed', questions' = questions,
         \A d \in Done : IsUnresolved(d)' <=> IsUnresolved(d),
         \A n \in Image(nodes') : n \in Image(nodes) \/ (StatusOK(n)' /\ n.id[1] # "judge"),
         Image(nodes) \subseteq Image(nodes')
  PROVE  StatusesOK'
  <1>1. Image(nodes)' = Image(nodes') /\ Done' = {n.id : n \in Image(nodes')}
    BY DEF Image, Done
  <1>2. ASSUME NEW n \in Image(nodes') PROVE StatusOK(n)'
    <2>1. CASE n \in Image(nodes)
      <3>1. StatusOK(n) /\ n.depends \subseteq Done
        BY <2>1, DependsInside DEF StatusesOK, Base
      <3> QED BY <3>1, StatusKept
    <2> QED BY <2>1
  <1>3. \A j : Judge(j) \in Done' <=> Judge(j) \in Done
    <2>1. \A j : Judge(j)[1] = "judge"
      BY NodeParts
    <2> QED BY <1>1, <2>1 DEF Done
  <1>4. (DOMAIN questions = {j \in Judgments : Judge(j) \in Done})'
    BY <1>3 DEF StatusesOK, Judge, Node
  <1>5. (\A j \in DOMAIN questions : questions[j] <=> ~ IsUnresolved(Judge(j)))'
    <2>1. ASSUME NEW j \in DOMAIN questions PROVE questions[j] <=> ~ IsUnresolved(Judge(j))'
      <3>1. Judge(j) \in Done /\ (questions[j] <=> ~ IsUnresolved(Judge(j)))
        BY DEF StatusesOK
      <3> QED BY <3>1
    <2> QED BY <2>1 DEF Judge, Node
  <1> QED BY <1>1, <1>2, <1>4, <1>5 DEF StatusesOK

LEMMA SameNodesSameStatus ==
  ASSUME nodes' = nodes
  PROVE  \A d : IsUnresolved(d)' <=> IsUnresolved(d)
  BY DEF IsUnresolved, Image

LEMMA StatusesGoOn ==
  ASSUME Base, VisitsFresh, StatusesOK, [Next]_vars
  PROVE  StatusesOK'
  <1>1. ASSUME definition' = definition, given' = given, diagnosed \subseteq diagnosed',
               questions' = questions, nodes' = nodes
        PROVE  StatusesOK'
    BY <1>1, SameNodesSameStatus, StatusesKept
  <1>2. CASE UNCHANGED vars
    BY <1>1, <1>2 DEF vars
  <1>3. CASE Call \/ Refuse \/ RefuseClose \/ SkipAvailable \/ MeetNode \/ OpenVisit \/ Bind
    BY <1>1, <1>3, Zenon DEF Call, Refuse, RefuseClose, SkipAvailable, MeetNode, OpenVisit, Bind
  <1>4. CASE CloseVisit
    BY <1>4, ClosingKeepsStatuses
  <1>5. CASE VisitProvider
    <2>1. /\ outcome = "compiling" /\ definition' = definition /\ given' = given /\ questions' = questions
          /\ Top.agenda # <<>> /\ Refusal(Reference) = "none"
      BY <1>5 DEF VisitProvider, Resolving
    <2>2. PICK p \in DOMAIN definition.providers :
            /\ Retrieve(p) \in NodesFor(Reference) \ Done
            /\ nodes' = Append(nodes, [id |-> Retrieve(p), depends |-> {}, unresolved |-> ~ Supplied(p)])
            /\ diagnosed' = IF Supplied(p) /\ definition.providers[p] \subseteq given.supplied
                            THEN diagnosed ELSE diagnosed \cup {Retrieve(p)}
      BY <1>5 DEF VisitProvider, Inserted
    <2>3. PICK n : n = [id |-> Retrieve(p), depends |-> {}, unresolved |-> ~ Supplied(p)]
      OBVIOUS
    <2>4. n.id = Retrieve(p) /\ n.depends = {} /\ n.unresolved = ~ Supplied(p) /\ nodes' = Append(nodes, n)
      BY <2>2, <2>3
    <2>5. \A d \in Done : IsUnresolved(d)' <=> IsUnresolved(d)
      BY <2>2, <2>4, UnresolvedKept
    <2>6. Image(nodes') = Image(nodes) \cup {n}
      BY <2>4, NodesInserted
    <2>7. n.id[1] = "retrieve" /\ n.id[2] = p
      BY <2>4, NodeParts
    <2>8. StatusOK(n)'
      <3>1. n.unresolved => n.id \in diagnosed'
        BY <2>2, <2>4
      <3>2. n.id \in ReachedFrom({n.id})
        <4>1. n.id \in AllNodes
          BY <2>2, <2>4 DEF Base, ArgumentsOK, WellDefined, FieldsTyped, AllNodes
        <4> QED BY <4>1, ReachesItself
      <3>3. ReachedFrom({n.id})' = ReachedFrom({n.id}) /\ (Supplied(p)' <=> Supplied(p))
        BY <2>1, SameArguments DEF Supplied
      <3>4. n.unresolved \in BOOLEAN
        BY <2>4
      <3>5. n.unresolved <=> ~ Supplied(n.id[2])'
        BY <2>4, <2>7, <3>3
      <3> QED BY <2>7, <3>1, <3>2, <3>3, <3>4, <3>5 DEF StatusOK
    <2>9. diagnosed \subseteq diagnosed'
      BY <2>2
    <2> QED BY <2>1, <2>5, <2>6, <2>7, <2>8, <2>9, StatusesKept
  <1>6. CASE Recompile
    <2>1. nodes' = <<>> /\ questions' = [j \in {} |-> FALSE]
      BY <1>6 DEF Recompile
    <2>2. Image(nodes)' = {} /\ Done' = {}
      BY <2>1, NoItem DEF Image, Done
    <2>3. DOMAIN questions' = {}
      BY <2>1
    <2>4. (DOMAIN questions = {j \in Judgments : Judge(j) \in Done})'
      BY <2>2, <2>3
    <2> QED BY <2>2, <2>3, <2>4 DEF StatusesOK
  <1> QED BY <1>2, <1>3, <1>4, <1>5, <1>6 DEF Next

LEMMA StatusesStart == Init => StatusesOK
  <1> SUFFICES ASSUME Init PROVE StatusesOK
    OBVIOUS
  <1>1. nodes = <<>> /\ questions = [j \in {} |-> FALSE]
    BY DEF Init, Start
  <1>2. Image(nodes) = {} /\ Done = {} /\ DOMAIN questions = {}
    BY <1>1, NoItem DEF Done
  <1> QED BY <1>2 DEF StatusesOK

\* A question that cannot be put to the model has a diagnostic on something it was
\* compiled from (compile_agent; the runtime reports the diagnostics of a program
\* whose judgment never became dispatchable).
THEOREM UndispatchableAreDiagnosed == Spec => []UndispatchableIsDiagnosed
  <1>1. ASSUME StatusesOK, NEW j \in DOMAIN questions, ~ questions[j]
        PROVE  ReachedFrom({Judge(j)}) \cap diagnosed # {}
    <2>1. IsUnresolved(Judge(j))
      BY <1>1 DEF StatusesOK
    <2>2. PICK n \in Image(nodes) : n.id = Judge(j) /\ n.unresolved
      BY <2>1 DEF IsUnresolved
    <2> QED BY <1>1, <2>2 DEF StatusesOK, StatusOK
  <1>2. StatusesOK => UndispatchableIsDiagnosed
    BY <1>1 DEF UndispatchableIsDiagnosed
  <1> QED BY BaseStarts, BaseGoesOn, FreshStarts, FreshGoesOn, StatusesStart, StatusesGoOn, <1>2, PTL DEF Spec

\* An agent's question can be put to the model exactly when compile_judgment
\* accepts the same judgment and everything it depends on is resolved.
THEOREM QuestionsAgreeWithDirect == Spec => []AgreesWithDirect
  <1>1. ASSUME Base, StatusesOK, NEW n \in Image(nodes), n.id[1] = "judge"
        PROVE  LET refusal == DirectRefusal(n.id[2], given.snapshots, DOMAIN questions)
               IN  questions[n.id[2]] <=> refusal = "none" /\ \A d \in n.depends : ~ IsUnresolved(d)
    <2> DEFINE j == n.id[2]
               set == Judgment(j).candidates
    <2>1. /\ n.id \in AllNodes /\ Exists(n.id) /\ n.depends = Links(n.id)
          /\ StatusOK(n) /\ n.depends \subseteq Done
      BY <1>1, DependsInside DEF Base, ProgramOK, NodeOK, StatusesOK
    <2>2. j \in DOMAIN definition.judgments /\ j \in Judgments /\ n.id = Judge(j)
      BY <1>1, <2>1, NodeCases, NodeParts DEF Exists
    <2>3. n.id \in Done /\ j \in DOMAIN questions
      BY <1>1, <2>2 DEF StatusesOK, Done
    <2>4. questions[j] <=> ~ IsUnresolved(n.id)
      BY <1>1, <2>2, <2>3 DEF StatusesOK
    <2>5. IsUnresolved(n.id) <=> ~ (CandidatesUsable(j) /\ \A d \in n.depends : ~ IsUnresolved(d))
      <3>1. ASSUME NEW k \in Image(nodes), k.id = n.id
            PROVE  k.unresolved <=> ~ (CandidatesUsable(j) /\ \A d \in n.depends : ~ IsUnresolved(d))
        <4>1. k.depends = n.depends /\ StatusOK(k)
          BY <1>1, <2>1, <3>1 DEF Base, ProgramOK, NodeOK, StatusesOK
        <4> QED BY <1>1, <3>1, <4>1 DEF StatusOK
      <3> QED BY <3>1 DEF IsUnresolved
    <2>6. Options(j) <= MaxOptions
      BY <1>1, <2>1 DEF StatusOK
    <2>7. Image(Judgment(j).dependencies) \subseteq DOMAIN questions
      <3>1. ASSUME NEW d \in Image(Judgment(j).dependencies) PROVE d \in DOMAIN questions
        <4>1. Judge(d) \in Links(n.id)
          BY <1>1 DEF Links
        <4>2. Image(Judgment(j).dependencies) \subseteq DOMAIN definition.judgments
          BY <1>1, <2>2 DEF Base, ArgumentsOK, WellDefined, JudgmentsDefined, Judgment
        <4>3. d \in Judgments
          BY <1>1, <4>2 DEF Base, ArgumentsOK, WellDefined, FieldsTyped
        <4> QED BY <1>1, <2>1, <4>1, <4>3 DEF StatusesOK
      <3> QED BY <3>1
    <2>8. DirectRefusal(j, given.snapshots, DOMAIN questions) = "none" <=> CandidatesUsable(j)
      <3>1. CASE set = NoProvider
        <4>1. Judgment(j).options <= MaxOptions
          BY <2>6, <3>1 DEF Options
        <4> QED BY <2>7, <3>1, <4>1 DEF DirectRefusal, CandidatesUsable
      <3>2. CASE set # NoProvider /\ ~ Supplied(set)
        BY <2>7, <3>2, SMTT(30) DEF DirectRefusal, CandidatesUsable, Supplied
      <3>3. CASE set # NoProvider /\ Supplied(set)
        <4>1. given.snapshots[set].failed \in BOOLEAN /\ given.snapshots[set].size \in Nat
          BY <1>1, <2>2, <3>3, OptionsTyped DEF Base, Supplied
        <4>2. given.snapshots[set].size + 1 <= MaxOptions
          BY <2>6, <3>3 DEF Options
        <4>3. ~ (given.snapshots[set].size + 1 > MaxOptions)
              /\ (given.snapshots[set].size = 0 <=> ~ (given.snapshots[set].size > 0))
          BY <4>1, <4>2, OptionsAssumption
        <4> QED BY <2>7, <3>3, <4>1, <4>3 DEF DirectRefusal, CandidatesUsable, Supplied
      <3> QED BY <3>1, <3>2, <3>3
    <2> QED BY <2>4, <2>5, <2>8
  <1>2. Base /\ StatusesOK => AgreesWithDirect
    BY <1>1 DEF AgreesWithDirect
  <1> QED BY BaseStarts, BaseGoesOn, FreshStarts, FreshGoesOn, StatusesStart, StatusesGoOn, <1>2, PTL DEF Spec

-----------------------------------------------------------------------------
(* The second compilation of a run. *)

\* What the completion needs in the second compilation was in the first program.
LEMMA NeededEarlier ==
  ASSUME Base, Settled
  PROVE  Needed \subseteq earlier
  <1>1. Complete \in earlier /\ LinksOf(earlier) \subseteq earlier
    BY DEF Settled, LinksOf
  <1>2. ArgumentsOK
    BY DEF Base
  <1>3. \A C : Complete \in C /\ LinksOf(C) \subseteq C => Needed \subseteq C
    BY <1>2, NeededClosed
  <1> QED BY <1>1, <1>3

\* Nothing in it needs itself: a node comes before those that link to it.
LEMMA NoCycleLeft ==
  ASSUME Base, Settled, NEW id \in Needed, id \in ReachedFrom(Links(id))
  PROVE  FALSE
  <1>1. PICK rank \in [earlier -> Nat] : Ranked(rank)
    BY DEF Settled
  <1>2. id \in earlier /\ id \in AllNodes /\ Exists(id) /\ Links(id) \subseteq earlier
    BY NeededEarlier DEF Settled
  <1> DEFINE C == {x \in earlier : rank[x] < rank[id]}
  <1>3. Links(id) \subseteq C
    BY <1>1, <1>2 DEF Ranked
  <1>4. LinksOf(C) \subseteq C
    <2>1. ASSUME NEW x \in C, NEW d \in Links(x) PROVE d \in C
      <3>1. d \in earlier /\ rank[d] < rank[x] /\ rank[x] < rank[id]
        BY <1>1, <2>1 DEF Ranked, Settled
      <3>2. rank[d] \in Nat /\ rank[x] \in Nat /\ rank[id] \in Nat
        BY <1>1, <1>2, <3>1
      <3>3. rank[d] < rank[id]
        BY <3>1, <3>2
      <3> QED BY <3>1, <3>3
    <2> HIDE DEF C
    <2> QED BY <2>1 DEF LinksOf
  <1>5. WellDefined(definition) /\ given.revision \in Seq(Tools)
    BY DEF Base, ArgumentsOK
  <1>6. Links(id) \in SUBSET AllNodes
    BY <1>2, <1>5, LinksInside
  <1> HIDE DEF C
  <1>7. ReachedFrom(Links(id)) \subseteq C
    BY <1>3, <1>4, <1>5, <1>6, Reached
  <1>8. rank[id] \in Nat /\ id \in C
    BY <1>1, <1>2, <1>7
  <1> QED BY <1>8 DEF C

\* No reference is refused, for itself or for a cycle.
LEMMA NothingRefused ==
  ASSUME Base, Settled, \A p \in DOMAIN given.snapshots : given.snapshots[p].matches, Refuse
  PROVE  FALSE
  <1>1. outcome = "compiling" /\ Top.agenda # <<>> /\ Refusal(Reference) # "none"
    BY DEF Refuse
  <1>2. Reference \in Wanted(Top.node) /\ Reference.kind \in ItemKinds
    BY <1>1, OnReference
  <1>3. Top.node \in earlier
    <2>1. Top.node \in Open
      BY <1>1, OnTop
    <2> QED BY <2>1, NeededEarlier DEF Base, ProgramOK
  <1>4. Fine(Top.node, Reference)
    BY <1>2, <1>3 DEF Settled
  <1>5. ReferenceRefusal(Reference) = "none"
    <2> DEFINE x == Reference
    <2>1. CASE x.kind = "binding"
      <3>1. BindingRefusal(Tool(Top.node[2]).bindings[x.ref]) = "none"
        BY <1>4, <2>1 DEF Fine
      <3> QED BY <2>1, <3>1 DEF ReferenceRefusal
    <2>2. CASE x.kind # "binding"
      <3>1. ~ (x.kind = "need" /\ ~ IsAvailable(x) /\ NodesFor(x) = {})
        BY <1>4 DEF Fine
      <3>2. ~ (x.kind = "need" /\ Cardinality(NodesFor(x)) > 1)
        <4>1. x.kind = "need" => NodesFor(x) = {} \/ \E n : NodesFor(x) = {n}
          BY <1>4 DEF Fine, NodesFor
        <4>2. Cardinality({}) = 0 /\ \A n : Cardinality({n}) = 1
          BY FS_EmptySet, FS_Singleton
        <4>3. ASSUME x.kind = "need" PROVE Cardinality(NodesFor(x)) = 0 \/ Cardinality(NodesFor(x)) = 1
          BY <4>1, <4>2, <4>3
        <4> QED BY <4>3
      <3>3. ~ (x.kind = "candidates" /\ ~ Registered(x.ref))
        BY <1>4 DEF Fine
      <3> QED BY <2>2, <3>1, <3>2, <3>3 DEF ReferenceRefusal
    <2> QED BY <2>1, <2>2
  <1>6. Refusal(Reference) = "dependency_cycle"
    BY <1>1, <1>5 DEF Refusal
  <1>7. PICK id \in Needed : id \in ReachedFrom(Links(id))
    BY <1>6, CycleFound
  <1> QED BY <1>7, NoCycleLeft

LEMMA OnlyLimitsRefuse ==
  ASSUME Base, Settled, DOMAIN given.routes = {}, RefuseClose
  PROVE  outcome' = "limit_exceeded"
  <1>1. outcome = "compiling" /\ outcome' = CloseRefusal /\ CloseRefusal # "none"
    BY DEF RefuseClose
  <1>2. Top.node \in earlier
    <2>1. Top.node \in Open
      BY <1>1, OnTop
    <2> QED BY <2>1, NeededEarlier DEF Base, ProgramOK
  <1>3. GroupsSafe(Top.node)
    BY <1>2 DEF Settled
  <1>4. ~ RoutesClash
    BY DEF RoutesClash, RoutingOf
  <1> QED BY <1>1, <1>3, <1>4 DEF CloseRefusal, GroupsSafe

\* The program that is compiled again is complete and in order.
LEMMA ProgramSettled ==
  ASSUME Base, outcome = "compiled"
  PROVE  /\ Complete \in Done
         /\ \A id \in Done :
              /\ id \in AllNodes /\ Exists(id) /\ Links(id) \subseteq Done
              /\ \A x \in Wanted(id) : Fine(id, x)
              /\ GroupsSafe(id)
         /\ \E rank \in [Done -> Nat] :
              \A id \in Done : \A d \in Links(id) : rank[d] < rank[id]
  <1>1. Complete \in Done
    BY DEF Base, ProgramOK
  <1>2. ASSUME NEW id \in Done
        PROVE  /\ id \in AllNodes /\ Exists(id) /\ Links(id) \subseteq Done
               /\ \A x \in Wanted(id) : Fine(id, x)
               /\ GroupsSafe(id)
    <2>1. PICK n \in Image(nodes) : n.id = id
      BY DEF Done
    <2>2. NodeOK(n) /\ n.depends \subseteq Done
      BY DependsInside DEF Base, ProgramOK
    <2> QED BY <2>1, <2>2 DEF NodeOK
  <1>3. \E rank \in [Done -> Nat] : \A id \in Done : \A d \in Links(id) : rank[d] < rank[id]
    <2> DEFINE At(id) == {i \in DOMAIN nodes : nodes[i].id = id}
               rank == [id \in Done |-> CHOOSE i \in At(id) : \A k \in At(id) : i <= k]
    <2>1. DOMAIN nodes = 1..Len(nodes) /\ Len(nodes) \in Nat /\ ProgramOrdered
      BY DEF Base, WalkOK
    <2>2. ASSUME NEW id \in Done
          PROVE  rank[id] \in At(id) /\ \A k \in At(id) : rank[id] <= k
      <3>1. At(id) # {}
        BY DEF Done, Image
      <3>2. At(id) \in SUBSET Nat
        BY <2>1
      <3> HIDE DEF At
      <3>3. \E i \in At(id) : \A k \in At(id) : i <= k
        BY <3>1, <3>2, LeastNumber
      <3> QED BY <3>3
    <2>3. rank \in [Done -> Nat]
      BY <2>1, <2>2
    <2> HIDE DEF rank
    <2>4. ASSUME NEW id \in Done, NEW d \in Links(id) PROVE rank[d] < rank[id]
      <3> DEFINE i == rank[id]
      <3>1. i \in DOMAIN nodes /\ nodes[i].id = id /\ d \in Done
        BY <1>2, <2>2
      <3>2. nodes[i].depends = Links(id)
        BY <3>1 DEF Base, ProgramOK, NodeOK, Image
      <3>3. nodes[i].depends \subseteq {nodes[k].id : k \in 1..(i - 1)}
        BY <2>1, <3>1 DEF ProgramOrdered
      <3>4. PICK k \in 1..(i - 1) : nodes[k].id = d
        BY <3>2, <3>3
      <3>5. k \in DOMAIN nodes /\ k < i
        BY <2>1, <3>1, <3>4
      <3>6. rank[d] <= k /\ rank[d] \in Nat
        BY <2>2, <2>3, <3>1, <3>4, <3>5
      <3> HIDE DEF i
      <3>7. rank[d] < i
        BY <2>1, <3>1, <3>5, <3>6
      <3> QED BY <3>7 DEF i
    <2> QED BY <2>3, <2>4
  <1> QED BY <1>1, <1>2, <1>3

LEMMA RecompilingSettles ==
  ASSUME Base, Recompile
  PROVE  SecondOK'
  <1>1. /\ outcome = "compiled" /\ given.routes = [j \in {} |-> j]
        /\ outcome' = "called" /\ definition' = definition /\ earlier' = Done
    BY DEF Recompile
  <1>2. PICK added \in SUBSET Evidence,
             snapshots \in [{p \in Providers : Retrieve(p) \in Done} -> {s \in Snapshots : s.matches}] :
          given' = [given EXCEPT !.available = @ \cup added, !.snapshots = snapshots]
    BY DEF Recompile
  <1>3. /\ given'.available = given.available \cup added /\ given'.snapshots = snapshots
        /\ given'.supplied = given.supplied /\ given'.routes = given.routes
        /\ given'.revision = given.revision /\ given'.steps = given.steps
    <2>1. given = Request(given.available, given.snapshots, given.supplied, given.routes,
                          given.revision, given.steps)
      BY DEF Base, ArgumentsOK
    <2> QED BY <1>2, <2>1 DEF Request
  <1>4. DOMAIN given'.routes = {} /\ \A p \in DOMAIN given'.snapshots : given'.snapshots[p].matches
    <2>1. DOMAIN given'.routes = {}
      BY <1>1, <1>3
    <2>2. \A p \in DOMAIN snapshots : snapshots[p].matches
      OBVIOUS
    <2> QED BY <1>3, <2>1, <2>2
  <1>5. CallRefusal' = "none"
    <2>1. CallRefusal = "none"
      BY <1>1 DEF Base, ArgumentsOK
    <2>2. DOMAIN given'.snapshots \subseteq DOMAIN definition.providers
      <3>1. ASSUME NEW p \in Providers, Retrieve(p) \in Done PROVE p \in DOMAIN definition.providers
        <4>1. Exists(Retrieve(p))
          BY <1>1, <3>1, ProgramSettled
        <4> QED BY <4>1, NodeParts DEF Exists, Registered
      <3> QED BY <1>3, <3>1
    <2>3. /\ ~ (\/ Len(given.revision) > given.steps
                \/ Cardinality(Image(given.revision)) # Len(given.revision))
          /\ Image(given.revision) \subseteq DOMAIN definition.tools
          /\ DOMAIN given.routes \subseteq DOMAIN definition.judgments
          /\ Cardinality(Image(given.routes)) = Cardinality(DOMAIN given.routes)
          /\ ~ (definition.scalar /\ definition.results # <<>>)
          /\ ~ (/\ ~ definition.scalar /\ definition.results # <<>>
                /\ {r.field : r \in Image(definition.results)} # definition.fields)
      BY <2>1 DEF CallRefusal
    <2> QED BY <1>1, <1>3, <2>2, <2>3 DEF CallRefusal, Image
  <1>6. \A refs : NeedLinks(refs)' \subseteq NeedLinks(refs)
    <2>1. \A ref : ProducingNodes(ref)' = ProducingNodes(ref)
      BY <1>1 DEF ProducingNodes, Producers, Registered, Tool
    <2> QED BY <1>3, <2>1 DEF NeedLinks
  <1>7. \A id : Links(id)' \subseteq Links(id)
    <2>1. \A t, i : BindingLinks(t, i)' \subseteq BindingLinks(t, i)
      BY <1>1, <1>6 DEF BindingLinks, Tool, Retrieve, Judge, Invoke, Derive, Node
    <2> SUFFICES ASSUME NEW id PROVE Links(id)' \subseteq Links(id)
      OBVIOUS
    <2>2. CASE id[1] = "judge"
      BY <1>1, <1>6, <2>2 DEF Links, Judgment, Judge, Retrieve, Node
    <2>3. CASE id[1] = "invoke"
      <3> DEFINE B == UNION {BindingLinks(id[2], i) : i \in DOMAIN Tool(id[2]).bindings}
                 R == NeedLinks(Image(Tool(id[2]).requires))
      <3>1. Links(id) = R \cup B /\ Links(id)' = R' \cup B'
        BY <2>3 DEF Links
      <3>2. B' \subseteq B
        BY <1>1, <2>1 DEF Tool
      <3>3. R' \subseteq R
        BY <1>1, <1>6, SMTT(30) DEF Tool, Image
      <3> HIDE DEF B, R
      <3> QED BY <3>1, <3>2, <3>3
    <2>4. CASE id[1] = "derive"
      BY <1>1, <1>6, <2>4 DEF Links, Tool, Invoke, Node, Image
    <2>5. CASE id[1] = "complete"
      BY <1>1, <1>3, <1>6, <2>5 DEF Links, Results, Invoke, Node, Image
    <2>6. CASE id[1] \notin {"judge", "invoke", "derive", "complete"}
      BY <2>6 DEF Links
    <2> QED BY <2>2, <2>3, <2>4, <2>5, <2>6
  <1>8. /\ AllNodes' = AllNodes /\ \A id : Exists(id)' <=> Exists(id)
        /\ \A id : Wanted(id)' = Wanted(id)
        /\ \A id : GroupsSafe(id)' <=> GroupsSafe(id)
    <2>1. AllNodes' = AllNodes
      BY <1>1 DEF AllNodes, Derivations, Tool
    <2>2. \A id : Exists(id)' <=> Exists(id)
      BY <1>1 DEF Exists, Registered
    <2>3. \A id : Wanted(id)' = Wanted(id)
      BY <1>1, <1>3 DEF Wanted, Expanded, RefsOf, AgendaOf, JudgmentAgenda, ToolAgenda, CompletionAgenda,
             Judgment, Tool, Results
    <2>4. \A id : GroupsSafe(id)' <=> GroupsSafe(id)
      BY <1>1 DEF GroupsSafe, GroupUnsafe, Tool
    <2> QED BY <2>1, <2>2, <2>3, <2>4
  <1>9. \A id, x : Fine(id, x) => Fine(id, x)'
    <2>1. \A b : BindingRefusal(b)' = BindingRefusal(b)
      BY <1>1 DEF BindingRefusal, Registered, Judgment, Tool
    <2>2. \A x : IsAvailable(x) => IsAvailable(x)'
      BY <1>3 DEF IsAvailable
    <2>3. \A x : x.kind = "need" => IsAvailable(x)' \/ NodesFor(x)' = NodesFor(x)
      BY <1>1, <2>2 DEF NodesFor, ProducingNodes, Producers, Registered, Tool
    <2> QED BY <1>1, <2>1, <2>2, <2>3 DEF Fine, Tool, Registered
  <1>10. Settled'
    <2> DEFINE old == Done
    <2>1. /\ Complete \in old
          /\ \A id \in old :
               /\ id \in AllNodes /\ Exists(id) /\ Links(id) \subseteq old
               /\ \A x \in Wanted(id) : Fine(id, x)
               /\ GroupsSafe(id)
          /\ \E rank \in [old -> Nat] :
               \A id \in old : \A d \in Links(id) : rank[d] < rank[id]
      BY <1>1, ProgramSettled
    <2>2. PICK rank \in [old -> Nat] : \A id \in old : \A d \in Links(id) : rank[d] < rank[id]
      BY <2>1
    <2> HIDE DEF old
    <2>3. earlier' = old
      BY <1>1 DEF old
    <2>4. Ranked(rank)'
      BY <1>7, <2>2, <2>3 DEF Ranked
    <2>5. \A id \in old :
            /\ id \in AllNodes' /\ Exists(id)' /\ Links(id)' \subseteq old
            /\ \A x \in Wanted(id)' : Fine(id, x)'
            /\ GroupsSafe(id)'
      BY <1>7, <1>8, <1>9, <2>1
    <2>6. Complete' \in earlier'
      BY <2>1, <2>3 DEF Complete, Node
    <2>7. \E r \in [earlier' -> Nat] : Ranked(r)'
      BY <2>3, <2>4
    <2> QED BY <2>3, <2>5, <2>6, <2>7 DEF Settled
  <1> QED BY <1>1, <1>4, <1>5, <1>10 DEF SecondOK

LEMMA SettledKept ==
  ASSUME definition' = definition, given' = given, earlier' = earlier
  PROVE  Settled => Settled'
  <1>1. \A id : GroupsSafe(id)' <=> GroupsSafe(id)
    BY DEF GroupsSafe, GroupUnsafe, Tool
  <1>2. \A rank : Ranked(rank)' <=> Ranked(rank)
    BY SameArguments DEF Ranked
  <1>3. Complete' = Complete
    BY DEF Complete, Node
  <1> QED BY <1>1, <1>2, <1>3, SameArguments DEF Settled

LEMMA SecondGoesOn ==
  ASSUME Base, SecondOK, [Next]_vars
  PROVE  SecondOK'
  <1>1. ASSUME definition' = definition, given' = given, earlier' = earlier,
               earlier # {} => outcome' \in {"called", "compiling", "compiled", "limit_exceeded"}
        PROVE  SecondOK'
    <2>1. CallRefusal' = CallRefusal
      BY <1>1 DEF CallRefusal, Image
    <2>2. Settled => Settled'
      BY <1>1, SettledKept
    <2> QED BY <1>1, <2>1, <2>2 DEF SecondOK
  <1>2. CASE UNCHANGED vars
    BY <1>1, <1>2 DEF vars, SecondOK
  <1>3. CASE Call
    BY <1>1, <1>3 DEF Call, SecondOK
  <1>4. CASE Refuse
    <2>1. earlier = {}
      BY <1>4, NothingRefused DEF SecondOK
    <2> QED BY <1>1, <1>4, <2>1 DEF Refuse
  <1>5. CASE RefuseClose
    <2>1. earlier # {} => outcome' = "limit_exceeded"
      BY <1>5, OnlyLimitsRefuse DEF SecondOK
    <2> QED BY <1>1, <1>5, <2>1 DEF RefuseClose
  <1>6. CASE SkipAvailable \/ MeetNode \/ VisitProvider \/ OpenVisit \/ Bind
    <2>1. /\ definition' = definition /\ given' = given /\ earlier' = earlier
          /\ outcome' = outcome /\ outcome = "compiling"
      BY <1>6 DEF SkipAvailable, MeetNode, VisitProvider, OpenVisit, Bind, Resolving
    <2> QED BY <1>1, <2>1
  <1>7. CASE CloseVisit
    BY <1>1, <1>7 DEF CloseVisit
  <1>8. CASE Recompile
    BY <1>8, RecompilingSettles
  <1> QED BY <1>2, <1>3, <1>4, <1>5, <1>6, <1>7, <1>8 DEF Next

\* What a run learns between its two compilations only shortens the program, and
\* only the number of candidates can make the second one fail (Runtime.run).
THEOREM SecondProgramsAreShorter == Spec => []RecompilationOnlyShortens
  <1>1. Init => SecondOK
    BY DEF Init, Start, SecondOK
  <1>2. Base /\ SecondOK => RecompilationOnlyShortens
    BY NeededEarlier DEF Base, ProgramOK, SecondOK, RecompilationOnlyShortens
  <1> QED BY BaseStarts, BaseGoesOn, <1>1, SecondGoesOn, <1>2, PTL DEF Spec
=============================================================================
