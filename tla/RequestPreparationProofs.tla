--------------------- MODULE RequestPreparationProofs ---------------------
(***************************************************************************)
(* Proofs about the preparation of requests (RequestPreparation), for      *)
(* every resource, every sequence of rows, every payload and every set of  *)
(* late keys; then, over the same lists and templates, about the warning   *)
(* of the static analysis on adjacent path parameters (StaticAnalysis) and *)
(* about the pushdown of a query into parameters (QueryPushdown).          *)
(***************************************************************************)
EXTENDS RequestPreparation, QueryPushdown, StaticAnalysis, FiniteSetTheorems, TLAPS, WellFoundedInduction

IsList(s) == s \in Seq({s[i] : i \in DOMAIN s})

(* The parameters a split row is built from, after both passes.            *)
Settled(split) == SecondPass(Op, FirstPass(split))

(* A request is what its row makes it: built without a failure from one of *)
(* the row's splits, and on the wire nothing but that or the pushdown.     *)
BuiltFrom(r, row) ==
    \E split \in Splits(Op, row) :
        /\ r = [params |-> r.params, wire |-> r.wire, body |-> r.body, typed |-> r.typed, url |-> r.url]
        /\ r.params = Settled(split) /\ Failure(Op, r.params) = None
        /\ r.body = MarshalledBody(Op, r.params)
        /\ DOMAIN OnTheWire(Op, r.params) \subseteq DOMAIN r.wire
        /\ \A s \in DOMAIN r.wire :
              \/ r.wire[s] = <<s[2], "pushdown">>
              \/ s \in DOMAIN OnTheWire(Op, r.params) /\ r.wire[s] = OnTheWire(Op, r.params)[s]

Lists == IsList(rows) /\ IsList(stream) /\ IsList(built) /\ IsList(todo) /\ IsList(armoury)

(* Where the preparation stands.                                           *)
Place ==
    /\ resource \in Resources /\ rows # <<>>
    /\ stage \in {"select", "split", "build", "built", "failed"}
    /\ stage \in {"split", "build", "built"} => method \in DOMAIN resource.methods
    /\ stage # "failed" => failure = None
    /\ stage \in {"select", "failed"} => armoury = <<>>
    /\ annotated /\ stage \in {"select", "split"} => stream \in {rows, <<>>}
    /\ stage \in {"build", "built"} => stream = <<>>
    /\ stage \in {"build", "built"} => built = rows \/ (annotated /\ built = <<>>)

(* The requests built and the rows left make up the rows; each request is  *)
(* its own row's.                                                          *)
RowByRow ==
    /\ Len(armoury) <= Len(built)
    /\ stage = "build" => Len(built) = Len(armoury) + Len(todo)
    /\ stage = "build" => \A j \in DOMAIN todo : todo[j] \in Splits(Op, built[Len(armoury) + j])
    /\ stage = "built" => Len(armoury) = Len(built)
    /\ \A i \in DOMAIN armoury : BuiltFrom(armoury[i], built[i])

(* Only the first row has late values, and those of the late keys.         *)
LateInFirst ==
    /\ \A k \in late : k \in DOMAIN rows[1]
    /\ \A i \in DOMAIN rows : \A k \in DOMAIN rows[i] :
          rows[i][k] = IF i = 1 /\ k \in late THEN "late" ELSE "early"

(* A failure is that of the selection, or of some row.                     *)
FailsForCause ==
    stage = "failed" =>
        \/ failure = "no method" /\ method = None
             /\ \A i \in GetMethodsForSQLVerb(resource, Verb) :
                   ~ParameterMatch(resource.methods[MethodKeys(resource, Verb)[i]], DOMAIN rows[1])
        \/ /\ method \in DOMAIN resource.methods
           /\ \E i \in DOMAIN rows : \E split \in Splits(Op, rows[i]) : failure = Failure(Op, Settled(split))

IInv == Lists /\ Place /\ RowByRow /\ LateInFirst /\ FailsForCause

-----------------------------------------------------------------------------
(* A nonempty set of naturals has a least element.                         *)
LEMMA LeastElement ==
    ASSUME NEW S, S \subseteq Nat, S # {}
    PROVE  \E i \in S : \A j \in S : i <= j
<1> DEFINE R == OpToRel(<, Nat)
<1>1. IsWellFoundedOn(R, Nat)
  BY NatLessThanWellFounded
<1> HIDE DEF R
<1>2. PICK i \in S : \A j \in S : <<j, i>> \notin R
  BY <1>1, WFMin
<1>3. \A j \in S : ~(j < i)
  BY <1>2 DEF R, OpToRel
<1> QED
  BY <1>3

(* Lists stay lists when they grow by one, lose their first element or are *)
(* rewritten element by element.                                           *)
LEMMA ListAppend ==
    ASSUME NEW s, IsList(s), NEW e
    PROVE  /\ IsList(Append(s, e)) /\ Len(Append(s, e)) = Len(s) + 1 /\ Len(s) \in Nat
           /\ DOMAIN s = 1 .. Len(s) /\ DOMAIN Append(s, e) = 1 .. (Len(s) + 1)
           /\ \A i \in 1 .. Len(s) : Append(s, e)[i] = s[i]
           /\ Append(s, e)[Len(s) + 1] = e
<1> DEFINE S == {s[i] : i \in DOMAIN s} \cup {e}
<1>1. s \in Seq(S) /\ e \in S
  BY DEF IsList
<1>2. Append(s, e) \in Seq(S)
  BY <1>1
<1>3. /\ Len(Append(s, e)) = Len(s) + 1 /\ Len(s) \in Nat
      /\ DOMAIN s = 1 .. Len(s) /\ DOMAIN Append(s, e) = 1 .. (Len(s) + 1)
      /\ \A i \in 1 .. Len(s) : Append(s, e)[i] = s[i]
      /\ Append(s, e)[Len(s) + 1] = e
  BY <1>1
<1>4. S \subseteq {Append(s, e)[i] : i \in DOMAIN Append(s, e)}
  <2>1. ASSUME NEW i \in DOMAIN s PROVE s[i] \in {Append(s, e)[j] : j \in DOMAIN Append(s, e)}
    <3>1. i \in DOMAIN Append(s, e) /\ Append(s, e)[i] = s[i]
      BY <1>3
    <3> QED BY <3>1
  <2>2. e \in {Append(s, e)[j] : j \in DOMAIN Append(s, e)}
    <3>1. Len(s) + 1 \in DOMAIN Append(s, e)
      BY <1>3
    <3> QED BY <3>1, <1>3
  <2> QED BY <2>1, <2>2
<1>5. IsList(Append(s, e))
  BY <1>2, <1>4 DEF IsList
<1> QED BY <1>3, <1>5

LEMMA ListByElement ==
    ASSUME NEW n \in Nat, NEW s, DOMAIN s = 1 .. n, s = [i \in DOMAIN s |-> s[i]]
    PROVE  IsList(s) /\ Len(s) = n
<1> DEFINE S == {s[i] : i \in DOMAIN s}
<1>1. s \in [1 .. n -> S]
  OBVIOUS
<1> HIDE DEF S
<1>2. s \in Seq(S) /\ Len(s) = n
  BY <1>1
<1> QED BY <1>2 DEF IsList, S

LEMMA ListOfSeq ==
    ASSUME NEW S, NEW s \in Seq(S)
    PROVE  IsList(s)
<1>1. Len(s) \in Nat /\ DOMAIN s = 1 .. Len(s) /\ s = [i \in DOMAIN s |-> s[i]]
  OBVIOUS
<1> QED BY <1>1, ListByElement

LEMMA ListTail ==
    ASSUME NEW s, IsList(s), s # <<>>
    PROVE  /\ IsList(Tail(s)) /\ Len(Tail(s)) = Len(s) - 1 /\ Len(s) \in Nat \ {0}
           /\ DOMAIN s = 1 .. Len(s) /\ DOMAIN Tail(s) = 1 .. (Len(s) - 1)
           /\ Head(s) = s[1]
           /\ \A i \in 1 .. (Len(s) - 1) : Tail(s)[i] = s[i + 1]
<1> DEFINE S == {s[i] : i \in DOMAIN s}
<1>1. s \in Seq(S)
  BY DEF IsList
<1> HIDE DEF S
<1>2. Tail(s) \in Seq(S) /\ Len(Tail(s)) = Len(s) - 1 /\ Len(s) \in Nat \ {0}
  BY <1>1
<1>3. DOMAIN s = 1 .. Len(s) /\ DOMAIN Tail(s) = 1 .. (Len(s) - 1) /\ Head(s) = s[1]
  BY <1>1, <1>2
<1>4. \A i \in 1 .. (Len(s) - 1) : Tail(s)[i] = s[i + 1]
  BY <1>1, <1>2
<1>5. IsList(Tail(s))
  BY <1>2, ListOfSeq
<1> QED BY <1>2, <1>3, <1>4, <1>5

LEMMA ListDomain ==
    ASSUME NEW s, IsList(s)
    PROVE  DOMAIN s = 1 .. Len(s) /\ Len(s) \in Nat /\ (s = <<>> <=> Len(s) = 0) /\ s = [i \in DOMAIN s |-> s[i]]
  BY DEF IsList

LEMMA EmptyList == IsList(<<>>) /\ Len(<<>>) = 0 /\ DOMAIN <<>> = {}
  BY DEF IsList

-----------------------------------------------------------------------------
(* What a row makes of a request, and what a failure is, depends on the    *)
(* inputs and the method alone.                                            *)
LEMMA BuiltFromStable ==
    ASSUME UNCHANGED <<inputs, method>>
    PROVE  /\ Op' = Op
           /\ \A r, row : BuiltFrom(r, row)' <=> BuiltFrom(r, row)
           /\ \A split : Failure(Op, Settled(split))' = Failure(Op, Settled(split))
<1>1. resource' = resource /\ method' = method /\ payload' = payload /\ annotated' = annotated
  BY DEF inputs
<1>2. Op' = Op
  BY <1>1 DEF Op
<1>3. \A split : Settled(split)' = Settled(split)
  BY <1>1, <1>2 DEF Settled, SecondPass, FirstPass
<1>4. \A params : Failure(Op, params)' = Failure(Op, params)
  BY <1>1, <1>2 DEF Failure, Routable
<1>5. \A r, row : BuiltFrom(r, row)' <=> BuiltFrom(r, row)
  BY <1>2, <1>3, <1>4 DEF BuiltFrom
<1>6. \A split : Failure(Op, Settled(split))' = Failure(Op, Settled(split))
  BY <1>1, <1>2, <1>3 DEF Failure, Routable
<1> QED BY <1>2, <1>5, <1>6

(* Absent is selected only when no method of the verb fits.               *)
LEMMA NoneSelected ==
    ASSUME NEW owner \in Resources, NEW given
    PROVE  LET m == GetFirstMatch(owner, Verb, given) IN
           /\ m = None => \A i \in GetMethodsForSQLVerb(owner, Verb) :
                             ~ParameterMatch(owner.methods[MethodKeys(owner, Verb)[i]], given)
           /\ m # None => m \in DOMAIN owner.methods
<1> DEFINE keys == MethodKeys(owner, Verb)
           fits == {i \in GetMethodsForSQLVerb(owner, Verb) : ParameterMatch(owner.methods[keys[i]], given)}
<1>1. GetFirstMatch(owner, Verb, given) =
        IF fits = {} THEN None ELSE keys[CHOOSE i \in fits : \A j \in fits : i <= j]
  BY DEF GetFirstMatch
<1>2. CASE fits = {}
  BY <1>1, <1>2
<1>3. CASE fits # {}
  <2>1. fits \subseteq Nat
    BY ResourcesAssumption DEF GetMethodsForSQLVerb
  <2>2. \E i \in fits : \A j \in fits : i <= j
    BY <1>3, <2>1, LeastElement
  <2>3. (CHOOSE i \in fits : \A j \in fits : i <= j) \in fits
    BY <2>2
  <2>4. GetFirstMatch(owner, Verb, given) \in DOMAIN owner.methods
    BY <1>1, <1>3, <2>3 DEF GetMethodsForSQLVerb
  <2>5. None \notin DOMAIN owner.methods
    BY ResourcesAssumption
  <2> QED BY <2>4, <2>5
<1> QED BY <1>2, <1>3

LEMMA InvInit == Init => IInv
<1> SUFFICES ASSUME Init PROVE IInv
  OBVIOUS
<1> USE DEF Init
<1>1. Lists
  BY RowsAssumption, EmptyList DEF Lists, IsList
<1>2. Place
  BY RowsAssumption DEF Place
<1>3. RowByRow
  BY EmptyList DEF RowByRow
<1>4. LateInFirst
  BY RowsAssumption DEF LateInFirst
<1>5. FailsForCause
  BY DEF FailsForCause
<1> QED BY <1>1, <1>2, <1>3, <1>4, <1>5 DEF IInv

LEMMA SelectMethodKeeps == IInv /\ SelectMethod => IInv'
<1> SUFFICES ASSUME IInv, SelectMethod PROVE IInv'
  OBVIOUS
<1> USE DEF IInv, SelectMethod
<1> DEFINE m == GetFirstMatch(resource, Verb, DOMAIN rows[1])
<1>0. /\ m = None => \A i \in GetMethodsForSQLVerb(resource, Verb) :
                        ~ParameterMatch(resource.methods[MethodKeys(resource, Verb)[i]], DOMAIN rows[1])
      /\ m # None => m \in DOMAIN resource.methods
  BY NoneSelected DEF Place
<1>u. resource' = resource /\ rows' = rows
  BY DEF inputs
<1> HIDE DEF IInv
<1>1. Lists'
  BY DEF Lists, IsList, IInv
<1>2. Place'
  BY <1>0, <1>u DEF Place, IInv, inputs
<1>3. RowByRow'
  BY EmptyList DEF RowByRow, Place, Lists, IInv
<1>4. LateInFirst'
  BY DEF LateInFirst, IInv
<1>5. FailsForCause'
  BY <1>0, <1>u DEF FailsForCause, Place, IInv
<1> QED BY <1>1, <1>2, <1>3, <1>4, <1>5 DEF IInv

LEMMA SplitKeeps == IInv /\ SplitHTTPParameters => IInv'
<1> SUFFICES ASSUME IInv, SplitHTTPParameters PROVE IInv'
  OBVIOUS
<1> DEFINE from == IF annotated THEN stream ELSE rows
<1>u. UNCHANGED <<inputs, method>> /\ rows' = rows /\ late' = late /\ failure' = failure /\ resource' = resource
      /\ annotated' = annotated
  BY DEF SplitHTTPParameters, inputs
<1>f. IsList(from) /\ DOMAIN from = 1 .. Len(from) /\ Len(from) \in Nat
  BY ListDomain DEF IInv, Lists
<1>s. /\ stage = "split" /\ stage' = "build" /\ armoury' = <<>> /\ stream' = <<>> /\ built' = from
      /\ todo' \in [DOMAIN from -> UNION {Splits(Op, from[i]) : i \in DOMAIN from}]
      /\ \A i \in DOMAIN from : todo'[i] \in Splits(Op, from[i])
  BY DEF SplitHTTPParameters
<1>o. Op' = Op
  BY <1>u, BuiltFromStable
<1>t. IsList(todo') /\ Len(todo') = Len(from) /\ DOMAIN todo' = DOMAIN from
  <2>1. DOMAIN todo' = 1 .. Len(from) /\ todo' = [i \in DOMAIN todo' |-> todo'[i]]
    BY <1>f, <1>s
  <2> QED BY <2>1, <1>f, ListByElement
<1>1. Lists'
  <2>1. IsList(rows) BY DEF IInv, Lists
  <2>2. IsList(rows') /\ IsList(stream') /\ IsList(built') /\ IsList(todo') /\ IsList(armoury')
    BY <2>1, <1>u, <1>f, <1>s, <1>t, EmptyList
  <2> QED BY <2>2 DEF Lists, IsList
<1>2. Place'
  BY <1>u, <1>s DEF Place, IInv
<1>3. RowByRow'
  <2>1. Len(armoury') = 0 /\ DOMAIN armoury' = {}
    BY <1>s, EmptyList
  <2>2. \A j \in DOMAIN todo' : todo'[j] \in Splits(Op', built'[Len(armoury') + j])
    BY <1>s, <1>f, <1>t, <1>o, <2>1
  <2> QED BY <1>s, <1>f, <1>t, <2>1, <2>2 DEF RowByRow
<1>4. LateInFirst'
  BY <1>u DEF LateInFirst, IInv
<1>5. FailsForCause'
  BY <1>s DEF FailsForCause
<1> QED BY <1>1, <1>2, <1>3, <1>4, <1>5 DEF IInv

LEMMA BuildKeeps == IInv /\ BuildRequest => IInv'
<1> SUFFICES ASSUME IInv, BuildRequest PROVE IInv'
  OBVIOUS
<1> DEFINE params == Settled(Head(todo))
           why    == Failure(Op, params)
           req    == Request(Op, params, TypedBody(Op, Head(todo)))
           n      == Len(armoury)
<1>u. /\ UNCHANGED <<inputs, method>> /\ rows' = rows /\ late' = late /\ resource' = resource /\ method' = method
      /\ annotated' = annotated /\ built' = built /\ stream' = stream
  BY DEF BuildRequest, inputs
<1>s. stage = "build" /\ todo # <<>>
  BY DEF BuildRequest
<1>b. Op' = Op /\ (\A r, row : BuiltFrom(r, row)' <=> BuiltFrom(r, row))
      /\ \A split : Failure(Op, Settled(split))' = Failure(Op, Settled(split))
  BY <1>u, BuiltFromStable
<1>l. /\ IsList(rows) /\ IsList(stream) /\ IsList(built) /\ IsList(todo) /\ IsList(armoury)
      /\ IsList(Tail(todo)) /\ Len(Tail(todo)) = Len(todo) - 1 /\ Len(todo) \in Nat \ {0}
      /\ DOMAIN todo = 1 .. Len(todo) /\ DOMAIN Tail(todo) = 1 .. (Len(todo) - 1) /\ Head(todo) = todo[1]
      /\ \A i \in 1 .. (Len(todo) - 1) : Tail(todo)[i] = todo[i + 1]
      /\ n \in Nat /\ Len(built) \in Nat /\ DOMAIN built = 1 .. Len(built) /\ DOMAIN armoury = 1 .. n
  BY <1>s, ListTail, ListDomain DEF IInv, Lists
<1>h. Len(built) = n + Len(todo) /\ n + 1 \in DOMAIN built /\ Head(todo) \in Splits(Op, built[n + 1])
  BY <1>s, <1>l DEF IInv, RowByRow
<1>r. built = rows /\ method \in DOMAIN resource.methods
  BY <1>s, <1>h, <1>l, EmptyList DEF IInv, Place
<1>4. LateInFirst'
  BY <1>u DEF LateInFirst, IInv
<1>a. CASE why # None
  <2>s. stage' = "failed" /\ failure' = why /\ armoury' = <<>> /\ todo' = <<>>
    BY <1>a DEF BuildRequest, Fails, Settled
  <2>1. Lists'
    <3>1. IsList(rows') /\ IsList(stream') /\ IsList(built') /\ IsList(todo') /\ IsList(armoury')
      BY <1>u, <1>l, <2>s, EmptyList
    <3> QED BY <3>1 DEF Lists, IsList
  <2>2. Place'
    BY <1>u, <2>s DEF Place, IInv
  <2>3. RowByRow'
    BY <1>u, <1>l, <2>s, EmptyList DEF RowByRow
  <2>5. FailsForCause'
    <3>1. \E i \in DOMAIN rows : \E split \in Splits(Op, rows[i]) : why = Failure(Op, Settled(split))
      BY <1>h, <1>r
    <3>2. \E i \in DOMAIN rows' : \E split \in Splits(Op', rows'[i]) : failure' = Failure(Op, Settled(split))'
      BY <3>1, <1>u, <1>b, <2>s
    <3> QED BY <3>2, <1>r, <1>u DEF FailsForCause
  <2> QED BY <2>1, <2>2, <2>3, <1>4, <2>5 DEF IInv
<1>c. CASE why = None
  <2>s. armoury' = Append(armoury, req) /\ todo' = Tail(todo) /\ stage' = stage /\ failure' = failure
    BY <1>c DEF BuildRequest, Settled
  <2>l. /\ IsList(armoury') /\ Len(armoury') = n + 1 /\ DOMAIN armoury' = 1 .. (n + 1)
        /\ \A i \in 1 .. n : armoury'[i] = armoury[i]
        /\ armoury'[n + 1] = req
    BY <1>l, <2>s, ListAppend
  <2>q. BuiltFrom(req, built[n + 1])
    <3>1. /\ req.params = params /\ req.body = MarshalledBody(Op, params)
          /\ req.wire = OnTheWire(Op, params)
          /\ req = [params |-> req.params, wire |-> req.wire, body |-> req.body, typed |-> req.typed, url |-> req.url]
      BY DEF Request
    <3> QED BY <3>1, <1>h, <1>c DEF BuiltFrom
  <2>1. Lists'
    <3>1. IsList(rows') /\ IsList(stream') /\ IsList(built') /\ IsList(todo') /\ IsList(armoury')
      BY <1>u, <1>l, <2>s, <2>l
    <3> QED BY <3>1 DEF Lists, IsList
  <2>2. Place'
    BY <1>u, <1>s, <2>s DEF Place, IInv
  <2>3. RowByRow'
    <3>1. Len(armoury') <= Len(built') /\ Len(built') = Len(armoury') + Len(todo')
      BY <1>u, <1>l, <1>h, <2>s, <2>l
    <3>2. \A j \in DOMAIN todo' : todo'[j] \in Splits(Op', built'[Len(armoury') + j])
      <4> SUFFICES ASSUME NEW j \in DOMAIN todo' PROVE todo'[j] \in Splits(Op, built[n + 1 + j])
        BY <1>u, <1>b, <2>l
      <4>1. j \in 1 .. (Len(todo) - 1) /\ todo'[j] = todo[j + 1] /\ j + 1 \in DOMAIN todo
        BY <1>l, <2>s
      <4>2. todo[j + 1] \in Splits(Op, built[n + (j + 1)])
        BY <1>s, <4>1 DEF IInv, RowByRow
      <4>3. n + (j + 1) = n + 1 + j
        BY <4>1, <1>l
      <4> QED BY <4>1, <4>2, <4>3
    <3>3. \A i \in DOMAIN armoury' : BuiltFrom(armoury'[i], built[i])
      <4> SUFFICES ASSUME NEW i \in DOMAIN armoury' PROVE BuiltFrom(armoury'[i], built[i])
        OBVIOUS
      <4>1. CASE i \in 1 .. n
        BY <4>1, <2>l, <1>l DEF IInv, RowByRow
      <4>2. CASE i = n + 1
        BY <4>2, <2>l, <2>q
      <4> QED BY <4>1, <4>2, <2>l, <1>l
    <3>4. \A i \in DOMAIN armoury' : BuiltFrom(armoury[i], built[i])'
      BY <3>3, <1>b, <1>u
    <3> QED BY <1>s, <2>s, <3>1, <3>2, <3>4 DEF RowByRow
  <2>5. FailsForCause'
    BY <1>s, <2>s DEF FailsForCause
  <2> QED BY <2>1, <2>2, <2>3, <1>4, <2>5 DEF IInv
<1> QED BY <1>a, <1>c

LEMMA PushdownKeeps == IInv /\ ApplyPushdownToArmoury => IInv'
<1> SUFFICES ASSUME IInv, ApplyPushdownToArmoury PROVE IInv'
  OBVIOUS
<1> DEFINE pushed(w) == [s \in DOMAIN w \cup {<<"query", p>> : p \in pushdown} |->
                           IF s[1] = "query" /\ s[2] \in pushdown THEN <<s[2], "pushdown">> ELSE w[s]]
<1>u. /\ UNCHANGED <<inputs, method>> /\ rows' = rows /\ late' = late /\ resource' = resource
      /\ annotated' = annotated /\ built' = built /\ stream' = stream /\ method' = method
      /\ todo' = todo /\ failure' = failure
  BY DEF ApplyPushdownToArmoury, inputs
<1>s. stage = "build" /\ todo = <<>> /\ stage' = "built"
      /\ armoury' = [i \in DOMAIN armoury |-> [armoury[i] EXCEPT !.wire = pushed(@)]]
  BY DEF ApplyPushdownToArmoury
<1>b. \A r, row : BuiltFrom(r, row)' <=> BuiltFrom(r, row)
  BY <1>u, BuiltFromStable
<1>l. /\ IsList(rows) /\ IsList(stream) /\ IsList(built) /\ IsList(todo) /\ IsList(armoury)
      /\ Len(armoury) \in Nat /\ DOMAIN armoury = 1 .. Len(armoury)
  BY ListDomain DEF IInv, Lists
<1>m. IsList(armoury') /\ Len(armoury') = Len(armoury) /\ DOMAIN armoury' = DOMAIN armoury
  <2>1. DOMAIN armoury' = 1 .. Len(armoury) /\ armoury' = [i \in DOMAIN armoury' |-> armoury'[i]]
    BY <1>s, <1>l
  <2> QED BY <2>1, <1>l, ListByElement
<1>1. Lists'
  <2>1. IsList(rows') /\ IsList(stream') /\ IsList(built') /\ IsList(todo') /\ IsList(armoury')
    BY <1>u, <1>l, <1>m
  <2> QED BY <2>1 DEF Lists, IsList
<1>2. Place'
  BY <1>u, <1>s DEF Place, IInv
<1>3. RowByRow'
  <2>1. Len(armoury') <= Len(built') /\ Len(armoury') = Len(built')
    <3>1. Len(built) = Len(armoury) + 0
      BY <1>s, <1>l, EmptyList DEF IInv, RowByRow
    <3> QED BY <3>1, <1>u, <1>m, <1>l
  <2>2. ASSUME NEW i \in DOMAIN armoury PROVE BuiltFrom(armoury'[i], built[i])
    <3>1. BuiltFrom(armoury[i], built[i])
      BY DEF IInv, RowByRow
    <3>2. PICK split \in Splits(Op, built[i]) :
            /\ armoury[i].params = Settled(split) /\ Failure(Op, armoury[i].params) = None
            /\ armoury[i].body = MarshalledBody(Op, armoury[i].params)
            /\ DOMAIN OnTheWire(Op, armoury[i].params) \subseteq DOMAIN armoury[i].wire
            /\ \A s \in DOMAIN armoury[i].wire :
                  \/ armoury[i].wire[s] = <<s[2], "pushdown">>
                  \/ /\ s \in DOMAIN OnTheWire(Op, armoury[i].params)
                     /\ armoury[i].wire[s] = OnTheWire(Op, armoury[i].params)[s]
      BY <3>1 DEF BuiltFrom
    <3>3. armoury[i] = [params |-> armoury[i].params, wire |-> armoury[i].wire, body |-> armoury[i].body,
                        typed |-> armoury[i].typed, url |-> armoury[i].url]
      BY <3>1 DEF BuiltFrom
    <3>4. armoury'[i] = [params |-> armoury[i].params, wire |-> pushed(armoury[i].wire), body |-> armoury[i].body,
                        typed |-> armoury[i].typed, url |-> armoury[i].url]
      BY <1>s, <3>3
    <3> HIDE DEF pushed
    <3>5. /\ armoury'[i].params = armoury[i].params /\ armoury'[i].body = armoury[i].body
          /\ armoury'[i].wire = pushed(armoury[i].wire)
          /\ armoury'[i] = [params |-> armoury'[i].params, wire |-> armoury'[i].wire, body |-> armoury'[i].body,
                            typed |-> armoury'[i].typed, url |-> armoury'[i].url]
      BY <3>4
    <3>6. /\ DOMAIN armoury[i].wire \subseteq DOMAIN pushed(armoury[i].wire)
          /\ \A s \in DOMAIN pushed(armoury[i].wire) :
                \/ pushed(armoury[i].wire)[s] = <<s[2], "pushdown">>
                \/ s \in DOMAIN armoury[i].wire /\ pushed(armoury[i].wire)[s] = armoury[i].wire[s]
      BY DEF pushed
    <3> QED BY <3>2, <3>5, <3>6 DEF BuiltFrom
  <2>3. \A i \in DOMAIN armoury' : BuiltFrom(armoury[i], built[i])'
    BY <2>2, <1>b, <1>u, <1>m
  <2> QED BY <1>s, <2>1, <2>3 DEF RowByRow
<1>4. LateInFirst'
  BY <1>u DEF LateInFirst, IInv
<1>5. FailsForCause'
  BY <1>s DEF FailsForCause
<1> QED BY <1>1, <1>2, <1>3, <1>4, <1>5 DEF IInv

LEMMA MergeKeeps == IInv /\ MergeLateBinding => IInv'
<1> SUFFICES ASSUME IInv, MergeLateBinding PROVE IInv'
  OBVIOUS
<1>p. PICK keys \in LateKeys : rows' = [rows EXCEPT ![1] = Merged(@, keys)] /\ late' = keys
  BY DEF MergeLateBinding
<1>u. /\ UNCHANGED <<inputs, method>> /\ resource' = resource /\ annotated' = annotated /\ built' = built
      /\ stream' = stream /\ method' = method /\ todo' = todo /\ failure' = failure /\ armoury' = armoury
      /\ stage = "built" /\ stage' = "split" /\ late = {}
  BY DEF MergeLateBinding, inputs
<1>b. \A r, row : BuiltFrom(r, row)' <=> BuiltFrom(r, row)
  BY <1>u, BuiltFromStable
<1>l. /\ IsList(rows) /\ IsList(stream) /\ IsList(built) /\ IsList(todo) /\ IsList(armoury)
      /\ Len(rows) \in Nat \ {0} /\ DOMAIN rows = 1 .. Len(rows) /\ 1 \in DOMAIN rows
  BY ListDomain DEF IInv, Lists, Place
<1>m. IsList(rows') /\ Len(rows') = Len(rows) /\ DOMAIN rows' = DOMAIN rows /\ rows' # <<>>
  <2>1. DOMAIN rows' = 1 .. Len(rows) /\ rows' = [i \in DOMAIN rows' |-> rows'[i]]
    BY <1>p, <1>l
  <2>2. IsList(rows') /\ Len(rows') = Len(rows)
    BY <2>1, <1>l, ListByElement
  <2> QED BY <2>1, <2>2, <1>l, EmptyList
<1>1. Lists'
  <2>1. IsList(rows') /\ IsList(stream') /\ IsList(built') /\ IsList(todo') /\ IsList(armoury')
    BY <1>u, <1>l, <1>m
  <2> QED BY <2>1 DEF Lists, IsList
<1>2. Place'
  <2>1. annotated => stream = <<>>
    BY <1>u DEF IInv, Place
  <2> QED BY <1>u, <1>m, <2>1 DEF Place, IInv
<1>3. RowByRow'
  <2>1. \A i \in DOMAIN armoury' : BuiltFrom(armoury[i], built[i])'
    BY <1>b, <1>u DEF IInv, RowByRow
  <2> QED BY <1>u, <2>1 DEF RowByRow, IInv
<1>4. LateInFirst'
  <2>1. rows'[1] = Merged(rows[1], keys) /\ \A i \in DOMAIN rows : i # 1 => rows'[i] = rows[i]
    BY <1>p, <1>l
  <2>2. \A i \in DOMAIN rows : \A k \in DOMAIN rows[i] : rows[i][k] = "early"
    BY <1>u DEF IInv, LateInFirst
  <2>3. /\ DOMAIN rows'[1] = DOMAIN rows[1] \cup keys
        /\ \A k \in DOMAIN rows'[1] : rows'[1][k] = IF k \in keys THEN "late" ELSE "early"
    BY <2>1, <2>2, <1>l DEF Merged
  <2> QED BY <1>p, <1>m, <2>1, <2>2, <2>3 DEF LateInFirst
<1>5. FailsForCause'
  BY <1>u DEF FailsForCause
<1> QED BY <1>1, <1>2, <1>3, <1>4, <1>5 DEF IInv

LEMMA StutterKeeps == IInv /\ UNCHANGED vars => IInv'
<1> SUFFICES ASSUME IInv, UNCHANGED vars PROVE IInv'
  OBVIOUS
<1>1. UNCHANGED <<inputs, method>>
  BY DEF vars, inputs
<1>2. /\ Op' = Op
      /\ (\A r, row : BuiltFrom(r, row)' <=> BuiltFrom(r, row))
      /\ \A split : Failure(Op, Settled(split))' = Failure(Op, Settled(split))
  BY <1>1, BuiltFromStable
<1>3. RowByRow'
  BY <1>2 DEF RowByRow, vars, IInv
<1>4. FailsForCause'
  BY <1>2 DEF FailsForCause, vars, IInv
<1>5. Lists'
  BY DEF Lists, IsList, vars, IInv
<1>6. Place' /\ LateInFirst'
  BY DEF Place, LateInFirst, vars, IInv
<1> QED BY <1>3, <1>4, <1>5, <1>6 DEF IInv

(* Every state keeps the rows, the requests and the failure in step.       *)
THEOREM Invariance == Spec => []IInv
<1>1. IInv /\ [Next]_vars => IInv'
  BY SelectMethodKeeps, SplitKeeps, BuildKeeps, PushdownKeeps, MergeKeeps, StutterKeeps DEF Next, Done
<1> QED BY InvInit, <1>1, PTL DEF Spec

-----------------------------------------------------------------------------
(* What SHOW METHODS presents covers what the selection asks for.          *)
LEMMA PresentedCoversRequired ==
    ASSUME NEW op
    PROVE  GetRequiredParameters(op) \subseteq ToPresentationMap(op)
  BY DEF GetRequiredParameters, ToPresentationMap, RequiredBodyAttributes

(* A query that gives what SHOW METHODS presents for some method of the    *)
(* verb finds a method (getFirstMatch against ToPresentationMap).          *)
THEOREM Presented == Spec => []PresentedSuffices
<1>1. IInv => PresentedSuffices
  <2> SUFFICES ASSUME IInv, failure = "no method", stage = "failed",
                      NEW i \in GetMethodsForSQLVerb(resource, Verb)
               PROVE  ~(ToPresentationMap(resource.methods[MethodKeys(resource, Verb)[i]]) \subseteq DOMAIN rows[1])
    BY DEF PresentedSuffices
  <2>1. ASSUME NEW split PROVE Failure(Op, Settled(split)) # "no method"
    BY NoneAssumption DEF Failure, Failures
  <2>2. ~ParameterMatch(resource.methods[MethodKeys(resource, Verb)[i]], DOMAIN rows[1])
    BY <2>1 DEF IInv, FailsForCause
  <2> QED BY <2>2, PresentedCoversRequired DEF ParameterMatch
<1> QED BY <1>1, Invariance, PTL

-----------------------------------------------------------------------------
(* What a split holds: every key's slot, with a pair of the row that has   *)
(* that slot; anything else is an attribute of the base body.              *)
LEMMA SplitHolds ==
    ASSUME NEW op, NEW row, NEW split \in Splits(op, row)
    PROVE  /\ \A k \in DOMAIN row : Slot(op, k) \in DOMAIN split
           /\ \A s \in DOMAIN split :
                 \/ \E k \in DOMAIN row : Slot(op, k) = s /\ split[s] = <<k, row[k]>>
                 \/ s[1] = "body" /\ split[s] = <<s[2], "base">>
<1> DEFINE slots == {Slot(op, k) : k \in DOMAIN row}
<1>1. PICK f \in [slots -> DOMAIN row] :
        /\ \A s \in slots : Slot(op, f[s]) = s
        /\ split = [s \in slots \cup BaseSlots(op, row) |->
                      IF s \in slots THEN <<f[s], row[f[s]]>> ELSE <<s[2], "base">>]
  BY DEF Splits
<1>2. \A s \in BaseSlots(op, row) : s[1] = "body"
  BY DEF BaseSlots
<1>3. \A k \in DOMAIN row : Slot(op, k) \in DOMAIN split
  BY <1>1
<1>4. ASSUME NEW s \in DOMAIN split
      PROVE  \/ \E k \in DOMAIN row : Slot(op, k) = s /\ split[s] = <<k, row[k]>>
             \/ s[1] = "body" /\ split[s] = <<s[2], "base">>
  <2>1. CASE s \in slots
    <3>1. f[s] \in DOMAIN row /\ Slot(op, f[s]) = s /\ split[s] = <<f[s], row[f[s]]>>
      BY <1>1, <2>1
    <3> QED BY <3>1
  <2>2. CASE s \notin slots
    BY <1>1, <1>2, <2>2
  <2> QED BY <2>1, <2>2
<1> QED BY <1>3, <1>4

(* The two passes touch nothing but the body, and put nothing of the row   *)
(* into it.                                                                *)
LEMMA WithBodyKeeps ==
    ASSUME NEW params, NEW attrs, NEW source
    PROVE  LET p == WithBody(params, BodyFrom(attrs, source)) IN
           /\ \A s : s[1] # "body" => (s \in DOMAIN p <=> s \in DOMAIN params)
           /\ \A s \in DOMAIN p : s[1] # "body" => p[s] = params[s]
           /\ \A s \in DOMAIN p : s[1] = "body" => p[s] = <<s[2], source>>
<1> DEFINE body == BodyFrom(attrs, source)
           p == WithBody(params, body)
<1>1. /\ DOMAIN body = {<<"body", a>> : a \in attrs}
      /\ \A s \in DOMAIN body : s[1] = "body" /\ body[s] = <<s[2], source>>
  BY DEF BodyFrom
<1>2. /\ DOMAIN p = (DOMAIN params \ BodyOf(params)) \cup DOMAIN body
      /\ \A s \in DOMAIN p : p[s] = IF s \in DOMAIN body THEN body[s] ELSE params[s]
  BY DEF WithBody
<1> QED BY <1>1, <1>2 DEF BodyOf

LEMMA SettledKeeps ==
    ASSUME NEW split
    PROVE  /\ \A s : s[1] # "body" => (s \in DOMAIN Settled(split) <=> s \in DOMAIN split)
           /\ \A s \in DOMAIN Settled(split) : s[1] # "body" => Settled(split)[s] = split[s]
           /\ \A s \in DOMAIN Settled(split) :
                 s[1] = "body" =>
                    \/ s \in DOMAIN split /\ Settled(split)[s] = split[s]
                    \/ Settled(split)[s] \in {<<s[2], "payload">>, <<s[2], "default">>}
<1> DEFINE first == FirstPass(split)
<1>1. /\ \A s : s[1] # "body" => (s \in DOMAIN first <=> s \in DOMAIN split)
      /\ \A s \in DOMAIN first : s[1] # "body" => first[s] = split[s]
      /\ \A s \in DOMAIN first : s[1] = "body" =>
            (s \in DOMAIN split /\ first[s] = split[s]) \/ first[s] = <<s[2], "payload">>
  <2>1. first = split \/ first = WithBody(split, BodyFrom(payload, "payload"))
    BY DEF FirstPass
  <2>2. CASE first = split
    BY <2>2
  <2>3. CASE first = WithBody(split, BodyFrom(payload, "payload"))
    BY <2>3, WithBodyKeeps
  <2> QED BY <2>1, <2>2, <2>3
<1>2. Settled(split) = first \/ Settled(split) = WithBody(first, BodyFrom(DefaultBody(Op), "default"))
  BY DEF Settled, SecondPass
<1> HIDE DEF first
<1>3. CASE Settled(split) = first
  BY <1>1, <1>3
<1>4. CASE Settled(split) = WithBody(first, BodyFrom(DefaultBody(Op), "default"))
  BY <1>1, <1>4, WithBodyKeeps
<1> QED BY <1>2, <1>3, <1>4

(* What a row's parameters hold once they are settled.                     *)
LEMMA SettledHolds ==
    ASSUME NEW row, NEW split \in Splits(Op, row)
    PROVE  \A s \in DOMAIN Settled(split) :
              \/ \E k \in DOMAIN row : Slot(Op, k) = s /\ Settled(split)[s] = <<k, row[k]>>
              \/ /\ s[1] = "body"
                 /\ \E source \in {"base", "payload", "default"} : Settled(split)[s] = <<s[2], source>>
<1> SUFFICES ASSUME NEW s \in DOMAIN Settled(split)
             PROVE  \/ \E k \in DOMAIN row : Slot(Op, k) = s /\ Settled(split)[s] = <<k, row[k]>>
                    \/ /\ s[1] = "body"
                       /\ \E source \in {"base", "payload", "default"} : Settled(split)[s] = <<s[2], source>>
  OBVIOUS
<1>1. CASE s \in DOMAIN split /\ Settled(split)[s] = split[s]
  BY <1>1, SplitHolds
<1>2. CASE s[1] = "body" /\ Settled(split)[s] \in {<<s[2], "payload">>, <<s[2], "default">>}
  BY <1>2
<1> QED BY <1>1, <1>2, SettledKeeps

(* The wire carries no body: what is on it comes from the parameters, or   *)
(* is the default of a header.                                             *)
LEMMA WireHolds ==
    ASSUME NEW op, NEW params
    PROVE  \A s \in DOMAIN OnTheWire(op, params) :
              \/ s \in DOMAIN params /\ s[1] # "body" /\ OnTheWire(op, params)[s] = params[s]
              \/ OnTheWire(op, params)[s] = <<s[2], "default">>
  BY DEF OnTheWire

(* One request for every row, in the order of the rows, or none at all,    *)
(* and each request carries values of its own row only (splitHTTPParameters*)
(* and the two passes of the armoury's build).                             *)
THEOREM RowOnce == Spec => []EveryRowOnce
<1>1. IInv => EveryRowOnce
  <2> SUFFICES ASSUME IInv PROVE EveryRowOnce
    OBVIOUS
  <2>1. stage = "failed" => armoury = <<>>
    BY DEF IInv, Place
  <2>2. stage = "built" /\ ~annotated => built = rows /\ Len(armoury) = Len(rows)
    BY DEF IInv, Place, RowByRow
  <2>3. ASSUME NEW i \in DOMAIN armoury, NEW s \in DOMAIN armoury[i].wire
        PROVE  armoury[i].wire[s][2] \in {"default", "pushdown"}
                  \/ armoury[i].wire[s] \in {<<k, built[i][k]>> : k \in DOMAIN built[i]}
    <3>1. PICK split \in Splits(Op, built[i]) :
            /\ armoury[i].params = Settled(split)
            /\ \/ armoury[i].wire[s] = <<s[2], "pushdown">>
               \/ /\ s \in DOMAIN OnTheWire(Op, armoury[i].params)
                  /\ armoury[i].wire[s] = OnTheWire(Op, armoury[i].params)[s]
      BY DEF IInv, RowByRow, BuiltFrom
    <3>2. CASE armoury[i].wire[s] = <<s[2], "pushdown">> \/ armoury[i].wire[s] = <<s[2], "default">>
      BY <3>2
    <3>3. CASE s \in DOMAIN Settled(split) /\ s[1] # "body" /\ armoury[i].wire[s] = Settled(split)[s]
      BY <3>3, SettledHolds
    <3> QED BY <3>1, <3>2, <3>3, WireHolds
  <2> QED BY <2>1, <2>2, <2>3 DEF EveryRowOnce
<1> QED BY <1>1, Invariance, PTL

(* A late value takes the place of the early one in the first row's        *)
(* request and reaches no other (MergeLateBindingMaps before the rebuild). *)
THEOREM LateSent == Spec => []LateValueIsSent
<1>1. IInv => LateValueIsSent
  <2> SUFFICES ASSUME IInv, stage = "built", ~annotated, NEW k \in late, NEW i \in DOMAIN armoury,
                      NEW s \in DOMAIN armoury[i].params
               PROVE  /\ i = 1 => armoury[i].params[s] # <<k, "early">>
                      /\ i # 1 => armoury[i].params[s] # <<k, "late">>
    BY DEF LateValueIsSent
  <2>1. PICK split \in Splits(Op, built[i]) : armoury[i].params = Settled(split)
    BY DEF IInv, RowByRow, BuiltFrom
  <2>2. built = rows /\ i \in DOMAIN rows
    <3>1. built = rows /\ Len(armoury) = Len(built)
      BY DEF IInv, Place, RowByRow
    <3> QED BY <3>1, ListDomain DEF IInv, Lists
  <2>3. CASE \E l \in DOMAIN rows[i] : armoury[i].params[s] = <<l, rows[i][l]>>
    <3>1. PICK l \in DOMAIN rows[i] : armoury[i].params[s] = <<l, rows[i][l]>>
      BY <2>3
    <3>2. rows[i][l] = IF i = 1 /\ l \in late THEN "late" ELSE "early"
      BY <2>2 DEF IInv, LateInFirst
    <3> QED BY <3>1, <3>2
  <2>4. CASE \E source \in {"base", "payload", "default"} : armoury[i].params[s] = <<s[2], source>>
    BY <2>4
  <2> QED BY <2>1, <2>2, <2>3, <2>4, SettledHolds
<1> QED BY <1>1, Invariance, PTL

(* Where a key goes: an operation parameter answers to it, or it is a body *)
(* attribute of a method with a schema, or it is left for the server.      *)
LEMMA FoundParameter ==
    ASSUME NEW op, NEW key
    PROVE  /\ \A p \in GetOperationParameter(op, key) :
                 \/ p \in op.local /\ p.name = key
                 \/ p \in op.params /\ Answers(p, key) /\ p.in \in {"path", "query", "header", "cookie", "context"}
           /\ \A p \in op.params : Answers(p, key) /\ p.in \in {"path", "query", "header", "cookie", "context"} =>
                 GetOperationParameter(op, key) # {}
<1> DEFINE local == {p \in op.local : p.name = key}
           at(l) == {p \in op.params : p.in = Locations[l] /\ Answers(p, key)}
           hits  == {l \in DOMAIN Locations : at(l) # {}}
           least == CHOOSE l \in hits : \A k \in hits : l <= k
<1>1. DOMAIN Locations = 1 .. 5 /\ hits \subseteq Nat
  BY DEF Locations
<1>2. \A l \in DOMAIN Locations : Locations[l] \in {"path", "query", "header", "cookie", "context"}
  BY DEF Locations
<1>3. GetOperationParameter(op, key) =
        IF local # {} THEN local ELSE IF hits = {} THEN {} ELSE {CHOOSE p \in at(least) : TRUE}
  BY DEF GetOperationParameter
<1>4. hits # {} => least \in hits
  <2>1. hits # {} => \E l \in hits : \A k \in hits : l <= k
    BY <1>1, LeastElement
  <2> QED BY <2>1
<1>5. hits # {} => (CHOOSE p \in at(least) : TRUE) \in at(least) /\ least \in DOMAIN Locations
  BY <1>4
<1>6. ASSUME NEW p \in op.params, Answers(p, key), p.in \in {"path", "query", "header", "cookie", "context"}
      PROVE  hits # {}
  <2>1. \E l \in 1 .. 5 : Locations[l] = p.in
    <3>1. /\ Locations[1] = "path" /\ Locations[2] = "query" /\ Locations[3] = "header"
          /\ Locations[4] = "cookie" /\ Locations[5] = "context"
      BY DEF Locations
    <3> QED BY <3>1, <1>6
  <2> QED BY <2>1, <1>1, <1>6
<1>7. ASSUME NEW p \in GetOperationParameter(op, key)
      PROVE  \/ p \in op.local /\ p.name = key
             \/ p \in op.params /\ Answers(p, key) /\ p.in \in {"path", "query", "header", "cookie", "context"}
  <2> HIDE DEF hits, least
  <2>1. p \in local \/ (hits # {} /\ p = CHOOSE q \in at(least) : TRUE)
    BY <1>3, <1>7
  <2> QED BY <2>1, <1>2, <1>5
<1>8. \A p \in op.params : Answers(p, key) /\ p.in \in {"path", "query", "header", "cookie", "context"} =>
                 GetOperationParameter(op, key) # {}
  BY <1>3, <1>6
<1> QED BY <1>7, <1>8

LEMMA SlotKinds ==
    ASSUME NEW op, WellFormed(op), NEW key
    PROVE  /\ Slot(op, key)[1] = "body" => HasSchema(op)
           /\ Slot(op, key)[1] = "server" => Slot(op, key) = <<"server", key>>
<1> DEFINE found == GetOperationParameter(op, key)
           p     == CHOOSE q \in found : TRUE
<1>1. CASE found # {}
  <2>1. Slot(op, key) = <<p.in, p.name>> /\ p \in found
    BY <1>1 DEF Slot
  <2>2. \/ p \in op.local /\ p.name = key
        \/ p.in \in {"path", "query", "header", "cookie", "context"}
    BY <2>1, FoundParameter
  <2>3. p \in op.local => p.in # "body"
    BY DEF WellFormed
  <2> HIDE DEF p
  <2> QED BY <2>1, <2>2, <2>3
<1>2. CASE found = {}
  BY <1>2 DEF Slot
<1> QED BY <1>1, <1>2

(* The first server is taken when it can be used.                          *)
LEMMA FirstServer ==
    ASSUME NEW op, WellFormed(op), NEW given, GetServers(op) # <<>>, Viable(GetServers(op)[1], given)
    PROVE  SelectServer(op, given) = 1
<1> DEFINE servers == GetServers(op)
           viable  == {i \in DOMAIN servers : Viable(servers[i], given)}
<1>1. IsList(servers)
  BY DEF GetServers, WellFormed, IsList
<1>2. DOMAIN servers = 1 .. Len(servers) /\ Len(servers) \in Nat /\ Len(servers) # 0
  BY <1>1, ListDomain
<1>3. 1 \in viable /\ \A j \in viable : j \in Nat /\ 1 <= j
  BY <1>2
<1>4. SelectServer(op, given) = IF viable = {} THEN 0 ELSE CHOOSE i \in viable : \A j \in viable : i <= j
  BY DEF SelectServer
<1> HIDE DEF viable
<1>5. \A i \in viable : (\A j \in viable : i <= j) => i = 1
  BY <1>3
<1> QED BY <1>3, <1>4, <1>5

(* Every key of the row is in its slot, with a value of the row.           *)
LEMMA SplitOfKey ==
    ASSUME NEW op, NEW row, NEW split \in Splits(op, row), NEW k \in DOMAIN row
    PROVE  /\ Slot(op, k) \in DOMAIN split
           /\ split[Slot(op, k)] \in {<<j, row[j]>> : j \in {l \in DOMAIN row : Slot(op, l) = Slot(op, k)}}
<1> DEFINE slots == {Slot(op, l) : l \in DOMAIN row}
           slot  == Slot(op, k)
<1>1. PICK f \in [slots -> DOMAIN row] :
        /\ \A s \in slots : Slot(op, f[s]) = s
        /\ split = [s \in slots \cup BaseSlots(op, row) |->
                      IF s \in slots THEN <<f[s], row[f[s]]>> ELSE <<s[2], "base">>]
  BY DEF Splits
<1>2. slot \in slots
  OBVIOUS
<1>3. slot \in DOMAIN split /\ split[slot] = <<f[slot], row[f[slot]]>> /\ f[slot] \in DOMAIN row
      /\ Slot(op, f[slot]) = slot
  BY <1>1, <1>2
<1> QED BY <1>3

(* A key of the row is sent in its place: path, query and header values    *)
(* with the operation's parameters, attributes in the body, variables with *)
(* the first server (splitHTTPParameters, parameterize, marshalBody).      *)
THEOREM Sent == Spec => []GivenIsSent
<1>1. IInv => GivenIsSent
  <2> SUFFICES ASSUME IInv, NEW i \in DOMAIN armoury, NEW k \in DOMAIN built[i]
               PROVE  LET slot == Slot(Op, k)
                          mine == {<<j, built[i][j]>> : j \in {l \in DOMAIN built[i] : Slot(Op, l) = slot}}
                      IN  /\ slot[1] \in {"path", "query", "header"} /\ (\E p \in Op.params : slot = <<p.in, p.name>>) =>
                                 /\ slot \in DOMAIN armoury[i].wire
                                 /\ armoury[i].wire[slot] \in mine \cup {<<slot[2], "pushdown">>}
                          /\ slot[1] = "body" /\ payload = None /\ ~(annotated /\ DefaultBody(Op) # {}) =>
                                 slot \in DOMAIN armoury[i].params /\ armoury[i].params[slot] \in mine
                                 /\ (Op.body.media => slot \in armoury[i].body)
                          /\ slot[1] = "server" /\ k \in ServerVariables(Op)
                               /\ Viable(GetServers(Op)[1], {l \in DOMAIN built[i] : Slot(Op, l)[1] = "server"}) =>
                                 slot \in DOMAIN armoury[i].wire
    BY DEF GivenIsSent
  <2> DEFINE slot   == Slot(Op, k)
             mine   == {<<j, built[i][j]>> : j \in {l \in DOMAIN built[i] : Slot(Op, l) = slot}}
             params == armoury[i].params
             wire   == OnTheWire(Op, params)
  <2>1. PICK split \in Splits(Op, built[i]) :
          /\ params = Settled(split) /\ armoury[i].body = MarshalledBody(Op, params)
          /\ DOMAIN wire \subseteq DOMAIN armoury[i].wire
          /\ \A s \in DOMAIN armoury[i].wire :
                \/ armoury[i].wire[s] = <<s[2], "pushdown">>
                \/ s \in DOMAIN wire /\ armoury[i].wire[s] = wire[s]
    BY DEF IInv, RowByRow, BuiltFrom
  <2>2. slot \in DOMAIN split /\ split[slot] \in mine
    BY <2>1, SplitOfKey
  <2>w. WellFormed(Op)
    <3>1. armoury # <<>>
      BY EmptyList
    <3>2. stage \in {"split", "build", "built"}
      BY <3>1 DEF IInv, Place
    <3> QED BY <3>2, ResourcesAssumption DEF IInv, Place, Op
  <2>3. slot[1] # "body" => slot \in DOMAIN params /\ params[slot] \in mine
    BY <2>1, <2>2, SettledKeeps
  <2>4. ASSUME slot[1] \in {"path", "query", "header"}, \E p \in Op.params : slot = <<p.in, p.name>>
        PROVE  slot \in DOMAIN armoury[i].wire /\ armoury[i].wire[slot] \in mine \cup {<<slot[2], "pushdown">>}
    <3> HIDE DEF mine, slot
    <3>1. slot \in DOMAIN params /\ params[slot] \in mine
      BY <2>3, <2>4
    <3>2. slot \in DOMAIN wire /\ wire[slot] = params[slot]
      BY <2>4, <3>1 DEF OnTheWire
    <3> HIDE DEF wire
    <3> QED BY <2>1, <3>1, <3>2
  <2>5. ASSUME slot[1] = "body", payload = None, ~(annotated /\ DefaultBody(Op) # {})
        PROVE  slot \in DOMAIN params /\ params[slot] \in mine /\ (Op.body.media => slot \in armoury[i].body)
    <3>1. FirstPass(split) = split
      BY <2>5 DEF FirstPass
    <3>2. slot \in BodyOf(split)
      BY <2>2, <2>5 DEF BodyOf
    <3>3. params = split
      BY <2>1, <2>5, <3>1, <3>2 DEF Settled, SecondPass
    <3>4. HasSchema(Op)
      BY <2>5, <2>w, SlotKinds
    <3> QED BY <2>1, <2>2, <3>2, <3>3, <3>4 DEF MarshalledBody, HasSchema
  <2>6. ASSUME slot[1] = "server", k \in ServerVariables(Op),
               Viable(GetServers(Op)[1], {l \in DOMAIN built[i] : Slot(Op, l)[1] = "server"})
        PROVE  slot \in DOMAIN armoury[i].wire
    <3>1. slot = <<"server", k>> /\ slot \in DOMAIN params
      BY <2>3, <2>6, <2>w, SlotKinds
    <3>2. {l \in DOMAIN built[i] : Slot(Op, l)[1] = "server"} \subseteq GivenServerParams(params)
      <4> SUFFICES ASSUME NEW l \in DOMAIN built[i], Slot(Op, l)[1] = "server"
                   PROVE  l \in GivenServerParams(params)
        OBVIOUS
      <4>1. Slot(Op, l) = <<"server", l>> /\ Slot(Op, l) \in DOMAIN split
        BY <2>1, <2>w, SlotKinds, SplitOfKey
      <4>2. <<"server", l>> \in DOMAIN params
        BY <4>1, <2>1, SettledKeeps
      <4> HIDE DEF params
      <4> QED BY <4>2 DEF GivenServerParams
    <3>3. Viable(GetServers(Op)[1], GivenServerParams(params))
      BY <2>6, <3>2 DEF Viable
    <3>4. GetServers(Op) # <<>> /\ k \in GetServers(Op)[1].vars
      BY <2>6 DEF ServerVariables
    <3>5. SelectServer(Op, GivenServerParams(params)) = 1
      BY <3>3, <3>4, <2>w, FirstServer
    <3>6. slot \in DOMAIN wire
      BY <3>1, <3>4, <3>5 DEF OnTheWire
    <3> QED BY <2>1, <3>6
  <2> QED BY <2>4, <2>5, <2>6
<1> QED BY <1>1, Invariance, PTL

(* A required parameter of a plain method that the row gives has its own   *)
(* slot in the split.                                                      *)
LEMMA PlainIsSplit ==
    ASSUME NEW op, Plain(op), NEW row, NEW split \in Splits(op, row), ParameterMatch(op, DOMAIN row),
           NEW p \in op.params, IsRequired(p), p.in \in {"path", "header"}
    PROVE  <<p.in, p.name>> \in DOMAIN split
<1> DEFINE found == GetOperationParameter(op, p.name)
           q     == CHOOSE r \in found : TRUE
<1>1. p.name \in DOMAIN row
  BY DEF ParameterMatch, GetRequiredParameters, GetRequiredNonBodyParameters, Named
<1>2. found # {}
  BY FoundParameter DEF Answers
<1>3. q \in found
  BY <1>2
<1>4. q \in op.params /\ Answers(q, p.name)
  BY <1>3, FoundParameter DEF Plain
<1>5. q = p
  BY <1>4 DEF Plain
<1>6. Slot(op, p.name) = <<p.in, p.name>>
  BY <1>2, <1>5 DEF Slot
<1> QED BY <1>1, <1>6, SplitOfKey

(* Everything a plain method's request needs is asked for when the method  *)
(* is selected (parameterMatch against parameterize).                      *)
THEOREM Preparable == Spec => []SelectedIsPreparable
<1>1. IInv => SelectedIsPreparable
  <2> SUFFICES ASSUME IInv, method # None, Plain(Op), \A i \in DOMAIN rows : ParameterMatch(Op, DOMAIN rows[i])
               PROVE  /\ failure \notin {"missing path", "missing header"}
                      /\ (/\ HasSchema(Op) /\ GetServers(Op) # <<>>
                          /\ \A v \in ServerVariables(Op) : Slot(Op, v)[1] = "server") => failure # "no server"
                      /\ \A i \in DOMAIN armoury : \A j \in DOMAIN Op.template :
                            IsPlaceholder(Op.template[j]) =>
                               \E k \in DOMAIN built[i] : <<"path", Op.template[j]>> = Slot(Op, k)
    BY DEF SelectedIsPreparable
  <2>n. CASE stage # "failed"
    <3>1. failure = None
      BY <2>n DEF IInv, Place
    <3>2. failure \notin {"missing path", "missing header", "no server"}
      BY <3>1, NoneAssumption DEF Failures
    <3>3. ASSUME NEW i \in DOMAIN armoury, NEW j \in DOMAIN Op.template, IsPlaceholder(Op.template[j])
          PROVE  \E k \in DOMAIN built[i] : <<"path", Op.template[j]>> = Slot(Op, k)
      <4>1. stage \in {"split", "build", "built"}
        BY EmptyList DEF IInv, Place
      <4>2. WellFormed(Op)
        BY <4>1, ResourcesAssumption DEF IInv, Place, Op
      <4>3. PICK p \in Op.params : p.in = "path" /\ p.name = Op.template[j] /\ IsRequired(p)
        BY <3>3, <4>2 DEF WellFormed, Plain
      <4>4. PICK split \in Splits(Op, built[i]) :
              armoury[i].params = Settled(split) /\ Failure(Op, armoury[i].params) = None
        BY DEF IInv, RowByRow, BuiltFrom
      <4>5. ~MissingPath(Op, Settled(split))
        BY <4>4, NoneAssumption DEF Failure, Failures
      <4>6. <<"path", p.name>> \in DOMAIN Settled(split)
        BY <4>3, <4>5 DEF MissingPath, NotGiven
      <4> QED BY <4>3, <4>6, SettledHolds
    <3> QED BY <3>2, <3>3
  <2>f. CASE stage = "failed"
    <3>1. armoury = <<>> /\ DOMAIN armoury = {}
      BY <2>f, EmptyList DEF IInv, Place
    <3>2. /\ method \in DOMAIN resource.methods
          /\ \E i \in DOMAIN rows : \E split \in Splits(Op, rows[i]) : failure = Failure(Op, Settled(split))
      BY <2>f DEF IInv, FailsForCause
    <3>3. PICK i \in DOMAIN rows : \E split \in Splits(Op, rows[i]) : failure = Failure(Op, Settled(split))
      BY <3>2
    <3>4. PICK split \in Splits(Op, rows[i]) : failure = Failure(Op, Settled(split))
      BY <3>3
    <3>5. ASSUME NEW p \in Op.params, IsRequired(p), p.in \in {"path", "header"}
          PROVE  <<p.in, p.name>> \in DOMAIN Settled(split)
      <4>1. <<p.in, p.name>> \in DOMAIN split
        BY <3>5, PlainIsSplit
      <4> QED BY <4>1, <3>5, SettledKeeps
    <3>6. ~MissingPath(Op, Settled(split)) /\ ~MissingHeader(Op, Settled(split))
      BY <3>5 DEF MissingPath, MissingHeader, NotGiven
    <3>7. failure \notin {"missing path", "missing header"}
      BY <3>4, <3>6, NoneAssumption DEF Failure, Failures
    <3>8. ASSUME HasSchema(Op), GetServers(Op) # <<>>, \A v \in ServerVariables(Op) : Slot(Op, v)[1] = "server"
          PROVE  failure # "no server"
      <4>1. WellFormed(Op)
        BY <3>2, ResourcesAssumption DEF IInv, Place, Op
      <4>2. ServerVariables(Op) \subseteq GivenServerParams(Settled(split))
        <5> SUFFICES ASSUME NEW v \in ServerVariables(Op) PROVE v \in GivenServerParams(Settled(split))
          OBVIOUS
        <5>1. v \in DOMAIN rows[i]
          BY <3>8 DEF ParameterMatch, GetRequiredParameters
        <5>2. <<"server", v>> \in DOMAIN split
          BY <3>8, <4>1, <5>1, SlotKinds, SplitOfKey
        <5>3. <<"server", v>> \in DOMAIN Settled(split)
          BY <5>2, SettledKeeps
        <5> QED BY <5>3 DEF GivenServerParams
      <4>3. Viable(GetServers(Op)[1], GivenServerParams(Settled(split)))
        BY <3>8, <4>2 DEF Viable, ServerVariables
      <4>4. SelectServer(Op, GivenServerParams(Settled(split))) = 1
        BY <3>8, <4>1, <4>3, FirstServer
      <4>5. SelectServer(Op, GivenServerParams(Settled(split))) # 0
        BY <4>4
      <4> QED BY <3>4, <4>5, NoneAssumption DEF Failure, Failures
    <3> QED BY <3>1, <3>7, <3>8
  <2> QED BY <2>n, <2>f
<1> QED BY <1>1, Invariance, PTL

-----------------------------------------------------------------------------
(* Induction over the naturals, for a set.                                 *)
LEMMA SetInduction ==
    ASSUME NEW P, 0 \in P, \A n \in Nat : n \in P => n + 1 \in P
    PROVE  Nat \subseteq P
<1> SUFFICES ASSUME Nat \ P # {} PROVE FALSE
  OBVIOUS
<1>1. PICK x \in Nat \ P : \A y \in Nat \ P : x <= y
  BY LeastElement
<1>2. x - 1 \in Nat /\ x = (x - 1) + 1 /\ x - 1 < x
  BY <1>1
<1>3. x - 1 \notin P
  BY <1>2
<1> QED BY <1>1, <1>2, <1>3

(* A function can be built step by step.                                   *)
Iterates(f, n, a, act) == \A i \in 0 .. n : f[i] = IF i = 0 THEN a ELSE act[i][f[i - 1]]

LEMMA StepByStep ==
    ASSUME NEW n \in Nat, NEW A, NEW a \in A, NEW act \in [1 .. n -> [A -> A]]
    PROVE  \E f \in [0 .. n -> A] : Iterates(f, n, a, act)
<1> DEFINE Upto(m, f) == f[0] = a /\ \A i \in 1 .. m : f[i] = act[i][f[i - 1]]
           P == {m \in Nat : m <= n => \E f \in [0 .. m -> A] : Upto(m, f)}
<1>1. 0 \in P
  <2> DEFINE f == [i \in 0 .. 0 |-> a]
  <2>1. f \in [0 .. 0 -> A] /\ Upto(0, f)
    OBVIOUS
  <2> QED BY <2>1
<1>2. ASSUME NEW m \in Nat, m \in P PROVE m + 1 \in P
  <2> SUFFICES ASSUME m + 1 <= n PROVE \E f \in [0 .. (m + 1) -> A] : Upto(m + 1, f)
    OBVIOUS
  <2>1. PICK f \in [0 .. m -> A] : Upto(m, f)
    BY <1>2
  <2> DEFINE g == [i \in 0 .. (m + 1) |-> IF i = m + 1 THEN act[m + 1][f[m]] ELSE f[i]]
  <2>2. m + 1 \in 1 .. n /\ f[m] \in A
    BY <2>1
  <2>3. act[m + 1][f[m]] \in A
    BY <2>2
  <2>4. g \in [0 .. (m + 1) -> A]
    <3>1. \A i \in 0 .. (m + 1) : i # m + 1 => i \in 0 .. m
      OBVIOUS
    <3> QED BY <2>3, <3>1
  <2>5. g[0] = a
    BY <2>1
  <2>6. ASSUME NEW i \in 1 .. (m + 1) PROVE g[i] = act[i][g[i - 1]]
    <3>1. i - 1 \in 0 .. m /\ g[i - 1] = f[i - 1]
      OBVIOUS
    <3>2. CASE i = m + 1
      BY <3>1, <3>2
    <3>3. CASE i # m + 1
      <4>1. i \in 1 .. m /\ g[i] = f[i]
        BY <3>3
      <4> QED BY <2>1, <3>1, <4>1
    <3> QED BY <3>2, <3>3
  <2> HIDE DEF g
  <2> QED BY <2>4, <2>5, <2>6
<1>3. n \in P
  <2> HIDE DEF P
  <2> QED BY <1>1, <1>2, SetInduction
<1>4. PICK f \in [0 .. n -> A] : Upto(n, f)
  BY <1>3
<1>5. ASSUME NEW i \in 0 .. n PROVE f[i] = IF i = 0 THEN a ELSE act[i][f[i - 1]]
  BY <1>4
<1> QED BY <1>5 DEF Iterates

(* The segments that fill a template, put one after the other.             *)
LEMMA FillExists ==
    ASSUME NEW template, IsList(template), NEW values, NEW S,
           \A i \in DOMAIN template : Piece(template, values, i) \in Seq(S)
    PROVE  \E f \in [0 .. Len(template) -> Seq(S)] :
              /\ \A i \in 0 .. Len(template) :
                    f[i] = IF i = 0 THEN <<>> ELSE f[i - 1] \o Piece(template, values, i)
              /\ Fill(template, values) = f[Len(template)]
<1> DEFINE n == Len(template)
           Rec(f) == f = [i \in 0 .. n |-> IF i = 0 THEN <<>> ELSE f[i - 1] \o Piece(template, values, i)]
           act == [i \in 1 .. n |-> [s \in Seq(S) |-> s \o Piece(template, values, i)]]
           join == CHOOSE f : Rec(f)
<1>1. n \in Nat /\ DOMAIN template = 1 .. n
  BY ListDomain
<1>2. act \in [1 .. n -> [Seq(S) -> Seq(S)]]
  BY <1>1
<1>3. PICK f \in [0 .. n -> Seq(S)] : Iterates(f, n, <<>>, act)
  <2> DEFINE A == Seq(S)
             zero == <<>>
  <2>1. zero \in A /\ act \in [1 .. n -> [A -> A]]
    BY <1>2
  <2> HIDE DEF act, n, A, zero
  <2>2. \E f \in [0 .. n -> A] : Iterates(f, n, zero, act)
    <3>1. n \in Nat BY <1>1
    <3>2. zero \in A BY <2>1
    <3>3. act \in [1 .. n -> [A -> A]] BY <2>1
    <3> QED BY <3>1, <3>2, <3>3, StepByStep
  <2> QED BY <2>2 DEF A, zero
<1>4. Rec(f)
  <2>1. ASSUME NEW i \in 0 .. n, i # 0 PROVE act[i][f[i - 1]] = f[i - 1] \o Piece(template, values, i)
    <3>1. i \in 1 .. n /\ i - 1 \in 0 .. n
      BY <1>1, <2>1
    <3>2. f[i - 1] \in Seq(S)
      BY <3>1
    <3> QED BY <3>1, <3>2
  <2>2. ASSUME NEW i \in 0 .. n PROVE f[i] = IF i = 0 THEN <<>> ELSE f[i - 1] \o Piece(template, values, i)
    BY <1>3, <2>1 DEF Iterates
  <2> HIDE DEF act, n
  <2> QED BY <2>2
<1>5. Rec(join)
  <2> HIDE DEF Rec
  <2> QED BY <1>4
<1>6. Fill(template, values) = join[n]
  BY DEF Fill
<1>7. join \in [0 .. n -> Seq(S)]
  <2> DEFINE P == {m \in Nat : m <= n => join[m] \in Seq(S)}
  <2> HIDE DEF join, n
  <2>1. 0 \in P
    BY <1>5
  <2>2. ASSUME NEW m \in Nat, m \in P PROVE m + 1 \in P
    <3> SUFFICES ASSUME m + 1 <= n PROVE join[m + 1] \in Seq(S)
      OBVIOUS
    <3>1. m + 1 \in 0 .. n /\ m + 1 # 0 /\ (m + 1) - 1 = m /\ join[m] \in Seq(S) /\ m + 1 \in 1 .. n
      BY <1>1, <2>2
    <3>2. join[m + 1] = join[m] \o Piece(template, values, m + 1)
      BY <1>5, <3>1
    <3>3. Piece(template, values, m + 1) \in Seq(S)
      BY <1>1, <3>1
    <3> QED BY <3>1, <3>2, <3>3
  <2>3. Nat \subseteq P
    <3> HIDE DEF P
    <3> QED BY <2>1, <2>2, SetInduction
  <2>4. DOMAIN join = 0 .. n /\ join = [i \in 0 .. n |-> join[i]]
    BY <1>5
  <2> QED BY <1>1, <2>3, <2>4
<1> HIDE DEF join
<1>8. ASSUME NEW i \in 0 .. n PROVE join[i] = IF i = 0 THEN <<>> ELSE join[i - 1] \o Piece(template, values, i)
  BY <1>5
<1> QED BY <1>6, <1>7, <1>8

(* The positions that a template's segments reach in a URL.                *)
LEMMA MatchExists ==
    ASSUME NEW template, IsList(template), NEW url, Len(url) \in Nat
    PROVE  \E f \in [0 .. Len(template) -> SUBSET Nat] :
              /\ \A i \in 0 .. Len(template) :
                    f[i] = IF i = 0 THEN {1} ELSE UNION {Ends(template, url, i, k) : k \in f[i - 1]}
              /\ Matches(template, url) <=> Len(url) + 1 \in f[Len(template)]
<1> DEFINE n == Len(template)
           Rec(f) == f = [i \in 0 .. n |-> IF i = 0 THEN {1} ELSE UNION {Ends(template, url, i, k) : k \in f[i - 1]}]
           act == [i \in 1 .. n |-> [s \in SUBSET Nat |-> UNION {Ends(template, url, i, k) : k \in s}]]
           reached == CHOOSE f : Rec(f)
<1>1. n \in Nat /\ DOMAIN template = 1 .. n
  BY ListDomain
<1>e. ASSUME NEW i, NEW k \in Nat PROVE Ends(template, url, i, k) \subseteq Nat
  BY DEF Ends
<1>s. ASSUME NEW i, NEW s \in SUBSET Nat PROVE UNION {Ends(template, url, i, k) : k \in s} \in SUBSET Nat
  BY <1>e
<1>2. act \in [1 .. n -> [SUBSET Nat -> SUBSET Nat]]
  BY <1>s
<1>3. PICK f \in [0 .. n -> SUBSET Nat] : Iterates(f, n, {1}, act)
  <2>1. {1} \in SUBSET Nat
    OBVIOUS
  <2> HIDE DEF act, n
  <2> QED BY <1>1, <1>2, <2>1, StepByStep
<1>4. Rec(f)
  <2>1. ASSUME NEW i \in 0 .. n, i # 0
        PROVE  act[i][f[i - 1]] = UNION {Ends(template, url, i, k) : k \in f[i - 1]}
    <3>1. i \in 1 .. n /\ i - 1 \in 0 .. n
      BY <1>1, <2>1
    <3>2. f[i - 1] \in SUBSET Nat
      BY <3>1
    <3> QED BY <3>1, <3>2
  <2>2. ASSUME NEW i \in 0 .. n
        PROVE  f[i] = IF i = 0 THEN {1} ELSE UNION {Ends(template, url, i, k) : k \in f[i - 1]}
    BY <1>3, <2>1 DEF Iterates
  <2> HIDE DEF act, n
  <2> QED BY <2>2
<1>5. Rec(reached)
  <2> HIDE DEF Rec
  <2> QED BY <1>4
<1>6. Matches(template, url) <=> Len(url) + 1 \in reached[n]
  BY DEF Matches
<1> HIDE DEF reached
<1>7. ASSUME NEW i \in 0 .. n
      PROVE  reached[i] = IF i = 0 THEN {1} ELSE UNION {Ends(template, url, i, k) : k \in reached[i - 1]}
  BY <1>5
<1>8. reached \in [0 .. n -> SUBSET Nat]
  <2> DEFINE P == {m \in Nat : m <= n => reached[m] \in SUBSET Nat}
  <2> HIDE DEF n
  <2>1. 0 \in P
    <3>1. 0 \in 0 .. n
      BY <1>1
    <3>2. reached[0] = IF 0 = 0 THEN {1} ELSE UNION {Ends(template, url, 0, k) : k \in reached[0 - 1]}
      BY <1>7, <3>1
    <3>3. reached[0] = {1}
      BY <3>2
    <3> QED BY <3>3
  <2>2. ASSUME NEW m \in Nat, m \in P PROVE m + 1 \in P
    <3> SUFFICES ASSUME m + 1 <= n PROVE reached[m + 1] \in SUBSET Nat
      OBVIOUS
    <3>1. m + 1 \in 0 .. n /\ m + 1 # 0 /\ (m + 1) - 1 = m /\ reached[m] \in SUBSET Nat
      BY <1>1, <2>2
    <3>2. reached[m + 1] = UNION {Ends(template, url, m + 1, k) : k \in reached[m]}
      BY <1>7, <3>1
    <3> QED BY <1>s, <3>1, <3>2
  <2>3. Nat \subseteq P
    <3> HIDE DEF P
    <3> QED BY <2>1, <2>2, SetInduction
  <2>4. DOMAIN reached = 0 .. n /\ reached = [i \in 0 .. n |-> reached[i]]
    BY <1>5
  <2> QED BY <1>1, <2>3, <2>4
<1> QED BY <1>6, <1>7, <1>8

LEMMA Concatenated ==
    ASSUME NEW S, NEW s \in Seq(S), NEW t \in Seq(S)
    PROVE  /\ s \o t \in Seq(S) /\ Len(s) \in Nat /\ Len(t) \in Nat /\ Len(s \o t) = Len(s) + Len(t)
           /\ \A k \in 1 .. Len(s) : (s \o t)[k] = s[k]
           /\ \A k \in 1 .. Len(t) : (s \o t)[Len(s) + k] = t[k]
  OBVIOUS

(* Where the segments of a filled template lie: at[i] is the position after *)
(* the piece of segment i.                                                 *)
Layout(template, values, url, at) ==
    /\ IsList(url)
    /\ at \in [0 .. Len(template) -> Nat]
    /\ at[0] = 1 /\ at[Len(template)] = Len(url) + 1
    /\ \A i \in 1 .. Len(template) :
          /\ at[i] = at[i - 1] + Len(Piece(template, values, i))
          /\ \A k \in 1 .. Len(Piece(template, values, i)) :
                url[(at[i - 1] - 1) + k] = Piece(template, values, i)[k]

LEMMA FillLayout ==
    ASSUME NEW template, IsList(template), NEW values, NEW S,
           \A i \in DOMAIN template : Piece(template, values, i) \in Seq(S)
    PROVE  \E at : Layout(template, values, Fill(template, values), at)
<1> DEFINE n == Len(template)
           piece(i) == Piece(template, values, i)
<1>1. n \in Nat /\ DOMAIN template = 1 .. n
  BY ListDomain
<1>2. PICK join \in [0 .. n -> Seq(S)] :
        /\ \A i \in 0 .. n : join[i] = IF i = 0 THEN <<>> ELSE join[i - 1] \o piece(i)
        /\ Fill(template, values) = join[n]
  BY FillExists
<1> DEFINE at == [i \in 0 .. n |-> Len(join[i]) + 1]
           Filled(m) == /\ join[m] \in Seq(S)
                        /\ \A i \in 1 .. m :
                             /\ at[i] = at[i - 1] + Len(piece(i)) /\ at[i] <= Len(join[m]) + 1
                             /\ \A k \in 1 .. Len(piece(i)) : join[m][(at[i - 1] - 1) + k] = piece(i)[k]
           P == {m \in Nat : m <= n => Filled(m)}
<1>3. join[0] = <<>>
  <2> HIDE DEF piece, n
  <2>1. join[0] = IF 0 = 0 THEN <<>> ELSE join[0 - 1] \o piece(0)
    BY <1>1, <1>2
  <2> QED BY <2>1
<1>4. \A i \in 0 .. n : join[i] \in Seq(S) /\ Len(join[i]) \in Nat
  <2>1. ASSUME NEW i \in 0 .. n PROVE join[i] \in Seq(S)
    OBVIOUS
  <2>2. ASSUME NEW i \in 0 .. n PROVE Len(join[i]) \in Nat
    BY <2>1
  <2> QED BY <2>1, <2>2
<1>5. at \in [0 .. n -> Nat] /\ at[0] = 1 /\ at[n] = Len(join[n]) + 1
  BY <1>1, <1>3, <1>4, EmptyList
<1>6. 0 \in P
  BY <1>1, <1>4
<1> HIDE DEF Filled
<1>7. ASSUME NEW m \in Nat, m \in P PROVE m + 1 \in P
  <2> SUFFICES ASSUME m + 1 <= n PROVE Filled(m + 1)
    OBVIOUS
  <2> DEFINE s == join[m]
             t == piece(m + 1)
             u == join[m + 1]
  <2>1. m \in 0 .. n /\ m + 1 \in 0 .. n /\ m + 1 # 0 /\ (m + 1) - 1 = m /\ m + 1 \in 1 .. n
    BY <1>1
  <2>2. s \in Seq(S) /\ t \in Seq(S) /\ u = s \o t
    <3>1. t \in Seq(S)
      BY <1>1, <2>1
    <3>2. u = s \o t
      <4> HIDE DEF piece
      <4> QED BY <1>2, <2>1
    <3> QED BY <1>4, <2>1, <3>1, <3>2
  <2>3. Filled(m)
    BY <1>7, <2>1
  <2>4. at[m] = Len(s) + 1 /\ at[m + 1] = Len(u) + 1
    BY <2>1
  <2> HIDE DEF s, t, u, at, piece
  <2>5. /\ u \in Seq(S) /\ Len(u) = Len(s) + Len(t) /\ Len(s) \in Nat /\ Len(t) \in Nat
        /\ \A k \in 1 .. Len(s) : u[k] = s[k]
        /\ \A k \in 1 .. Len(t) : u[Len(s) + k] = t[k]
    BY <2>2, Concatenated
  <2>6. ASSUME NEW i \in 1 .. m
        PROVE  /\ at[i] = at[i - 1] + Len(piece(i)) /\ at[i] <= Len(u) + 1
               /\ \A k \in 1 .. Len(piece(i)) : u[(at[i - 1] - 1) + k] = piece(i)[k]
    <3>1. /\ at[i] = at[i - 1] + Len(piece(i)) /\ at[i] <= Len(s) + 1
          /\ \A k \in 1 .. Len(piece(i)) : s[(at[i - 1] - 1) + k] = piece(i)[k]
      BY <2>3 DEF s, Filled
    <3>2. i \in 0 .. n /\ i - 1 \in 0 .. n /\ i \in DOMAIN template
      BY <1>1
    <3>3. at[i] \in Nat /\ at[i - 1] \in Nat /\ at[i - 1] >= 1 /\ Len(piece(i)) \in Nat
      <4>1. Len(join[i - 1]) \in Nat /\ at[i - 1] = Len(join[i - 1]) + 1
        BY <1>4, <3>2 DEF at
      <4>2. piece(i) \in Seq(S)
        BY <3>2 DEF piece
      <4>3. Len(piece(i)) \in Nat
        BY <4>2
      <4>4. at[i] \in Nat /\ at[i - 1] \in Nat
        BY <1>5, <3>2
      <4> QED BY <4>1, <4>3, <4>4
    <3>4. ASSUME NEW k \in 1 .. Len(piece(i)) PROVE u[(at[i - 1] - 1) + k] = piece(i)[k]
      <4>1. (at[i - 1] - 1) + k \in 1 .. Len(s)
        <5> DEFINE x == at[i - 1]
                   y == Len(piece(i))
                   z == Len(s)
        <5>1. x \in Nat /\ y \in Nat /\ z \in Nat /\ x >= 1 /\ x + y <= z + 1 /\ k \in 1 .. y
          BY <2>5, <3>1, <3>3
        <5> HIDE DEF x, y, z
        <5>2. (x - 1) + k \in 1 .. z
          BY <5>1
        <5> QED BY <5>2 DEF x, z
      <4> QED BY <2>5, <3>1, <4>1
    <3>5. at[i] <= Len(u) + 1
      <4> HIDE DEF P
      <4> QED BY <2>5, <3>1, <3>3
    <3> QED BY <3>1, <3>4, <3>5
  <2>7. /\ at[m + 1] = at[m] + Len(t) /\ at[m + 1] <= Len(u) + 1
        /\ \A k \in 1 .. Len(t) : u[(at[m] - 1) + k] = t[k]
    <3>1. at[m] - 1 = Len(s)
      BY <2>4, <2>5
    <3>2. at[m + 1] = at[m] + Len(t) /\ at[m + 1] <= Len(u) + 1
      BY <2>4, <2>5
    <3> QED BY <2>5, <3>1, <3>2
  <2>8. ASSUME NEW i \in 1 .. (m + 1), i # m + 1 PROVE i \in 1 .. m
    BY <2>8
  <2>9. ASSUME NEW i \in 1 .. (m + 1)
        PROVE  /\ at[i] = at[i - 1] + Len(piece(i)) /\ at[i] <= Len(u) + 1
               /\ \A k \in 1 .. Len(piece(i)) : u[(at[i - 1] - 1) + k] = piece(i)[k]
    <3>1. CASE i = m + 1
      BY <2>1, <2>7, <3>1 DEF t
    <3>2. CASE i # m + 1
      BY <2>6, <2>8, <3>2
    <3> QED BY <3>1, <3>2
  <2> QED BY <2>5, <2>9 DEF u, Filled
<1>8. Filled(n)
  <2>1. Nat \subseteq P
    <3> HIDE DEF P
    <3> QED BY <1>6, <1>7, SetInduction
  <2> QED BY <1>1, <2>1
<1>9. IsList(join[n])
  BY <1>1, <1>4, ListOfSeq
<1> HIDE DEF at
<1>10. Layout(template, values, join[n], at)
  BY <1>5, <1>8, <1>9 DEF Layout, Filled
<1> QED BY <1>2, <1>10

LEMMA LayoutRises ==
    ASSUME NEW template, IsList(template), NEW values, NEW url, NEW at, Layout(template, values, url, at),
           \A i \in DOMAIN template : Len(Piece(template, values, i)) \in Nat,
           NEW i \in 0 .. Len(template)
    PROVE  1 <= at[i] /\ at[i] <= Len(url) + 1
<1> DEFINE n == Len(template)
           P == {m \in Nat : m <= n => 1 <= at[m]}
           Q == {m \in Nat : m <= n => at[n - m] <= at[n]}
<1>1. n \in Nat /\ DOMAIN template = 1 .. n
  BY ListDomain
<1>2. at \in [0 .. n -> Nat] /\ at[0] = 1 /\ at[n] = Len(url) + 1
  BY DEF Layout
<1>3. ASSUME NEW j \in Nat, j + 1 <= n
      PROVE  at[j] \in Nat /\ at[j + 1] \in Nat /\ at[j] <= at[j + 1]
  <2>1. j + 1 \in 1 .. n /\ (j + 1) - 1 = j /\ j \in 0 .. n /\ j + 1 \in 0 .. n
    BY <1>1, <1>3
  <2>2. at[j + 1] = at[j] + Len(Piece(template, values, j + 1))
    BY <2>1 DEF Layout
  <2>3. Len(Piece(template, values, j + 1)) \in Nat
    BY <1>1, <2>1
  <2> QED BY <1>2, <2>1, <2>2, <2>3
<1> HIDE DEF n
<1>4. 0 \in P /\ 0 \in Q
  BY <1>1, <1>2
<1>5. ASSUME NEW m \in Nat, m \in P PROVE m + 1 \in P
  BY <1>1, <1>3, <1>5
<1>6. ASSUME NEW m \in Nat, m \in Q PROVE m + 1 \in Q
  <2> SUFFICES ASSUME m + 1 <= n PROVE at[n - (m + 1)] <= at[n]
    OBVIOUS
  <2> DEFINE j == n - (m + 1)
  <2>1. j \in Nat /\ j + 1 = n - m /\ j + 1 <= n /\ m <= n
    BY <1>1
  <2>2. at[j + 1] <= at[n]
    BY <1>6, <2>1
  <2> HIDE DEF j
  <2>3. at[j] \in Nat /\ at[j + 1] \in Nat /\ at[j] <= at[j + 1] /\ at[n] \in Nat
    BY <1>1, <1>2, <1>3, <2>1
  <2>4. at[j] <= at[n]
    BY <2>2, <2>3
  <2> QED BY <2>4 DEF j
<1>7. Nat \subseteq P
  <2> HIDE DEF P
  <2> QED BY <1>4, <1>5, SetInduction
<1>8. Nat \subseteq Q
  <2> HIDE DEF Q
  <2> QED BY <1>4, <1>6, SetInduction
<1>9. i \in Nat /\ i <= n /\ n - i \in Nat /\ n - i <= n /\ n - (n - i) = i
  BY <1>1 DEF n
<1> QED BY <1>2, <1>7, <1>8, <1>9

(* A match is a walk through the URL, one segment of the template after    *)
(* the other.                                                              *)
Walk(template, url, at) ==
    /\ at \in [0 .. Len(template) -> Nat]
    /\ at[0] = 1 /\ at[Len(template)] = Len(url) + 1
    /\ \A i \in 1 .. Len(template) : at[i] \in Ends(template, url, i, at[i - 1])

LEMMA MatchWalk ==
    ASSUME NEW template, IsList(template), NEW url, Len(url) \in Nat, Matches(template, url)
    PROVE  \E at : Walk(template, url, at)
<1> DEFINE n == Len(template)
<1>1. n \in Nat
  BY ListDomain
<1>2. PICK reached \in [0 .. n -> SUBSET Nat] :
        /\ \A i \in 0 .. n : reached[i] = IF i = 0 THEN {1} ELSE UNION {Ends(template, url, i, k) : k \in reached[i - 1]}
        /\ Matches(template, url) <=> Len(url) + 1 \in reached[n]
  BY MatchExists
<1> DEFINE Path(m, x, at) == /\ at \in [0 .. m -> Nat] /\ at[0] = 1 /\ at[m] = x
                             /\ \A i \in 1 .. m : at[i] \in Ends(template, url, i, at[i - 1])
           Joined(m) == \A x \in reached[m] : \E at : Path(m, x, at)
           P == {m \in Nat : m <= n => Joined(m)}
<1> HIDE DEF n
<1>3. reached[0] = {1}
  <2>1. reached[0] = IF 0 = 0 THEN {1} ELSE UNION {Ends(template, url, 0, k) : k \in reached[0 - 1]}
    BY <1>1, <1>2
  <2> QED BY <2>1
<1>4. 0 \in P
  <2> DEFINE at == [i \in 0 .. 0 |-> 1]
  <2>1. Path(0, 1, at)
    OBVIOUS
  <2> HIDE DEF at, Path
  <2> QED BY <1>3, <2>1
<1>5. ASSUME NEW m \in Nat, m \in P PROVE m + 1 \in P
  <2> SUFFICES ASSUME m + 1 <= n, NEW x \in reached[m + 1] PROVE \E at : Path(m + 1, x, at)
    <3> HIDE DEF Path
    <3> QED OBVIOUS
  <2>1. m + 1 \in 0 .. n /\ m + 1 # 0 /\ (m + 1) - 1 = m /\ m \in 0 .. n
    BY <1>1
  <2>2. PICK y \in reached[m] : x \in Ends(template, url, m + 1, y)
    <3>1. reached[m + 1] = UNION {Ends(template, url, m + 1, k) : k \in reached[m]}
      BY <1>2, <2>1
    <3> QED BY <3>1
  <2>3. PICK at : Path(m, y, at)
    <3> HIDE DEF Path
    <3> QED BY <1>5, <2>1
  <2> DEFINE longer == [i \in 0 .. (m + 1) |-> IF i = m + 1 THEN x ELSE at[i]]
  <2>4. x \in Nat
    BY <2>1
  <2>5. longer[m + 1] = x /\ \A i \in 0 .. m : longer[i] = at[i] /\ at[i] \in Nat
    BY <2>3
  <2>6. longer \in [0 .. (m + 1) -> Nat]
    <3>1. \A i \in 0 .. (m + 1) : i = m + 1 \/ i \in 0 .. m
      OBVIOUS
    <3> QED BY <2>4, <2>5, <3>1
  <2> HIDE DEF longer
  <2>7. ASSUME NEW i \in 1 .. (m + 1) PROVE longer[i] \in Ends(template, url, i, longer[i - 1])
    <3>1. CASE i = m + 1
      <4>1. i - 1 = m /\ m \in 0 .. m /\ longer[m] = y
        BY <2>3, <2>5, <3>1
      <4> QED BY <2>2, <2>5, <3>1, <4>1
    <3>2. CASE i # m + 1
      <4>1. i \in 1 .. m /\ i \in 0 .. m /\ i - 1 \in 0 .. m
        BY <3>2
      <4>2. at[i] \in Ends(template, url, i, at[i - 1])
        BY <2>3, <4>1
      <4> QED BY <2>5, <4>1, <4>2
    <3> QED BY <3>1, <3>2
  <2>8. longer[0] = 1
    BY <2>3, <2>5
  <2> QED BY <2>5, <2>6, <2>7, <2>8
<1>6. Joined(n)
  <2>1. Nat \subseteq P
    <3> HIDE DEF P
    <3> QED BY <1>4, <1>5, SetInduction
  <2> HIDE DEF Joined
  <2> QED BY <1>1, <2>1
<1>7. PICK at : Path(n, Len(url) + 1, at)
  <2> HIDE DEF Path
  <2> QED BY <1>2, <1>6
<1> QED BY <1>7 DEF Walk, n

LEMMA TwoOn ==
    ASSUME NEW a \in Nat, NEW x \in Nat, x # a, x # a + 1
    PROVE  (x >= a => x >= a + 2) /\ (x < a + 2 => x < a)
  OBVIOUS

(* Two walks of the same length, one of which takes a literal only where   *)
(* the other has one: they are together after every literal.               *)
Alongside(n, k, at, lits, L) ==
    \A i \in 1 .. n :
       /\ k[i - 1] < k[i]
       /\ i \in lits => k[i] = k[i - 1] + 1 /\ k[i - 1] \in L /\ at[i] = at[i - 1] + 1
       /\ i \notin lits => at[i] = at[i - 1] + 2 /\ at[i - 1] \notin L /\ at[i - 1] + 1 \notin L

LEMMA TogetherAtLiterals ==
    ASSUME NEW n \in Nat, NEW k \in [0 .. n -> Nat], NEW at \in [0 .. n -> Nat], NEW lits, NEW L,
           k[0] = at[0], k[n] = at[n], Alongside(n, k, at, lits, L)
    PROVE  \A i \in 1 .. n : i \in lits => k[i] = at[i]
<1> USE DEF Alongside
<1> DEFINE Ahead(i) == \A x \in L : x \in Nat /\ x >= k[i] => x >= at[i]
           Behind(i) == \A x \in L : x \in Nat /\ x < k[i] => x < at[i]
           P == {m \in Nat : m <= n => Ahead(m)}
           Q == {m \in Nat : m <= n => Behind(n - m)}
<1>1. 0 \in P
  OBVIOUS
<1>2. ASSUME NEW m \in Nat, m \in P PROVE m + 1 \in P
  <2> SUFFICES ASSUME m + 1 <= n, NEW x \in L, x \in Nat, x >= k[m + 1] PROVE x >= at[m + 1]
    OBVIOUS
  <2>1. m + 1 \in 1 .. n /\ (m + 1) - 1 = m /\ m \in 0 .. n /\ m + 1 \in 0 .. n /\ m <= n
    OBVIOUS
  <2>2. k[m] \in Nat /\ k[m + 1] \in Nat /\ at[m] \in Nat /\ at[m + 1] \in Nat
    BY <2>1
  <2>3. k[m] < k[m + 1]
    BY <2>1
  <2>4. Ahead(m)
    BY <1>2, <2>1
  <2>5. CASE m + 1 \in lits
    <3>1. k[m + 1] = k[m] + 1 /\ k[m] \in L /\ at[m + 1] = at[m] + 1
      BY <2>1, <2>5
    <3>2. k[m] >= at[m]
      BY <2>2, <2>4, <3>1
    <3> QED BY <2>2, <3>1, <3>2
  <2>6. CASE m + 1 \notin lits
    <3>1. at[m + 1] = at[m] + 2 /\ at[m] \notin L /\ at[m] + 1 \notin L
      BY <2>1, <2>6
    <3>2. x >= k[m]
      BY <2>2, <2>3
    <3>3. x >= at[m]
      BY <2>4, <3>2
    <3>4. x # at[m] /\ x # at[m] + 1
      BY <3>1
    <3> QED BY <2>2, <3>1, <3>3, <3>4, TwoOn
  <2> QED BY <2>5, <2>6
<1>3. 0 \in Q
  OBVIOUS
<1>4. ASSUME NEW m \in Nat, m \in Q PROVE m + 1 \in Q
  <2> DEFINE j == n - (m + 1)
  <2> SUFFICES ASSUME m + 1 <= n, NEW x \in L, x \in Nat, x < k[j] PROVE x < at[j]
    OBVIOUS
  <2>1. j + 1 \in 1 .. n /\ (j + 1) - 1 = j /\ j \in 0 .. n /\ j + 1 \in 0 .. n /\ n - m = j + 1 /\ m <= n
    OBVIOUS
  <2>2. Behind(j + 1)
    BY <1>4, <2>1
  <2> HIDE DEF j
  <2>3. k[j] \in Nat /\ k[j + 1] \in Nat /\ at[j] \in Nat /\ at[j + 1] \in Nat
    BY <2>1
  <2>4. k[j] < k[j + 1]
    BY <2>1
  <2>5. CASE j + 1 \in lits
    <3>1. k[j + 1] = k[j] + 1 /\ k[j] \in L /\ at[j + 1] = at[j] + 1
      BY <2>1, <2>5
    <3>2. k[j] < at[j + 1]
      BY <2>2, <2>3, <2>4, <3>1
    <3> QED BY <2>3, <3>1, <3>2
  <2>6. CASE j + 1 \notin lits
    <3>1. at[j + 1] = at[j] + 2 /\ at[j] \notin L /\ at[j] + 1 \notin L
      BY <2>1, <2>6
    <3>2. x < k[j + 1]
      BY <2>3, <2>4
    <3>3. x < at[j + 1]
      BY <2>2, <3>2
    <3>4. x # at[j] /\ x # at[j] + 1
      BY <3>1
    <3> QED BY <2>3, <3>1, <3>3, <3>4, TwoOn
  <2> QED BY <2>5, <2>6
<1>5. Nat \subseteq P
  <2> HIDE DEF P
  <2> QED BY <1>1, <1>2, SetInduction
<1>6. Nat \subseteq Q
  <2> HIDE DEF Q
  <2> QED BY <1>3, <1>4, SetInduction
<1>7. ASSUME NEW i \in 1 .. n, i \in lits PROVE k[i] = at[i]
  <2>1. i - 1 \in 0 .. n /\ i \in 0 .. n /\ n - i \in Nat /\ n - (n - i) = i /\ n - i <= n /\ i - 1 \in Nat /\ i - 1 <= n
    OBVIOUS
  <2>2. Ahead(i - 1)
    BY <1>5, <2>1
  <2>3. Behind(i)
    BY <1>6, <2>1
  <2>4. k[i] = k[i - 1] + 1 /\ k[i - 1] \in L /\ at[i] = at[i - 1] + 1
    BY <1>7
  <2>5. k[i - 1] \in Nat /\ at[i - 1] \in Nat
    BY <2>1
  <2>6. k[i - 1] >= at[i - 1]
    BY <2>2, <2>4, <2>5
  <2>7. k[i - 1] < at[i]
    BY <2>3, <2>4, <2>5
  <2> QED BY <2>4, <2>5, <2>6, <2>7
<1> QED BY <1>7

(* A template takes every URL made from it, unless one of two adjacent     *)
(* placeholders was given a value with slashes.                            *)
LEMMA FillMatches ==
    ASSUME NEW template, IsList(template), NEW values, NEW S,
           \A i \in DOMAIN template :
              /\ Piece(template, values, i) \in Seq(S)
              /\ Len(Piece(template, values, i)) >= 1
              /\ Adjacent(template, i) => Len(Piece(template, values, i)) = 1
    PROVE  Matches(template, Fill(template, values))
<1> DEFINE n == Len(template)
           url == Fill(template, values)
<1>1. n \in Nat /\ DOMAIN template = 1 .. n
  BY ListDomain
<1>2. PICK at : Layout(template, values, url, at)
  BY FillLayout
<1>3. Len(url) \in Nat
  BY <1>2, ListDomain DEF Layout
<1> HIDE DEF url
<1>4. PICK reached \in [0 .. n -> SUBSET Nat] :
        /\ \A i \in 0 .. n : reached[i] = IF i = 0 THEN {1} ELSE UNION {Ends(template, url, i, k) : k \in reached[i - 1]}
        /\ Matches(template, url) <=> Len(url) + 1 \in reached[n]
  BY <1>3, MatchExists
<1> HIDE DEF n
<1>5. ASSUME NEW i \in 1 .. n
      PROVE  /\ at[i - 1] \in Nat /\ at[i - 1] >= 1 /\ at[i] \in Nat /\ at[i] > at[i - 1] /\ at[i] <= Len(url) + 1
             /\ Adjacent(template, i) \/ ~IsPlaceholder(template[i]) => at[i] = at[i - 1] + 1
             /\ ~IsPlaceholder(template[i]) => url[at[i - 1]] = template[i]
  <2> DEFINE piece == Piece(template, values, i)
  <2>1. i - 1 \in 0 .. n /\ i \in 0 .. n /\ i \in DOMAIN template
    BY <1>1
  <2>2. at[i - 1] \in Nat /\ at[i] \in Nat
    BY <1>2, <2>1 DEF Layout, n
  <2>3. /\ at[i] = at[i - 1] + Len(piece)
        /\ \A k \in 1 .. Len(piece) : url[(at[i - 1] - 1) + k] = piece[k]
    BY <1>2 DEF Layout, n
  <2>4. piece \in Seq(S) /\ Len(piece) >= 1 /\ (Adjacent(template, i) => Len(piece) = 1)
    BY <2>1
  <2>5. Len(piece) \in Nat
    BY <2>4
  <2>6. ~IsPlaceholder(template[i]) => piece = <<template[i]>>
    BY DEF Piece
  <2>7. ~IsPlaceholder(template[i]) => Len(piece) = 1 /\ piece[1] = template[i]
    <3> HIDE DEF piece
    <3> QED BY <2>6
  <2>8. 1 <= at[i - 1] /\ at[i] <= Len(url) + 1
    BY <1>2, <1>3, <1>1, <2>1, LayoutRises DEF n
  <2> HIDE DEF piece
  <2>9. at[i] > at[i - 1] /\ (Adjacent(template, i) \/ ~IsPlaceholder(template[i]) => at[i] = at[i - 1] + 1)
    <3>1. at[i] > at[i - 1] /\ (Len(piece) = 1 => at[i] = at[i - 1] + 1)
      <4> DEFINE x == at[i - 1]
                 y == Len(piece)
      <4>1. x \in Nat /\ y \in Nat /\ y >= 1 /\ at[i] = x + y
        BY <2>2, <2>3, <2>4, <2>5
      <4> HIDE DEF x, y
      <4>2. at[i] > x /\ (y = 1 => at[i] = x + 1)
        BY <4>1
      <4> QED BY <4>2 DEF x, y
    <3> QED BY <2>4, <2>7, <3>1
  <2>10. ~IsPlaceholder(template[i]) => url[at[i - 1]] = template[i]
    <3>1. 1 \in 1 .. Len(piece) /\ (at[i - 1] - 1) + 1 = at[i - 1]
      BY <2>2, <2>4, <2>5
    <3> QED BY <2>3, <2>7, <3>1
  <2> QED BY <2>2, <2>8, <2>9, <2>10
<1>6. \A i \in 0 .. n : at[i] \in reached[i]
  <2> DEFINE P == {i \in Nat : i <= n => at[i] \in reached[i]}
  <2>1. 0 \in P
    BY <1>1, <1>2, <1>4 DEF Layout
  <2>2. ASSUME NEW i \in Nat, i \in P PROVE i + 1 \in P
    <3> SUFFICES ASSUME i + 1 <= n PROVE at[i + 1] \in reached[i + 1]
      OBVIOUS
    <3>1. at[i] \in reached[i] /\ i + 1 \in 0 .. n /\ (i + 1) - 1 = i /\ i + 1 # 0 /\ i + 1 \in 1 .. n
      BY <1>1, <2>2
    <3> DEFINE a == at[i]
               b == at[i + 1]
    <3>2. /\ a \in Nat /\ b \in Nat /\ b > a /\ b <= Len(url) + 1
          /\ Adjacent(template, i + 1) \/ ~IsPlaceholder(template[i + 1]) => b = a + 1
          /\ ~IsPlaceholder(template[i + 1]) => url[a] = template[i + 1]
      BY <1>5, <3>1
    <3> HIDE DEF a, b
    <3>3. b \in Ends(template, url, i + 1, a)
      BY <1>3, <3>2 DEF Ends, PermitsSlashes
    <3> QED BY <1>4, <3>1, <3>3 DEF a, b
  <2>3. Nat \subseteq P
    <3> HIDE DEF P
    <3> QED BY <2>1, <2>2, SetInduction
  <2> QED BY <1>1, <2>3
<1> QED BY <1>1, <1>2, <1>4, <1>6 DEF Layout, n, url

(* A template with two adjacent placeholders refuses the URL in which every *)
(* value contains a slash and nothing that it spells itself.               *)
LEMMA FillRefused ==
    ASSUME NEW template, IsList(template), NEW values, NEW S,
           \A i \in DOMAIN template :
              /\ Piece(template, values, i) \in Seq(S)
              /\ IsPlaceholder(template[i]) =>
                    /\ Len(Piece(template, values, i)) = 2
                    /\ \A k \in 1 .. 2 : IsPlaceholder(Piece(template, values, i)[k]),
           NEW g \in 1 .. (Len(template) - 1), IsPlaceholder(template[g]), IsPlaceholder(template[g + 1])
    PROVE  ~Matches(template, Fill(template, values))
<1> DEFINE n == Len(template)
           url == Fill(template, values)
           lits == {i \in 1 .. n : ~IsPlaceholder(template[i])}
           L == {x \in Nat : ~IsPlaceholder(url[x])}
<1>1. n \in Nat /\ DOMAIN template = 1 .. n
  BY ListDomain
<1>2. PICK at : Layout(template, values, url, at)
  BY FillLayout
<1>3. Len(url) \in Nat
  BY <1>2, ListDomain DEF Layout
<1> SUFFICES ASSUME Matches(template, url) PROVE FALSE
  OBVIOUS
<1> HIDE DEF url
<1>4. PICK k : Walk(template, url, k)
  BY <1>3, MatchWalk
<1>5. /\ at \in [0 .. n -> Nat] /\ k \in [0 .. n -> Nat] /\ k[0] = 1 /\ at[0] = 1 /\ k[n] = at[n]
  BY <1>2, <1>4 DEF Layout, Walk
<1>6. ASSUME NEW i \in 1 .. n
      PROVE  /\ k[i - 1] < k[i]
             /\ i \in lits => k[i] = k[i - 1] + 1 /\ k[i - 1] \in L /\ at[i] = at[i - 1] + 1
             /\ i \notin lits => at[i] = at[i - 1] + 2 /\ at[i - 1] \notin L /\ at[i - 1] + 1 \notin L
             /\ Adjacent(template, i) => k[i] = k[i - 1] + 1
  <2> DEFINE piece == Piece(template, values, i)
  <2>1. i - 1 \in 0 .. n /\ i \in 0 .. n /\ i \in DOMAIN template
    BY <1>1
  <2>2. at[i - 1] \in Nat /\ at[i] \in Nat /\ k[i - 1] \in Nat /\ k[i] \in Nat
    BY <1>5, <2>1
  <2>3. k[i] \in Ends(template, url, i, k[i - 1])
    BY <1>4 DEF Walk
  <2>4. k[i - 1] < k[i] /\ (Adjacent(template, i) => k[i] = k[i - 1] + 1)
    BY <1>3, <2>2, <2>3 DEF Ends, PermitsSlashes
  <2>5. /\ at[i] = at[i - 1] + Len(piece)
        /\ \A x \in 1 .. Len(piece) : url[(at[i - 1] - 1) + x] = piece[x]
    BY <1>2 DEF Layout
  <2>6. CASE i \in lits
    <3>1. ~IsPlaceholder(template[i])
      BY <2>6
    <3>2. k[i] = k[i - 1] + 1 /\ url[k[i - 1]] = template[i]
      BY <1>3, <2>2, <2>3, <3>1 DEF Ends, PermitsSlashes
    <3>3. piece = <<template[i]>>
      BY <3>1 DEF Piece
    <3>4. Len(piece) = 1
      <4> HIDE DEF piece
      <4> QED BY <3>3
    <3>5. k[i - 1] \in L
      BY <2>2, <3>1, <3>2
    <3> QED BY <2>4, <2>5, <2>6, <3>2, <3>4, <3>5
  <2>7. CASE i \notin lits
    <3>1. Len(piece) = 2 /\ \A x \in 1 .. 2 : IsPlaceholder(piece[x])
      BY <2>1, <2>7
    <3> HIDE DEF piece
    <3>2. IsPlaceholder(url[(at[i - 1] - 1) + 1]) /\ IsPlaceholder(url[(at[i - 1] - 1) + 2])
      BY <2>5, <3>1
    <3>3. (at[i - 1] - 1) + 1 = at[i - 1] /\ (at[i - 1] - 1) + 2 = at[i - 1] + 1
      BY <2>2
    <3> QED BY <2>4, <2>5, <2>7, <3>1, <3>2, <3>3
  <2> QED BY <2>6, <2>7
<1> HIDE DEF n, lits, L
<1>7. \A i \in 1 .. n : i \in lits => k[i] = at[i]
  <2>1. k[0] = at[0] /\ k[n] = at[n] /\ n \in Nat /\ k \in [0 .. n -> Nat] /\ at \in [0 .. n -> Nat]
    BY <1>1, <1>5
  <2>2. Alongside(n, k, at, lits, L)
    BY <1>6 DEF Alongside
  <2> QED BY <2>1, <2>2, TogetherAtLiterals
<1>8. \A i \in 1 .. n : i \in lits \/ IsPlaceholder(template[i])
  BY DEF lits
<1>n. \A i \in 1 .. n : IsPlaceholder(template[i]) => i \notin lits
  BY DEF lits
<1>a. ASSUME NEW i \in 1 .. n, Adjacent(template, i) PROVE k[i] < at[i]
  <2> DEFINE P == {m \in Nat : m <= n => (m \in 1 .. n /\ Adjacent(template, m) => k[m] < at[m])}
  <2>1. 0 \in P
    OBVIOUS
  <2>2. ASSUME NEW m \in Nat, m \in P PROVE m + 1 \in P
    <3> SUFFICES ASSUME m + 1 <= n, Adjacent(template, m + 1) PROVE k[m + 1] < at[m + 1]
      OBVIOUS
    <3>1. m + 1 \in 1 .. n /\ (m + 1) - 1 = m /\ m \in 0 .. n /\ m + 1 \in 0 .. n
      BY <1>1
    <3>2. m + 1 \notin lits
      BY <1>n, <3>1 DEF Adjacent
    <3>3. k[m] <= at[m]
      <4>1. CASE m = 0
        BY <1>5, <4>1
      <4>2. CASE m \in lits /\ m # 0
        <5>1. m \in 1 .. n
          BY <3>1, <4>2
        <5> QED BY <1>5, <1>7, <3>1, <4>2, <5>1
      <4>3. CASE m # 0 /\ m \notin lits
        <5>1. m \in 1 .. n /\ m = (m + 1) - 1 /\ m + 1 \in {m - 1, m + 1} \cap DOMAIN template
          BY <1>1, <3>1, <4>3
        <5>2. IsPlaceholder(template[m])
          BY <1>8, <4>3, <5>1
        <5>3. IsPlaceholder(template[m + 1])
          BY DEF Adjacent
        <5>4. Adjacent(template, m)
          BY <5>1, <5>2, <5>3 DEF Adjacent
        <5>5. k[m] < at[m] /\ k[m] \in Nat /\ at[m] \in Nat
          BY <1>5, <2>2, <3>1, <5>1, <5>4
        <5> QED BY <5>5
      <4> QED BY <4>1, <4>2, <4>3
    <3>4. k[m + 1] = k[m] + 1 /\ at[m + 1] = at[m] + 2
      BY <1>6, <3>1, <3>2
    <3>5. k[m] \in Nat /\ at[m] \in Nat
      BY <1>5, <3>1
    <3> QED BY <3>3, <3>4, <3>5
  <2>3. Nat \subseteq P
    <3> HIDE DEF P
    <3> QED BY <2>1, <2>2, SetInduction
  <2> QED BY <1>1, <1>a, <2>3
<1> DEFINE Q == {d \in Nat : g + d <= n => Adjacent(template, g + d)}
<1>b. 0 \in Q
  <2>1. g + 1 \in {g - 1, g + 1} \cap DOMAIN template /\ g + 0 = g
    BY <1>1 DEF n
  <2> QED BY <2>1 DEF Adjacent
<1>c. ASSUME NEW d \in Nat, d \in Q PROVE d + 1 \in Q
  <2> DEFINE m == g + d
  <2> SUFFICES ASSUME m + 1 <= n PROVE Adjacent(template, m + 1)
    OBVIOUS
  <2>1. m \in 1 .. n /\ m + 1 \in 1 .. n /\ (m + 1) - 1 = m /\ m \in 0 .. n
    BY <1>1
  <2>2. Adjacent(template, m)
    BY <1>c, <2>1
  <2> HIDE DEF m
  <2>3. k[m] < at[m]
    BY <1>a, <2>1, <2>2
  <2>4. k[m] \in Nat /\ at[m] \in Nat
    BY <1>5, <2>1
  <2>5. m + 1 \notin lits
    <3> SUFFICES ASSUME m + 1 \in lits PROVE FALSE
      OBVIOUS
    <3>1. k[m + 1] = k[m] + 1 /\ at[m + 1] = at[m] + 1 /\ k[m + 1] = at[m + 1]
      BY <1>6, <1>7, <2>1
    <3> QED BY <2>3, <2>4, <3>1
  <2>6. IsPlaceholder(template[m + 1]) /\ IsPlaceholder(template[m])
    BY <1>8, <2>1, <2>2, <2>5 DEF Adjacent
  <2>7. m \in {(m + 1) - 1, (m + 1) + 1} \cap DOMAIN template
    BY <1>1, <2>1
  <2> QED BY <2>6, <2>7 DEF Adjacent
<1>d. Adjacent(template, n)
  <2>1. Nat \subseteq Q
    <3> HIDE DEF Q
    <3> QED BY <1>b, <1>c, SetInduction
  <2>2. n - g \in Nat /\ g + (n - g) = n
    BY <1>1 DEF n
  <2> QED BY <1>1, <2>1, <2>2
<1>e. n \in 1 .. n /\ k[n] \in Nat /\ at[n] \in Nat
  BY <1>1, <1>5 DEF n
<1> QED BY <1>5, <1>a, <1>d, <1>e

(* The router finds a route for every URL that some template takes.        *)
LEMMA RouteFound ==
    ASSUME NEW templates, \A t \in templates : IsList(t), NEW url, NEW t \in templates, Matches(t, url)
    PROVE  FindRoute(templates, url) # {}
<1> DEFINE hits   == {s \in templates : Matches(s, url)}
           counts == {Variables(s) : s \in hits}
<1>1. ASSUME NEW s \in templates PROVE Variables(s) \in Nat
  <2>1. DOMAIN s = 1 .. Len(s) /\ Len(s) \in Nat
    BY ListDomain
  <2>2. IsFiniteSet(1 .. Len(s))
    BY <2>1, FS_Interval
  <2>3. IsFiniteSet({i \in DOMAIN s : IsPlaceholder(s[i])})
    BY <2>1, <2>2, FS_Subset
  <2> QED BY <2>3, FS_CardinalityType DEF Variables
<1>2. counts \subseteq Nat /\ counts # {}
  BY <1>1
<1>3. PICK c \in counts : \A d \in counts : c <= d
  BY <1>2, LeastElement
<1>4. PICK s \in hits : c = Variables(s)
  BY <1>3
<1>5. \A r \in hits : Variables(s) <= Variables(r)
  BY <1>3, <1>4
<1> QED BY <1>4, <1>5 DEF FindRoute

LEMMA ShortLists ==
    ASSUME NEW S, NEW a \in S, NEW b \in S
    PROVE  <<a>> \in Seq(S) /\ Len(<<a>>) = 1 /\ <<a, b>> \in Seq(S) /\ Len(<<a, b>>) = 2
  OBVIOUS

(* The router refuses a request built from a template only when a value    *)
(* with slashes stands next to another placeholder (findRoute after        *)
(* parameterize; the slash-permissive matcher).                            *)
THEOREM RefusedAmbiguous == Spec => []RefusedOnlyWhenAmbiguous
<1>1. IInv => RefusedOnlyWhenAmbiguous
  <2> SUFFICES ASSUME IInv, failure = "no route",
                      \A i \in DOMAIN Op.template : Adjacent(Op.template, i) => Op.template[i] \notin SlashyNames
               PROVE  FALSE
    BY DEF RefusedOnlyWhenAmbiguous
  <2>1. stage = "failed"
    BY NoneAssumption DEF IInv, Place, Failures
  <2>2. /\ method \in DOMAIN resource.methods
        /\ \E i \in DOMAIN rows : \E split \in Splits(Op, rows[i]) : failure = Failure(Op, Settled(split))
    BY <2>1 DEF IInv, FailsForCause
  <2>3. PICK params : Failure(Op, params) = "no route"
    BY <2>2
  <2>4. ~Routable(Op, params)
    BY <2>3, NoneAssumption DEF Failure, Failures
  <2> DEFINE t         == Op.template
             values    == PathValues(Op, params)
             templates == {resource.methods[k].template : k \in DOMAIN resource.methods}
             S         == {t[i] : i \in DOMAIN t} \cup {"more"}
  <2>5. t \in templates /\ \A s \in templates : IsList(s)
    <3>1. resource \in Resources
      BY DEF IInv, Place
    <3>2. ASSUME NEW k \in DOMAIN resource.methods PROVE IsList(resource.methods[k].template)
      BY <3>1, ResourcesAssumption DEF WellFormed, IsList
    <3>3. t \in templates
      BY <2>2 DEF Op
    <3> QED BY <3>2, <3>3
  <2>6. ASSUME NEW i \in DOMAIN t
        PROVE  /\ Piece(t, values, i) \in Seq(S)
               /\ Len(Piece(t, values, i)) >= 1
               /\ Adjacent(t, i) => Len(Piece(t, values, i)) = 1
    <3>1. t[i] \in S /\ "more" \in S
      OBVIOUS
    <3>2. \/ Piece(t, values, i) = <<t[i]>>
          \/ Piece(t, values, i) = <<t[i], "more">> /\ t[i] \in SlashyNames
      <4>1. ASSUME t[i] \in DOMAIN values
            PROVE  values[t[i]] = <<t[i]>> \/ (values[t[i]] = <<t[i], "more">> /\ t[i] \in SlashyNames)
        <5> HIDE DEF t
        <5> QED BY <4>1 DEF PathValues
      <4> HIDE DEF t, values
      <4> QED BY <4>1 DEF Piece
    <3> DEFINE one == <<t[i]>>
               two == <<t[i], "more">>
               piece == Piece(t, values, i)
    <3>3. one \in Seq(S) /\ Len(one) = 1 /\ two \in Seq(S) /\ Len(two) = 2
      BY <3>1, ShortLists
    <3>4. piece = one \/ (piece = two /\ ~Adjacent(t, i))
      BY <3>2
    <3> HIDE DEF S, values, t, one, two, piece
    <3>5. piece \in Seq(S) /\ Len(piece) \in {1, 2}
      BY <3>3, <3>4
    <3>6. Adjacent(t, i) => Len(piece) = 1
      BY <3>3, <3>4
    <3>7. Len(piece) >= 1
      BY ONLY <3>5
    <3> QED BY <3>5, <3>6, <3>7 DEF piece
  <2>7. Matches(t, Fill(t, values))
    <3> HIDE DEF S, values, t, templates
    <3> QED BY <2>5, <2>6, FillMatches
  <2>8. FindRoute(templates, Fill(t, values)) # {}
    <3> HIDE DEF S, values, t, templates
    <3> QED BY <2>5, <2>7, RouteFound
  <2> QED BY <2>4, <2>8 DEF Routable
<1> QED BY <1>1, Invariance, PTL

-----------------------------------------------------------------------------
(***************************************************************************)
(* The same router, seen ahead of time: the analysis of a provider warns   *)
(* of the templates that it may refuse (checkPathParamAdjacency), for      *)
(* every provider and every request (StaticAnalysis).                      *)
(***************************************************************************)

(* Of the templates, filled in with values of one segment and of two: some *)
(* URL is refused exactly when two placeholders are adjacent.              *)
LEMMA RefusedWhenAdjacent ==
    ASSUME NEW t, IsList(t), "v" \notin Literals, "w" \notin Literals
    PROVE  LET params == {t[k] : k \in {j \in DOMAIN t : IsPlaceholder(t[j])}}
           IN  (\E values \in [params -> {<<"v">>, <<"v", "w">>}] : ~Matches(t, Fill(t, values)))
               <=> hasAdjacentPathParams(t)
<1> DEFINE params == {t[k] : k \in {j \in DOMAIN t : IsPlaceholder(t[j])}}
           S == {t[j] : j \in DOMAIN t} \cup {"v", "w"}
           one == <<"v">>
           two == <<"v", "w">>
<1>1. DOMAIN t = 1 .. Len(t) /\ Len(t) \in Nat
  BY ListDomain
<1>2. one \in Seq(S) /\ Len(one) = 1 /\ two \in Seq(S) /\ Len(two) = 2
  BY ShortLists
<1>3. \A k \in 1 .. 2 : IsPlaceholder(two[k])
  BY DEF IsPlaceholder
<1>4. ASSUME NEW j \in DOMAIN t PROVE <<t[j]>> \in Seq(S) /\ Len(<<t[j]>>) = 1
  <2>1. t[j] \in S
    OBVIOUS
  <2> HIDE DEF S
  <2> QED BY <2>1, ShortLists
<1>5. ASSUME hasAdjacentPathParams(t)
      PROVE  \E values \in [params -> {one, two}] : ~Matches(t, Fill(t, values))
  <2> DEFINE values == [p \in params |-> two]
  <2>1. PICK g \in 1 .. (Len(t) - 1) : IsPlaceholder(t[g]) /\ IsPlaceholder(t[g + 1])
    BY <1>5 DEF hasAdjacentPathParams, IsPlaceholder
  <2>2. ASSUME NEW j \in DOMAIN t
        PROVE  /\ IsPlaceholder(t[j]) => Piece(t, values, j) = two
               /\ ~IsPlaceholder(t[j]) => Piece(t, values, j) = <<t[j]>>
    BY DEF Piece
  <2>3. values \in [params -> {one, two}]
    OBVIOUS
  <2> HIDE DEF values, one, two, S, params
  <2>4. ASSUME NEW j \in DOMAIN t
        PROVE  /\ Piece(t, values, j) \in Seq(S)
               /\ IsPlaceholder(t[j]) => /\ Len(Piece(t, values, j)) = 2
                                         /\ \A k \in 1 .. 2 : IsPlaceholder(Piece(t, values, j)[k])
    BY <1>2, <1>3, <1>4, <2>2
  <2>5. ~Matches(t, Fill(t, values))
    BY <2>1, <2>4, FillRefused
  <2> QED BY <2>3, <2>5
<1>6. ASSUME ~hasAdjacentPathParams(t), NEW values \in [params -> {one, two}]
      PROVE  Matches(t, Fill(t, values))
  <2>1. ASSUME NEW j \in DOMAIN t PROVE ~Adjacent(t, j)
    <3> SUFFICES ASSUME IsPlaceholder(t[j]), NEW i \in {j - 1, j + 1} \cap DOMAIN t, IsPlaceholder(t[i]) PROVE FALSE
      BY DEF Adjacent
    <3>1. i \in 1 .. Len(t) /\ j \in 1 .. Len(t) /\ (i = j - 1 \/ i = j + 1)
      BY <1>1
    <3>2. CASE i = j - 1
      <4>1. i \in 1 .. (Len(t) - 1) /\ i + 1 = j
        BY <1>1, <3>1, <3>2
      <4> QED BY <1>6, <4>1 DEF hasAdjacentPathParams, IsPlaceholder
    <3>3. CASE i = j + 1
      <4>1. j \in 1 .. (Len(t) - 1)
        BY <1>1, <3>1, <3>3
      <4> QED BY <1>6, <3>3, <4>1 DEF hasAdjacentPathParams, IsPlaceholder
    <3> QED BY <3>1, <3>2, <3>3
  <2>2. ASSUME NEW j \in DOMAIN t PROVE Piece(t, values, j) \in {one, two, <<t[j]>>}
    <3>1. CASE IsPlaceholder(t[j]) /\ t[j] \in DOMAIN values
      <4>1. values[t[j]] \in {one, two}
        BY <3>1
      <4> HIDE DEF one, two
      <4> QED BY <3>1, <4>1 DEF Piece
    <3>2. CASE ~(IsPlaceholder(t[j]) /\ t[j] \in DOMAIN values)
      BY <3>2 DEF Piece
    <3> QED BY <3>1, <3>2
  <2> HIDE DEF one, two, S, params
  <2>3. ASSUME NEW j \in DOMAIN t
        PROVE  /\ Piece(t, values, j) \in Seq(S) /\ Len(Piece(t, values, j)) >= 1
               /\ Adjacent(t, j) => Len(Piece(t, values, j)) = 1
    <3>1. Piece(t, values, j) \in Seq(S) /\ Len(Piece(t, values, j)) \in {1, 2}
      BY <1>2, <1>4, <2>2
    <3> QED BY <2>1, <3>1
  <2> QED BY <2>3, FillMatches
<1> QED BY <1>5, <1>6

-----------------------------------------------------------------------------
(* The warning among the findings of a method.                             *)
Warning == NewWarning("path-param-adjacent", "slashes")
Warns(m) == m.opRef # "nil" /\ hasAdjacentPathParams(m.template)
Other(fs) == \A f \in fs : "bin" \in DOMAIN f /\ f.bin # "path-param-adjacent"

LEMMA FindingOf ==
    \A level, bin, what : "bin" \in DOMAIN Finding(level, bin, what) /\ Finding(level, bin, what).bin = bin
  BY DEF Finding

LEMMA OtherBins ==
    /\ Other({})
    /\ \A a, b : Other(a) /\ Other(b) => Other(a \cup b)
    /\ \A c, bin, what : bin # "path-param-adjacent" =>
          Other(When(c, NewWarning(bin, what))) /\ Other(When(c, NewError(bin, what)))
    /\ \A level, bin, what : bin # "path-param-adjacent" => Other({Finding(level, bin, what)})
<1>1. Other({}) /\ \A a, b : Other(a) /\ Other(b) => Other(a \cup b)
  BY DEF Other
<1>2. ASSUME NEW c, NEW bin, NEW what, bin # "path-param-adjacent"
      PROVE  Other(When(c, NewWarning(bin, what))) /\ Other(When(c, NewError(bin, what)))
  BY <1>2, FindingOf DEF NewWarning, NewError, When, Other
<1>3. ASSUME NEW level, NEW bin, NEW what, bin # "path-param-adjacent" PROVE Other({Finding(level, bin, what)})
  BY <1>3, FindingOf DEF Other
<1> QED BY <1>1, <1>2, <1>3

LEMMA ReportFindings ==
    /\ \A fs : Recorded(fs).findings = fs /\ OnlyFindings(fs).findings = fs /\ OnlyErrors(fs).findings = {}
    /\ \A a, b : Join(a, b).findings = a.findings \cup b.findings
  BY DEF Recorded, OnlyFindings, OnlyErrors, Join

(* Every other check has findings of other kinds only.                     *)
LEMMA ChecksOther ==
    ASSUME NEW m
    PROVE  /\ Other(checkRequestParamRoutability(m)) /\ Other(checkRefResolution(m))
           /\ Other(checkServerURLValidity(m)) /\ Other(checkPaginationCompleteness(m))
           /\ Other(checkTransformSchemaConsistency(m)) /\ Other(MissingSemantics(m).findings)
<1>1. Other(checkRequestParamRoutability(m))
  BY OtherBins DEF checkRequestParamRoutability
<1>2. Other(checkRefResolution(m))
  BY OtherBins DEF checkRefResolution
<1>3. Other(checkServerURLValidity(m))
  BY OtherBins DEF checkServerURLValidity
<1>4. Other(checkPaginationCompleteness(m))
  BY OtherBins DEF checkPaginationCompleteness
<1>5. Other(checkTransformSchemaConsistency(m))
  BY OtherBins DEF checkTransformSchemaConsistency
<1>6. Other(MissingSemantics(m).findings)
  <2> DEFINE fs == When(m.verb = "select" /\ ObjectKey(m) = NoKey, NewWarning("missing-semantics", "selection")) \cup
                   When(m.verb = "", NewWarning("missing-semantics", "no verb"))
  <2>1. Other(fs)
    BY OtherBins
  <2> HIDE DEF fs
  <2>2. OnlyFindings(fs).findings = fs
    BY ReportFindings
  <2> QED BY <2>1, <2>2 DEF MissingSemantics, fs
<1> QED BY <1>1, <1>2, <1>3, <1>4, <1>5, <1>6

LEMMA KeyOther ==
    ASSUME NEW m, NEW s
    PROVE  Other(analyzeObjectKeyRoutability(m, s).findings)
<1> DEFINE fs == When(ObjectKey(m).kind = "json" /\ ResponseMediaType(m) = "xml",
                      NewWarning("media-type-mismatch", "JSONPath")) \cup
                 When(~walkSchemaPath(s, ObjectKey(m).path), NewWarning("objectKey-unroutable", "walk")) \cup
                 When(SelectSchema(m) = Absent, NewError("objectKey-unroutable", "selection"))
<1>1. Other(fs)
  BY OtherBins
<1> HIDE DEF fs
<1>2. Recorded(fs).findings = fs
  BY ReportFindings
<1> QED BY <1>1, <1>2 DEF analyzeObjectKeyRoutability, fs

(* A finding that gets a sample or a repair keeps its bin.                 *)
LEMMA TransformOther ==
    ASSUME NEW m, NEW s
    PROVE  Other(analyzeResponseTransform(m, s).findings)
<1> DEFINE t == Transform(m)
           fs == TemplateErrors(t)
           as == AnalyzeTemplate(t)
           sample == GenerateSampleResponsePair(RawSchema(m), IF m.response.overrideMedia # "" THEN m.response.override ELSE Absent)
           shapeless == s.type \in {"string", "integer", "boolean", "number"} \/ (s.type = "object" /\ s.props = <<>>)
           ss == {[f EXCEPT !.sample = sample] : f \in as}
           es == When(~RunEmpiricalTests(t), NewError("empty-response-unsafe", "empty input")) \cup
                 When(shapeless /\ ObjectKey(m) # NoKey, NewWarning("empty-response-unsafe", "shape"))
<1>1. Other(fs)
  <2>1. Other({NewError("", "type")}) /\ Other({NewError("", "parse")})
    BY OtherBins DEF NewError
  <2> QED BY <2>1, OtherBins DEF TemplateErrors
<1>2. Other(as)
  <2>1. Other({[f EXCEPT !.fixed = TRUE] : f \in fs})
    <3> HIDE DEF fs
    <3> QED BY <1>1 DEF Other
  <2>2. \A c : Other(fs \cup When(c, NewWarning("response-shape-unsafe", "fix fails")))
    BY <1>1, OtherBins
  <2> QED BY <2>1, <2>2 DEF AnalyzeTemplate
<1>3. Other(ss)
  <2> HIDE DEF as, sample
  <2> QED BY <1>2 DEF Other
<1>4. Other(es)
  BY OtherBins
<1>5. analyzeResponseTransform(m, s) = IF t = Absent THEN OnlyFindings({}) ELSE Join(Recorded(ss), Recorded(es))
  BY DEF analyzeResponseTransform
<1> HIDE DEF ss, es
<1>6. OnlyFindings({}).findings = {} /\ Join(Recorded(ss), Recorded(es)).findings = ss \cup es
  BY ReportFindings
<1> QED BY <1>3, <1>4, <1>5, <1>6, OtherBins

LEMMA ResponseOther ==
    ASSUME NEW m
    PROVE  Other(analyzeResponseAndObjectKey(m).findings)
<1> DEFINE s == ResponseBodySchema(m)
           as == When(ObjectKey(m) # NoKey, NewError("objectKey-unroutable", "no schema")) \cup
                 When(ShouldBeSelectable(m) /\ Transform(m) = Absent, NewWarning("empty-response-unsafe", "no schema"))
           bs == When(s.type = "object" /\ s.props = <<>>, NewWarning("empty-response-unsafe", "empty object"))
           key == analyzeObjectKeyRoutability(m, s)
           rest == analyzeResponseTransform(m, s)
<1>1. Other(as) /\ Other(bs) /\ Other(key.findings) /\ Other(rest.findings)
  BY OtherBins, KeyOther, TransformOther
<1>2. analyzeResponseAndObjectKey(m) =
        IF s = Absent THEN Recorded(as)
        ELSE Join(IF ObjectKey(m) # NoKey THEN Join(Recorded(bs), key) ELSE OnlyFindings({}), rest)
  BY DEF analyzeResponseAndObjectKey
<1> HIDE DEF as, bs, key, rest
<1>3. /\ Recorded(as).findings = as
      /\ Join(Join(Recorded(bs), key), rest).findings = (bs \cup key.findings) \cup rest.findings
      /\ Join(OnlyFindings({}), rest).findings = {} \cup rest.findings
  <2>1. OnlyFindings({}).findings = {} /\ Recorded(as).findings = as /\ Recorded(bs).findings = bs
    BY ReportFindings
  <2>2. \A a, b : Join(a, b).findings = a.findings \cup b.findings
    BY ReportFindings
  <2>3. Join(OnlyFindings({}), rest).findings = {} \cup rest.findings
    BY <2>1, <2>2
  <2>4. Join(Recorded(bs), key).findings = bs \cup key.findings
    BY <2>1, <2>2
  <2> QED BY <2>1, <2>2, <2>3, <2>4
<1>4. Other((bs \cup key.findings) \cup rest.findings) /\ Other({} \cup rest.findings)
  BY <1>1, OtherBins
<1> QED BY <1>1, <1>2, <1>3, <1>4

(* The analysis of a method warns of adjacent parameters exactly when the  *)
(* check does.                                                             *)
Verdict(m, fs) == (Warns(m) => Warning \in fs) /\ (~Warns(m) => Other(fs))

LEMMA MethodWarns ==
    ASSUME NEW m, NEW protocol
    PROVE  Verdict(m, analyzeMethod(m, protocol).findings)
<1> DEFINE report == Join(Prepared(m, protocol), OnlyFindings(MethodChecks(m)))
<1>1. Verdict(m, MethodChecks(m))
  <2>1. Warns(m) => Warning \in MethodChecks(m)
    BY DEF Warns, Warning, MethodChecks, checkPathParamAdjacency, When
  <2>2. ~Warns(m) => Other(checkPathParamAdjacency(m))
    BY OtherBins DEF Warns, checkPathParamAdjacency, When
  <2>3. ~Warns(m) => Other(MethodChecks(m))
    BY <2>2, ChecksOther, OtherBins DEF MethodChecks
  <2> QED BY <2>1, <2>3 DEF Verdict
<1>2. ASSUME NEW a, NEW b, Verdict(m, a), Other(b) PROVE Verdict(m, a \cup b) /\ Verdict(m, b \cup a)
  <2>1. Other(a) => Other(a \cup b) /\ Other(b \cup a)
    BY <1>2, OtherBins
  <2> QED BY <1>2, <2>1 DEF Verdict
<1>3. Verdict(m, report.findings)
  <2>1. report.findings = {} \cup MethodChecks(m)
    <3>1. Prepared(m, protocol).findings = {} /\ OnlyFindings(MethodChecks(m)).findings = MethodChecks(m)
      BY DEF Prepared, OnlyErrors, OnlyFindings
    <3> QED BY <3>1, ReportFindings
  <2> QED BY <1>1, <1>2, <2>1, OtherBins
<1>4. ASSUME NEW r, Verdict(m, r.findings) PROVE Verdict(m, WithMock(m, r).findings)
  <2> DEFINE f == [Finding("info", "", "mock") EXCEPT
                     !.sample = GenerateSampleResponsePair(FinalResponseBodySchema(m), FinalResponseBodySchema(m))]
  <2>1. Other({Finding("info", "", "mock")})
    BY OtherBins
  <2>2. Other({f})
    BY <2>1 DEF Other
  <2>3. WithMock(m, r) = r \/ WithMock(m, r) = Join(r, OnlyFindings({f}))
    BY DEF WithMock
  <2> HIDE DEF f
  <2>4. Join(r, OnlyFindings({f})).findings = r.findings \cup {f}
    BY ReportFindings
  <2> QED BY <1>2, <1>4, <2>2, <2>3, <2>4
<1>5. ASSUME NEW r, Verdict(m, r.findings), NEW x, Other(x.findings) PROVE Verdict(m, Join(r, x).findings)
  BY <1>2, <1>5, ReportFindings
<1>6. \A es : Other(OnlyErrors(es).findings)
  BY ReportFindings, OtherBins
<1>7. ASSUME NEW r, Verdict(m, r.findings) PROVE Verdict(m, AnalyzeHTTP(m, r).findings)
  <2> DEFINE met == Join(r, MissingSemantics(m))
  <2>1. Verdict(m, met.findings)
    BY <1>5, <1>7, ChecksOther
  <2> HIDE DEF met
  <2>2. \A es : Verdict(m, Join(met, OnlyErrors(es)).findings)
    BY <1>5, <1>6, <2>1
  <2>3. Verdict(m, WithMock(m, Join(met, analyzeResponseAndObjectKey(m))).findings)
    BY <1>4, <1>5, <2>1, ResponseOther
  <2> QED BY <1>7, <2>2, <2>3 DEF AnalyzeHTTP, met
<1> HIDE DEF report
<1>8. \A es : Verdict(m, WithMock(m, Join(report, OnlyErrors(es))).findings)
  BY <1>3, <1>4, <1>5, <1>6
<1> QED BY <1>3, <1>7, <1>8 DEF analyzeMethod, report

-----------------------------------------------------------------------------
(* The walk: what is to be analysed is there, what has been analysed has   *)
(* left its warning behind, and no warning came from anything else.        *)
MethodAt(e) == provider.services[e.service].methods[e.resource][e.method]
IsThere(e) ==
    /\ e.service \in DOMAIN provider.services
    /\ e.resource \in DOMAIN provider.services[e.service].methods
    /\ e.method \in DOMAIN provider.services[e.service].methods[e.resource]
Left(e) == [service |-> e.service, resource |-> e.resource, method |-> e.method, finding |-> Warning]

Ahead ==
    /\ provider \in Providers
    /\ queue \subseteq DOMAIN provider.services
    /\ phase \in {"expand", "methods"} =>
          /\ service \in DOMAIN provider.services
          /\ DOMAIN resources \subseteq DOMAIN Svc.methods
          /\ pending \subseteq DOMAIN Svc.methods /\ (pending # {} => Svc.register)
    /\ phase = "methods" => \A p \in left : p[1] \in DOMAIN Svc.methods /\ p[2] \in DOMAIN Methods(p[1])

Behind ==
    /\ IsList(analysed)
    /\ \A i \in DOMAIN analysed :
          IsThere(analysed[i]) /\ (Warns(MethodAt(analysed[i])) => Left(analysed[i]) \in findings)
    /\ \A f \in findings : f.finding.bin = "path-param-adjacent" => Warns(MethodAt(f))

WarnInv == Ahead /\ Behind

LEMMA WarnInit == AnalysisInit => WarnInv
  BY EmptyList DEF AnalysisInit, WarnInv, Ahead, Behind

(* A step that adds nothing to the entries and no such warning.            *)
LEMMA BehindStays ==
    ASSUME Behind, provider' = provider, analysed' = analysed, findings \subseteq findings',
           \A f \in findings' \ findings : f.finding.bin # "path-param-adjacent"
    PROVE  Behind'
<1>1. \A e : IsThere(e)' = IsThere(e) /\ MethodAt(e)' = MethodAt(e) /\ Left(e)' = Left(e)
  BY DEF IsThere, MethodAt, Left, Warning
<1> QED BY <1>1 DEF Behind, Warns

LEMMA WalkSteps ==
    ASSUME WarnInv, Attached, Begin \/ FinishExpansion \/ (\E s \in queue : OpenService(s))
    PROVE  WarnInv'
<1>1. Behind'
  <2>1. provider' = provider /\ analysed' = analysed /\ findings' = findings
    BY DEF Begin, FinishExpansion, OpenService
  <2> QED BY <2>1, BehindStays DEF WarnInv
<1>2. ASSUME Begin PROVE Ahead'
  BY <1>2 DEF Begin, Over, WarnInv, Ahead
<1>3. ASSUME FinishExpansion PROVE Ahead'
  <2>1. /\ phase = "expand" /\ UNCHANGED <<provider, request, queue, service, pending, resources>>
        /\ phase' \in {"walk", "report", "methods"} /\ (phase' = "methods" => left' = {p \in Selected : p[2] \in DOMAIN Methods(p[1])} /\ (Whole \/ ~Refused))
    BY <1>3 DEF FinishExpansion, Over
  <2>2. Svc' = Svc /\ \A r : Methods(r)' = Methods(r)
    BY <2>1 DEF Svc, Methods
  <2>3. ASSUME phase' = "methods", NEW p \in left' PROVE p[1] \in DOMAIN resources /\ p[2] \in DOMAIN Methods(p[1])
    <3>1. p \in Selected /\ p[2] \in DOMAIN Methods(p[1])
      BY <2>1, <2>3
    <3>2. p[1] \in DOMAIN resources
      <4>1. CASE Whole
        <5>1. p \in {<<r, n>> : r \in DOMAIN resources, n \in UNION {DOMAIN Methods(q) : q \in DOMAIN resources}}
          BY <3>1, <4>1 DEF Selected, Whole
        <5>2. PICK r \in DOMAIN resources : \E n : p = <<r, n>>
          BY <5>1
        <5> QED BY <5>2
      <4>2. CASE ~Whole
        <5>1. p[1] = request.resource
          BY <3>1, <4>2 DEF Selected
        <5>2. request.resource \in DOMAIN resources
          BY <2>1, <2>3, <4>2 DEF Refused
        <5> QED BY <5>1, <5>2
      <4> QED BY <4>1, <4>2
    <3> QED BY <3>1, <3>2
  <2> QED BY <2>1, <2>2, <2>3 DEF WarnInv, Ahead
<1>4. ASSUME NEW s \in queue, OpenService(s) PROVE Ahead'
  <2> DEFINE svc == provider.services[s]
  <2>1. /\ phase = "walk" /\ service' = s /\ queue' = queue \ {s} /\ provider' = provider
        /\ IF ~svc.readable THEN phase' \in {"walk", "report"}
           ELSE /\ phase' = "expand" /\ pending' = (IF svc.register THEN DOMAIN svc.methods ELSE {})
                /\ resources' = IF svc.register THEN <<>> ELSE [r \in DOMAIN svc.methods |-> s]
    BY <1>4 DEF OpenService, Over
  <2>2. Svc' = svc
    BY <2>1 DEF Svc
  <2> HIDE DEF svc
  <2>3. svc.readable => DOMAIN resources' \subseteq DOMAIN svc.methods /\ pending' \subseteq DOMAIN svc.methods /\ (pending' # {} => svc.register)
    BY <2>1
  <2> QED BY <2>1, <2>2, <2>3 DEF WarnInv, Ahead
<1> QED BY <1>1, <1>2, <1>3, <1>4 DEF WarnInv

LEMMA FragmentStep ==
    ASSUME WarnInv, Attached, NEW r \in pending, LoadFragment(r)
    PROVE  WarnInv'
<1>1. /\ phase = "expand" /\ phase' = phase /\ provider' = provider /\ service' = service /\ queue' = queue
      /\ analysed' = analysed /\ findings' = findings
  BY DEF LoadFragment
<1>2. Behind'
  BY <1>1, BehindStays DEF WarnInv
<1>3. Svc' = Svc
  BY <1>1 DEF Svc
<1>4. service \in DOMAIN provider.services /\ provider \in Providers /\ r \in DOMAIN Svc.methods /\ Svc.register
  BY <1>1 DEF WarnInv, Ahead
<1>5. Svc.fragment[r] \subseteq DOMAIN Svc.methods
  BY <1>4 DEF Attached, Svc
<1>6. pending' \subseteq pending
  BY DEF LoadFragment, PendingAfterFailure
<1>7. DOMAIN resources' \subseteq DOMAIN resources \cup Svc.fragment[r]
  BY DEF LoadFragment
<1>8. Ahead'
  BY <1>1, <1>3, <1>4, <1>5, <1>6, <1>7 DEF WarnInv, Ahead
<1> QED BY <1>2, <1>8 DEF WarnInv

LEMMA AnalyzeStep ==
    ASSUME WarnInv, NEW p \in left, AnalyzeOne(p[1], p[2])
    PROVE  WarnInv'
<1> DEFINE r == p[1]
           n == p[2]
           m == Methods(r)[n]
           fs == analyzeMethod(m, provider.protocol).findings
           e == [service |-> service, resource |-> r, method |-> n, fragment |-> fragments[r]]
           new == {[service |-> service, resource |-> r, method |-> n, finding |-> f] : f \in fs}
<1>1. /\ phase = "methods" /\ phase' = phase /\ UNCHANGED <<provider, service, queue, pending, resources>>
      /\ left' \subseteq left /\ analysed' = Append(analysed, e) /\ findings' = findings \cup new
  BY DEF AnalyzeOne
<1>2. Ahead'
  <2>1. Svc' = Svc /\ \A q : Methods(q)' = Methods(q)
    BY <1>1 DEF Svc, Methods
  <2> QED BY <1>1, <2>1 DEF WarnInv, Ahead
<1>3. \A x : IsThere(x)' = IsThere(x) /\ MethodAt(x)' = MethodAt(x) /\ Left(x)' = Left(x) /\ Warns(x)' = Warns(x)
  BY <1>1 DEF IsThere, MethodAt, Left, Warning, Warns
<1>4. IsThere(e) /\ MethodAt(e) = m
  BY <1>1 DEF WarnInv, Ahead, IsThere, MethodAt, Svc, Methods
<1>5. Verdict(m, fs)
  BY MethodWarns
<1>6. Left(e) = [service |-> service, resource |-> r, method |-> n, finding |-> Warning]
  BY DEF Left
<1>7. ASSUME NEW x \in new, x.finding.bin = "path-param-adjacent" PROVE Warns(MethodAt(x))
  <2>1. PICK f \in fs : x = [service |-> service, resource |-> r, method |-> n, finding |-> f]
    OBVIOUS
  <2>2. MethodAt(x) = m /\ x.finding = f
    <3> HIDE DEF fs, r, n
    <3> QED BY <2>1 DEF MethodAt, Svc, Methods
  <2> HIDE DEF fs, m
  <2> QED BY <1>5, <1>7, <2>1, <2>2 DEF Verdict, Other
<1>8. Warns(m) => Left(e) \in new
  BY <1>5, <1>6 DEF Verdict
<1> HIDE DEF e, new, m, fs
<1>9. /\ IsList(Append(analysed, e)) /\ Len(analysed) \in Nat
      /\ DOMAIN analysed = 1 .. Len(analysed) /\ DOMAIN Append(analysed, e) = 1 .. (Len(analysed) + 1)
      /\ \A i \in 1 .. Len(analysed) : Append(analysed, e)[i] = analysed[i]
      /\ Append(analysed, e)[Len(analysed) + 1] = e
  BY ListAppend DEF WarnInv, Behind
<1>10. ASSUME NEW i \in DOMAIN analysed'
       PROVE  IsThere(analysed'[i]) /\ (Warns(MethodAt(analysed'[i])) => Left(analysed'[i]) \in findings')
  <2>1. CASE i \in DOMAIN analysed
    BY <1>1, <1>9, <2>1 DEF WarnInv, Behind
  <2>2. CASE i = Len(analysed) + 1
    BY <1>1, <1>4, <1>8, <1>9, <2>2
  <2>3. i \in DOMAIN analysed \/ i = Len(analysed) + 1
    BY <1>1, <1>9
  <2> QED BY <2>1, <2>2, <2>3
<1>11. Behind'
  <2>1. \A x \in findings' : x.finding.bin = "path-param-adjacent" => Warns(MethodAt(x))
    BY <1>1, <1>7 DEF WarnInv, Behind
  <2>2. IsList(analysed')
    BY <1>1, <1>9
  <2> QED BY <1>3, <1>10, <2>1, <2>2 DEF Behind
<1> QED BY <1>2, <1>11 DEF WarnInv

LEMMA EndSteps ==
    ASSUME WarnInv, FinishMethods \/ FinishWalk \/ Report \/ AnalysisDone \/ UNCHANGED analysisVars
    PROVE  WarnInv'
<1>1. provider' = provider /\ analysed' = analysed /\ queue' = queue
  BY DEF FinishMethods, FinishWalk, Report, AnalysisDone, analysisVars
<1>2. findings \subseteq findings' /\ \A f \in findings' \ findings : f.finding.bin # "path-param-adjacent"
  <2>1. ASSUME FinishMethods PROVE findings \subseteq findings' /\ \A f \in findings' \ findings : f.finding.bin # "path-param-adjacent"
    <3> DEFINE checks(r) == checkSQLVerbCoverage(r) \cup checkCrossResourceConsistency(r)
    <3>1. ASSUME NEW r PROVE Other(checks(r))
      BY OtherBins DEF checkSQLVerbCoverage, checkCrossResourceConsistency
    <3> HIDE DEF checks
    <3>2. findings' = findings \cup
             IF ~Whole THEN {}
             ELSE UNION {{[service |-> service, resource |-> r, method |-> NoName, finding |-> f] : f \in checks(r)} :
                           r \in DOMAIN resources}
      BY <2>1 DEF FinishMethods, checks
    <3>3. ASSUME NEW x \in findings' \ findings PROVE x.finding.bin # "path-param-adjacent"
      <4>1. PICK r \in DOMAIN resources : \E f \in checks(r) : x = [service |-> service, resource |-> r, method |-> NoName, finding |-> f]
        BY <3>2, <3>3
      <4> QED BY <3>1, <4>1 DEF Other
    <3> QED BY <3>2, <3>3
  <2>2. ASSUME ~FinishMethods PROVE findings' = findings
    BY <2>2 DEF FinishWalk, Report, AnalysisDone, analysisVars
  <2> QED BY <2>1, <2>2
<1>3. Behind'
  BY <1>1, <1>2, BehindStays DEF WarnInv
<1>4. phase' \in {"walk", "report", "done"} \/ UNCHANGED analysisVars
  BY DEF FinishMethods, FinishWalk, Report, AnalysisDone, Over
<1>5. ASSUME UNCHANGED analysisVars PROVE Ahead'
  BY <1>5 DEF WarnInv, Ahead, analysisVars, Svc, Methods
<1>6. Ahead'
  BY <1>1, <1>4, <1>5 DEF WarnInv, Ahead
<1> QED BY <1>3, <1>6 DEF WarnInv

(* Throughout an analysis, the walk stands at services, resources and      *)
(* methods there are, every method analysed so far that deserves the       *)
(* warning has it, and no other method has.                                *)
THEOREM WarnInvariance == AnalysisSpec => []WarnInv
<1>1. WarnInv /\ [AnalysisNext]_analysisVars => WarnInv'
  BY ProvidersAssumption, WalkSteps, FragmentStep, AnalyzeStep, EndSteps DEF AnalysisNext
<1> QED BY <1>1, WarnInit, PTL DEF AnalysisSpec

(* The warning about adjacent path parameters is given for a method        *)
(* exactly when the router refuses some URL made from its template.        *)
THEOREM AdjacencyExact == AnalysisSpec => []AdjacencyWarningIsExact
<1>0. Attached /\ Templated /\ {"v", "w"} \cap Literals = {}
  BY ProvidersAssumption, TemplatesAssumption, SamplesAssumption
<1>1. WarnInv => AdjacencyWarningIsExact
  <2> SUFFICES ASSUME WarnInv, NEW i \in DOMAIN analysed
               PROVE  LET a == analysed[i]
                          t == provider.services[a.service].methods[a.resource][a.method].template
                          params == {t[k] : k \in {j \in DOMAIN t : IsPlaceholder(t[j])}}
                          refused == \E values \in [params -> {<<"v">>, <<"v", "w">>}] : ~Matches(t, Fill(t, values))
                      IN  refused <=> \E f \in findings : /\ f.service = a.service /\ f.resource = a.resource
                                                         /\ f.method = a.method /\ f.finding.bin = "path-param-adjacent"
    BY DEF AdjacencyWarningIsExact
  <2> DEFINE a == analysed[i]
             m == MethodAt(a)
             t == m.template
             params == {t[k] : k \in {j \in DOMAIN t : IsPlaceholder(t[j])}}
             refused == \E values \in [params -> {<<"v">>, <<"v", "w">>}] : ~Matches(t, Fill(t, values))
             warned == \E f \in findings : /\ f.service = a.service /\ f.resource = a.resource
                                           /\ f.method = a.method /\ f.finding.bin = "path-param-adjacent"
  <2>1. IsThere(a) /\ (Warns(m) => Left(a) \in findings) /\ provider \in Providers
    BY DEF WarnInv, Ahead, Behind
  <2>2. IsList(t) /\ (m.opRef = "nil" => t = <<>>)
    BY <1>0, <2>1 DEF Templated, IsThere, MethodAt, IsList
  <2> HIDE DEF a
  <2>3. warned => Warns(m)
    <3> SUFFICES ASSUME NEW f \in findings, f.service = a.service, f.resource = a.resource,
                        f.method = a.method, f.finding.bin = "path-param-adjacent"
                 PROVE  Warns(m)
      OBVIOUS
    <3>1. MethodAt(f) = m
      BY DEF MethodAt
    <3> QED BY <3>1 DEF WarnInv, Behind
  <2>4. Warns(m) => warned
    <3> SUFFICES ASSUME Warns(m) PROVE warned
      OBVIOUS
    <3>1. Left(a) \in findings
      BY <2>1
    <3>2. Left(a).service = a.service /\ Left(a).resource = a.resource /\ Left(a).method = a.method /\ Left(a).finding = Warning
      BY DEF Left
    <3>3. Warning.bin = "path-param-adjacent"
      BY FindingOf DEF Warning, NewWarning
    <3> QED BY <3>1, <3>2, <3>3
  <2>5. "v" \notin Literals /\ "w" \notin Literals
    BY <1>0
  <2> HIDE DEF m, warned
  <2>6. refused <=> hasAdjacentPathParams(t)
    <3> HIDE DEF t
    <3> QED BY <2>2, <2>5, RefusedWhenAdjacent
  <2>7. hasAdjacentPathParams(t) <=> Warns(m)
    <3>1. m.opRef = "nil" => ~hasAdjacentPathParams(t)
      <4> SUFFICES ASSUME t = <<>> PROVE ~hasAdjacentPathParams(t)
        BY <2>2
      <4>1. Len(t) = 0
        BY EmptyList
      <4>2. 1 .. (Len(t) - 1) = {}
        BY <4>1
      <4> QED BY <4>2 DEF hasAdjacentPathParams
    <3> QED BY <3>1 DEF Warns
  <2>8. refused <=> warned
    <3> HIDE DEF refused
    <3> QED BY <2>3, <2>4, <2>6, <2>7
  <2> QED BY <2>8 DEF warned, m, a, MethodAt
<1> QED BY <1>1, WarnInvariance, PTL

(***************************************************************************)
(* Query parameter pushdown (QueryPushdown), for every configuration,      *)
(* query and table.  A list of rows is told by the list of positions of    *)
(* the table that it shows: filters, orders, windows and projections act   *)
(* on that list, and a list in a linear order is determined by its         *)
(* elements.                                                               *)
(***************************************************************************)

(* Lists in the order of a relation.                                       *)
Elements(x) == {x[i] : i \in DOMAIN x}
Rising(x, R) == \A i, j \in DOMAIN x : i < j => <<x[i], x[j]>> \in R
Linear(R, S) ==
    /\ \A a \in S : <<a, a>> \notin R
    /\ \A a, b \in S : a = b \/ <<a, b>> \in R \/ <<b, a>> \in R
    /\ \A a, b, c \in S : <<a, b>> \in R /\ <<b, c>> \in R => <<a, c>> \in R

LEMMA RisingAgree ==
    ASSUME NEW S, NEW R, Linear(R, S), NEW x \in Seq(S), NEW y \in Seq(S),
           Rising(x, R), Rising(y, R), Elements(x) = Elements(y)
    PROVE  \A i \in DOMAIN x \cap DOMAIN y : x[i] = y[i]
<1> DEFINE D == {i \in DOMAIN x \cap DOMAIN y : x[i] # y[i]}
<1>1. /\ Len(x) \in Nat /\ Len(y) \in Nat /\ DOMAIN x = 1 .. Len(x) /\ DOMAIN y = 1 .. Len(y)
      /\ \A i \in DOMAIN x : x[i] \in S
      /\ \A i \in DOMAIN y : y[i] \in S
  OBVIOUS
<1> SUFFICES ASSUME D # {} PROVE FALSE
  OBVIOUS
<1>2. PICK i \in D : \A j \in D : i <= j
  <2>1. D \subseteq Nat
    BY <1>1
  <2> HIDE DEF D
  <2> QED BY <2>1, LeastElement
<1>3. i \in Nat /\ i \in DOMAIN x /\ i \in DOMAIN y /\ x[i] # y[i] /\ x[i] \in S /\ y[i] \in S
  BY <1>1, <1>2
<1>4. PICK j \in DOMAIN y : y[j] = x[i]
  BY <1>3 DEF Elements
<1>5. PICK k \in DOMAIN x : x[k] = y[i]
  BY <1>3 DEF Elements
<1>6. j \in Nat /\ k \in Nat /\ j # i /\ k # i
  BY <1>1, <1>3, <1>4, <1>5
<1>7. ~(j < i)
  <2> SUFFICES ASSUME j < i PROVE FALSE
    OBVIOUS
  <2>1. j \in DOMAIN x /\ j \notin D
    BY <1>1, <1>2, <1>3, <1>6
  <2>2. x[j] = x[i]
    BY <1>4, <2>1
  <2> QED BY <1>3, <2>1, <2>2 DEF Rising, Linear
<1>8. ~(k < i)
  <2> SUFFICES ASSUME k < i PROVE FALSE
    OBVIOUS
  <2>1. k \in DOMAIN y /\ k \notin D
    BY <1>1, <1>2, <1>3, <1>6
  <2>2. y[k] = y[i]
    BY <1>5, <2>1
  <2> QED BY <1>3, <2>1, <2>2 DEF Rising, Linear
<1>9. i < j /\ i < k
  BY <1>3, <1>6, <1>7, <1>8
<1>10. <<y[i], x[i]>> \in R /\ <<x[i], y[i]>> \in R
  BY <1>3, <1>4, <1>5, <1>9 DEF Rising
<1> QED BY <1>3, <1>10 DEF Linear

LEMMA RisingNotLonger ==
    ASSUME NEW S, NEW R, Linear(R, S), NEW x \in Seq(S), NEW y \in Seq(S),
           Rising(x, R), Rising(y, R), Elements(x) = Elements(y)
    PROVE  Len(y) <= Len(x)
<1>1. Len(x) \in Nat /\ Len(y) \in Nat /\ DOMAIN x = 1 .. Len(x) /\ DOMAIN y = 1 .. Len(y)
  OBVIOUS
<1> SUFFICES ASSUME Len(y) > Len(x) PROVE FALSE
  BY <1>1
<1> DEFINE i == Len(x) + 1
<1>2. i \in DOMAIN y /\ y[i] \in S
  BY <1>1
<1>3. PICK j \in DOMAIN x : x[j] = y[i]
  BY <1>2 DEF Elements
<1>4. j \in DOMAIN y /\ j < i
  BY <1>1, <1>3
<1> HIDE DEF i
<1>5. y[j] = y[i]
  BY <1>3, <1>4, RisingAgree
<1>6. <<y[j], y[i]>> \in R
  BY <1>2, <1>4 DEF Rising
<1> QED BY <1>2, <1>5, <1>6 DEF Linear

(* A list in the order of a linear relation is determined by its elements. *)
LEMMA RisingUnique ==
    ASSUME NEW S, NEW R, Linear(R, S), NEW x \in Seq(S), NEW y \in Seq(S),
           Rising(x, R), Rising(y, R), Elements(x) = Elements(y)
    PROVE  x = y
<1>1. Len(y) <= Len(x) /\ Len(x) <= Len(y)
  BY RisingNotLonger
<1>2. Len(x) = Len(y)
  BY <1>1
<1>3. \A i \in DOMAIN x \cap DOMAIN y : x[i] = y[i]
  BY RisingAgree
<1> QED BY <1>2, <1>3

(* Every list without repetitions can be put in order.                     *)
Distinct(x) == \A i, j \in DOMAIN x : x[i] = x[j] => i = j

LEMMA Inserted ==
    ASSUME NEW S, NEW R, Linear(R, S), NEW m \in Nat, NEW y \in Seq(S), Len(y) = m, Rising(y, R),
           NEW a \in S, a \notin Elements(y)
    PROVE  \E z \in Seq(S) : Len(z) = m + 1 /\ Rising(z, R) /\ Elements(z) = Elements(y) \cup {a}
<1> DEFINE B == {i \in 1 .. m : <<a, y[i]>> \in R} \cup {m + 1}
<1>1. DOMAIN y = 1 .. m /\ \A i \in 1 .. m : y[i] \in S
  OBVIOUS
<1>2. PICK k \in B : \A j \in B : k <= j
  <2>1. B \subseteq Nat /\ B # {}
    OBVIOUS
  <2> HIDE DEF B
  <2> QED BY <2>1, LeastElement
<1>3. k \in 1 .. (m + 1) /\ (k # m + 1 => <<a, y[k]>> \in R)
  BY <1>2
<1> DEFINE z == [i \in 1 .. (m + 1) |-> IF i < k THEN y[i] ELSE IF i = k THEN a ELSE y[i - 1]]
<1>4. ASSUME NEW i \in 1 .. (m + 1)
      PROVE  /\ i < k => i \in 1 .. m /\ z[i] = y[i]
             /\ i = k => z[i] = a
             /\ i > k => i - 1 \in 1 .. m /\ z[i] = y[i - 1]
  BY <1>3
<1>5. z \in Seq(S) /\ Len(z) = m + 1 /\ DOMAIN z = 1 .. (m + 1)
  <2>1. \A i \in 1 .. (m + 1) : z[i] \in S
    BY <1>1, <1>3, <1>4
  <2>2. z \in [1 .. (m + 1) -> S]
    BY <2>1
  <2> HIDE DEF z
  <2> QED BY <2>2
<1> HIDE DEF z
<1>6. ASSUME NEW i \in 1 .. m, i < k PROVE <<y[i], a>> \in R
  <2>1. i \notin B
    BY <1>2, <1>3, <1>6
  <2>2. <<a, y[i]>> \notin R /\ a # y[i]
    BY <1>1, <2>1 DEF Elements
  <2> QED BY <1>1, <2>2 DEF Linear
<1>7. ASSUME NEW i \in 1 .. m, i >= k PROVE <<a, y[i]>> \in R
  <2>1. k \in 1 .. m /\ <<a, y[k]>> \in R
    BY <1>3, <1>7
  <2>2. i = k \/ <<y[k], y[i]>> \in R
    BY <1>1, <1>7, <2>1 DEF Rising
  <2> QED BY <1>1, <2>1, <2>2 DEF Linear
<1>8. Rising(z, R)
  <2> SUFFICES ASSUME NEW i \in 1 .. (m + 1), NEW j \in 1 .. (m + 1), i < j PROVE <<z[i], z[j]>> \in R
    BY <1>5 DEF Rising
  <2>1. CASE j < k
    <3>1. i < k
      BY <1>3, <2>1
    <3> QED BY <1>1, <1>4, <2>1, <3>1 DEF Rising
  <2>2. CASE j = k
    BY <1>4, <1>6, <2>2
  <2>3. CASE j > k /\ i = k
    <3>1. j - 1 \in 1 .. m /\ j - 1 >= k /\ z[j] = y[j - 1] /\ z[i] = a
      BY <1>3, <1>4, <2>3
    <3> QED BY <1>7, <3>1
  <2>4. CASE j > k /\ i < k
    <3>1. i \in 1 .. m /\ j - 1 \in 1 .. m /\ i < j - 1 /\ z[i] = y[i] /\ z[j] = y[j - 1]
      BY <1>3, <1>4, <2>4
    <3> QED BY <1>1, <3>1 DEF Rising
  <2>5. CASE j > k /\ i > k
    <3>1. i - 1 \in 1 .. m /\ j - 1 \in 1 .. m /\ i - 1 < j - 1 /\ z[i] = y[i - 1] /\ z[j] = y[j - 1]
      BY <1>3, <1>4, <2>5
    <3> QED BY <1>1, <3>1 DEF Rising
  <2>6. (j < k \/ j = k \/ j > k) /\ (i < k \/ i = k \/ i > k)
    BY <1>3
  <2> QED BY <2>1, <2>2, <2>3, <2>4, <2>5, <2>6
<1>9. Elements(z) = Elements(y) \cup {a}
  <2>1. ASSUME NEW i \in 1 .. (m + 1) PROVE z[i] \in Elements(y) \cup {a}
    <3>1. i < k \/ i = k \/ i > k
      BY <1>3
    <3> QED BY <1>1, <1>4, <3>1 DEF Elements
  <2>2. ASSUME NEW i \in 1 .. m PROVE y[i] \in Elements(z)
    <3>1. CASE i < k
      <4>1. i \in 1 .. (m + 1) /\ z[i] = y[i]
        BY <1>4, <3>1
      <4> QED BY <1>5, <4>1 DEF Elements
    <3>2. CASE i >= k
      <4>1. i + 1 \in 1 .. (m + 1) /\ (i + 1) - 1 = i /\ i + 1 > k
        BY <1>3, <3>2
      <4>2. z[i + 1] = y[i]
        BY <1>4, <4>1
      <4> QED BY <1>5, <4>1, <4>2 DEF Elements
    <3> QED BY <1>3, <3>1, <3>2
  <2>3. a \in Elements(z)
    BY <1>3, <1>4, <1>5 DEF Elements
  <2> QED BY <1>1, <1>5, <2>1, <2>2, <2>3 DEF Elements
<1> QED BY <1>5, <1>8, <1>9

LEMMA SortExists ==
    ASSUME NEW S, NEW R, Linear(R, S), NEW x \in Seq(S), Distinct(x)
    PROVE  \E y \in Seq(S) : Len(y) = Len(x) /\ Rising(y, R) /\ Elements(y) = Elements(x)
<1> DEFINE n == Len(x)
           Upto(m) == {x[i] : i \in 1 .. m}
           Sorted(m) == \E y \in Seq(S) : Len(y) = m /\ Rising(y, R) /\ Elements(y) = Upto(m)
           P == {m \in Nat : m <= n => Sorted(m)}
<1>1. n \in Nat /\ DOMAIN x = 1 .. n /\ \A i \in 1 .. n : x[i] \in S
  OBVIOUS
<1>2. Sorted(0)
  <2>1. <<>> \in Seq(S) /\ Len(<<>>) = 0 /\ DOMAIN <<>> = {}
    OBVIOUS
  <2>2. Rising(<<>>, R) /\ Elements(<<>>) = {} /\ Upto(0) = {}
    BY <2>1 DEF Rising, Elements
  <2> QED BY <2>1, <2>2
<1>3. ASSUME NEW m \in Nat, m + 1 <= n, Sorted(m) PROVE Sorted(m + 1)
  <2>1. PICK y \in Seq(S) : Len(y) = m /\ Rising(y, R) /\ Elements(y) = Upto(m)
    BY <1>3
  <2> DEFINE a == x[m + 1]
  <2>2. m + 1 \in 1 .. n /\ a \in S
    BY <1>1, <1>3
  <2>3. a \notin Upto(m)
    <3> SUFFICES ASSUME NEW i \in 1 .. m, x[i] = x[m + 1] PROVE FALSE
      OBVIOUS
    <3>1. i \in 1 .. n /\ i # m + 1
      BY <1>1, <1>3
    <3> QED BY <1>1, <2>2, <3>1 DEF Distinct
  <2>4. Upto(m + 1) = Upto(m) \cup {a}
    <3>1. \A i : i \in 1 .. (m + 1) <=> i \in 1 .. m \/ i = m + 1
      OBVIOUS
    <3> QED BY <3>1
  <2> HIDE DEF a, Upto
  <2>5. \E z \in Seq(S) : Len(z) = m + 1 /\ Rising(z, R) /\ Elements(z) = Elements(y) \cup {a}
    BY <2>1, <2>2, <2>3, Inserted
  <2> QED BY <2>1, <2>4, <2>5
<1> HIDE DEF Sorted
<1>4. Nat \subseteq P
  <2>1. 0 \in P
    BY <1>2
  <2>2. ASSUME NEW m \in Nat, m \in P PROVE m + 1 \in P
    BY <1>1, <1>3, <2>2
  <2> HIDE DEF P
  <2> QED BY <2>1, <2>2, SetInduction
<1>5. Sorted(n)
  BY <1>1, <1>4
<1>6. Upto(n) = Elements(x)
  BY <1>1 DEF Elements
<1> QED BY <1>5, <1>6 DEF Sorted


(* What the API and the caller compute, told by the positions of the table *)
(* whose rows a list shows.                                                *)
Earlier == {p \in Nat \X Nat : p[1] < p[2]}
Along(s, z) == [i \in DOMAIN z |-> s[z[i]]]
Meets(q, which, r) == \A i \in which : Holds(q.predicates[i], r)

LEMMA EarlierRises ==
    ASSUME NEW i \in Nat, NEW j \in Nat
    PROVE  <<i, j>> \in Earlier <=> i < j
  BY DEF Earlier

LEMMA EarlierLinear ==
    ASSUME NEW S, S \subseteq Nat
    PROVE  Linear(Earlier, S)
<1>1. \A a, b \in S : <<a, b>> \in Earlier <=> a < b
  BY EarlierRises
<1>2. \A a, b, c \in S : a < b /\ b < c => a < c
  OBVIOUS
<1> QED BY <1>1, <1>2 DEF Linear

LEMMA FilterExists ==
    ASSUME NEW rs, IsList(rs), NEW which
    PROVE  \E f \in [0 .. Len(rs) -> Seq({rs[i] : i \in DOMAIN rs})] :
              /\ \A i \in 0 .. Len(rs) :
                    f[i] = IF i = 0 THEN <<>>
                           ELSE IF Meets(intent, which, rs[i]) THEN Append(f[i - 1], rs[i]) ELSE f[i - 1]
              /\ Filtered(rs, which) = f[Len(rs)]
<1> DEFINE n == Len(rs)
           A == Seq({rs[i] : i \in DOMAIN rs})
           Grown(i, s) == IF Meets(intent, which, rs[i]) THEN Append(s, rs[i]) ELSE s
           Rec(f) == f = [i \in 0 .. n |-> IF i = 0 THEN <<>> ELSE Grown(i, f[i - 1])]
           grow == [i \in 1 .. n |-> [s \in A |-> Grown(i, s)]]
           kept == CHOOSE f : Rec(f)
           zero == <<>>
<1>1. n \in Nat /\ DOMAIN rs = 1 .. n
  BY ListDomain
<1>0. zero \in A
  OBVIOUS
<1>2. \A i \in 1 .. n : \A s \in A : Grown(i, s) \in A
  <2>1. ASSUME NEW i \in 1 .. n, NEW s \in A PROVE Append(s, rs[i]) \in A
    BY <1>1
  <2> HIDE DEF A
  <2> QED BY <2>1
<1> HIDE DEF Grown, A, n, zero
<1>3. PICK f \in [0 .. n -> A] : Iterates(f, n, zero, grow)
  <2>1. grow \in [1 .. n -> [A -> A]]
    BY <1>2
  <2> HIDE DEF grow
  <2> QED BY <1>1, <1>0, <2>1, StepByStep
<1>4. Rec(f)
  <2>1. ASSUME NEW i \in 0 .. n, i # 0 PROVE grow[i][f[i - 1]] = Grown(i, f[i - 1])
    <3>1. i \in 1 .. n /\ i - 1 \in 0 .. n
      BY <1>1, <2>1
    <3>2. f[i - 1] \in A
      BY <3>1
    <3> QED BY <3>1, <3>2
  <2>2. ASSUME NEW i \in 0 .. n PROVE f[i] = IF i = 0 THEN <<>> ELSE Grown(i, f[i - 1])
    BY <1>3, <2>1 DEF Iterates, zero
  <2> HIDE DEF grow
  <2> QED BY <2>2
<1>5. Rec(kept)
  <2> HIDE DEF Rec
  <2> QED BY <1>4
<1>6. Filtered(rs, which) = kept[n]
  BY DEF Filtered, Meets, Grown, n
<1> HIDE DEF kept
<1>7. kept \in [0 .. n -> A]
  <2> DEFINE P == {m \in Nat : m <= n => kept[m] \in A}
  <2>1. 0 \in P
    BY <1>0, <1>1, <1>5 DEF zero
  <2>2. ASSUME NEW m \in Nat, m \in P PROVE m + 1 \in P
    <3> SUFFICES ASSUME m + 1 <= n PROVE kept[m + 1] \in A
      OBVIOUS
    <3>1. m + 1 \in 0 .. n /\ m + 1 # 0 /\ (m + 1) - 1 = m /\ kept[m] \in A /\ m + 1 \in 1 .. n
      BY <1>1, <2>2
    <3>2. kept[m + 1] = Grown(m + 1, kept[m])
      BY <1>5, <3>1
    <3> QED BY <1>2, <3>1, <3>2
  <2>3. Nat \subseteq P
    <3> HIDE DEF P
    <3> QED BY <2>1, <2>2, SetInduction
  <2>4. kept = [i \in 0 .. n |-> kept[i]]
    BY <1>5
  <2> QED BY <1>1, <2>3, <2>4
<1>8. ASSUME NEW i \in 0 .. n PROVE kept[i] = IF i = 0 THEN <<>> ELSE Grown(i, kept[i - 1])
  BY <1>5
<1> QED BY <1>6, <1>7, <1>8 DEF Grown, A, n

(* A filter keeps the rows that meet it, where they stand.                 *)
LEMMA FilterPositions ==
    ASSUME NEW rs, IsList(rs), NEW which
    PROVE  \E z \in Seq(DOMAIN rs) :
              /\ Rising(z, Earlier)
              /\ Elements(z) = {k \in DOMAIN rs : Meets(intent, which, rs[k])}
              /\ Filtered(rs, which) = Along(rs, z)
<1> DEFINE n == Len(rs)
           D == DOMAIN rs
           Fits(k) == Meets(intent, which, rs[k])
<1>1. n \in Nat /\ D = 1 .. n
  BY ListDomain
<1>2. PICK f \in [0 .. n -> Seq({rs[i] : i \in DOMAIN rs})] :
         /\ \A i \in 0 .. n :
               f[i] = IF i = 0 THEN <<>>
                      ELSE IF Fits(i) THEN Append(f[i - 1], rs[i]) ELSE f[i - 1]
         /\ Filtered(rs, which) = f[n]
  BY FilterExists
<1> HIDE DEF n, D, Fits
<1> DEFINE Kept(m) == \E z \in Seq(D) :
              Rising(z, Earlier) /\ Elements(z) = {k \in 1 .. m : Fits(k)} /\ f[m] = Along(rs, z)
           P == {m \in Nat : m <= n => Kept(m)}
<1>3. Kept(0)
  <2>1. <<>> \in Seq(D) /\ DOMAIN <<>> = {} /\ Along(rs, <<>>) = <<>>
    BY DEF Along
  <2>2. Rising(<<>>, Earlier) /\ Elements(<<>>) = {} /\ {k \in 1 .. 0 : Fits(k)} = {}
    BY <2>1 DEF Rising, Elements
  <2>3. f[0] = <<>>
    BY <1>1, <1>2
  <2> QED BY <2>1, <2>2, <2>3
<1>4. ASSUME NEW m \in Nat, m + 1 <= n, Kept(m) PROVE Kept(m + 1)
  <2>1. PICK z \in Seq(D) :
           Rising(z, Earlier) /\ Elements(z) = {k \in 1 .. m : Fits(k)} /\ f[m] = Along(rs, z)
    BY <1>4
  <2>2. m + 1 \in 0 .. n /\ m + 1 # 0 /\ (m + 1) - 1 = m /\ m + 1 \in D
    BY <1>1, <1>4
  <2>3. f[m + 1] = IF Fits(m + 1) THEN Append(f[m], rs[m + 1]) ELSE f[m]
    BY <1>2, <2>2
  <2>4. CASE ~Fits(m + 1)
    <3>1. {k \in 1 .. (m + 1) : Fits(k)} = {k \in 1 .. m : Fits(k)}
      <4>1. \A k : k \in 1 .. (m + 1) <=> k \in 1 .. m \/ k = m + 1
        OBVIOUS
      <4> QED BY <2>4, <4>1
    <3> QED BY <2>1, <2>3, <2>4, <3>1
  <2>5. CASE Fits(m + 1)
    <3> DEFINE l == Len(z)
               w == Append(z, m + 1)
    <3>1. /\ l \in Nat /\ DOMAIN z = 1 .. l /\ w \in Seq(D) /\ Len(w) = l + 1 /\ DOMAIN w = 1 .. (l + 1)
          /\ w[l + 1] = m + 1 /\ \A i \in 1 .. l : w[i] = z[i] /\ z[i] \in D
      BY <2>1, <2>2
    <3>2. \A i \in 1 .. l : z[i] \in 1 .. m
      BY <2>1, <3>1 DEF Elements
    <3>3. Rising(w, Earlier)
      <4> SUFFICES ASSUME NEW i \in 1 .. (l + 1), NEW j \in 1 .. (l + 1), i < j PROVE <<w[i], w[j]>> \in Earlier
        BY <3>1 DEF Rising
      <4>1. CASE j = l + 1
        <5>1. i \in 1 .. l /\ w[j] = m + 1 /\ w[i] = z[i] /\ z[i] \in 1 .. m
          BY <3>1, <3>2, <4>1
        <5>2. w[i] \in Nat /\ w[j] \in Nat /\ w[i] < w[j]
          BY <5>1
        <5> QED BY <5>2, EarlierRises
      <4>2. CASE j # l + 1
        <5>1. i \in 1 .. l /\ j \in 1 .. l /\ w[i] = z[i] /\ w[j] = z[j]
          BY <3>1, <4>2
        <5> QED BY <2>1, <3>1, <5>1 DEF Rising
      <4> QED BY <4>1, <4>2
    <3>4. Elements(w) = {k \in 1 .. (m + 1) : Fits(k)}
      <4>1. Elements(w) = Elements(z) \cup {m + 1}
        <5>1. \A i : i \in 1 .. (l + 1) <=> i \in 1 .. l \/ i = l + 1
          BY <3>1
        <5> HIDE DEF l, w
        <5> QED BY <3>1, <5>1 DEF Elements
      <4>2. \A k : k \in 1 .. (m + 1) <=> k \in 1 .. m \/ k = m + 1
        OBVIOUS
      <4> QED BY <2>1, <2>5, <4>1, <4>2
    <3>5. Append(f[m], rs[m + 1]) = Along(rs, w)
      <4> DEFINE a == Along(rs, z)
                 b == Append(a, rs[m + 1])
      <4>1. DOMAIN a = 1 .. l /\ a = [i \in DOMAIN a |-> a[i]] /\ \A i \in 1 .. l : a[i] = rs[z[i]]
        BY <3>1 DEF Along
      <4> HIDE DEF a
      <4>2. IsList(a) /\ Len(a) = l
        BY <3>1, <4>1, ListByElement
      <4>3. /\ IsList(b) /\ DOMAIN b = 1 .. (l + 1) /\ b[l + 1] = rs[m + 1]
            /\ \A i \in 1 .. l : b[i] = a[i]
        BY <4>2, ListAppend
      <4>4. b = [i \in DOMAIN b |-> b[i]]
        BY <4>3, ListDomain
      <4> HIDE DEF b
      <4>5. ASSUME NEW i \in 1 .. (l + 1) PROVE b[i] = rs[w[i]]
        <5>1. i \in 1 .. l \/ i = l + 1
          BY <3>1
        <5> QED BY <3>1, <4>1, <4>3, <5>1
      <4> HIDE DEF w, l
      <4>6. b = Along(rs, w)
        BY <3>1, <4>3, <4>4, <4>5 DEF Along
      <4> QED BY <2>1, <4>6 DEF a, b
    <3> HIDE DEF w, l
    <3> QED BY <2>3, <2>5, <3>1, <3>3, <3>4, <3>5
  <2> QED BY <2>4, <2>5
<1> HIDE DEF Kept
<1>5. Nat \subseteq P
  <2>1. 0 \in P
    BY <1>3
  <2>2. ASSUME NEW m \in Nat, m \in P PROVE m + 1 \in P
    BY <1>1, <1>4, <2>2
  <2> HIDE DEF P
  <2> QED BY <2>1, <2>2, SetInduction
<1>6. Kept(n)
  BY <1>1, <1>5
<1> QED BY <1>1, <1>2, <1>6 DEF Kept, D, Fits

View(r, cols) == IF cols \in {Nil, {}} THEN r ELSE [r EXCEPT !.cells = [c \in cols |-> r.cells[c]]]
Shown(t, x, cols) == [i \in DOMAIN x |-> View(t[x[i]], cols)]
Covers(t, cols) == cols \in {Nil, {}} \/ \A k \in DOMAIN t : cols \subseteq DOMAIN t[k].cells

(* A row that is projected keeps its id and the values it still shows.     *)
LEMMA ViewKeeps ==
    ASSUME NEW t, IsTable(t), NEW k \in DOMAIN t, NEW cols, Covers(t, cols)
    PROVE  /\ View(t[k], cols).id = t[k].id
           /\ cols \notin {Nil, {}} => DOMAIN View(t[k], cols).cells = cols
           /\ \A c : (cols \notin {Nil, {}} => c \in cols) =>
                 /\ View(t[k], cols).cells[c] = t[k].cells[c]
                 /\ c \in DOMAIN View(t[k], cols).cells <=> c \in DOMAIN t[k].cells
<1>1. CASE cols \in {Nil, {}}
  BY <1>1 DEF View
<1>2. CASE cols \notin {Nil, {}}
  <2> DEFINE r == t[k]
             f == [c \in cols |-> r.cells[c]]
  <2>1. r = [id |-> r.id, cells |-> r.cells]
    BY DEF IsTable
  <2>2. View(r, cols) = [r EXCEPT !.cells = f]
    BY <1>2 DEF View
  <2>3. cols \subseteq DOMAIN r.cells
    BY <1>2 DEF Covers
  <2> HIDE DEF r, f
  <2>4. DOMAIN r = {"id", "cells"}
    BY <2>1
  <2>5. View(r, cols).id = r.id /\ View(r, cols).cells = f
    BY <2>2, <2>4
  <2>6. DOMAIN f = cols /\ \A c \in cols : f[c] = r.cells[c]
    BY DEF f
  <2>7. /\ View(r, cols).id = r.id
        /\ DOMAIN View(r, cols).cells = cols
        /\ \A c \in cols : View(r, cols).cells[c] = r.cells[c] /\ c \in DOMAIN r.cells
    BY <2>3, <2>5, <2>6
  <2> QED BY <1>2, <2>7 DEF r
<1> QED BY <1>1, <1>2

LEMMA ViewTwice ==
    ASSUME NEW t, IsTable(t), NEW k \in DOMAIN t, NEW cols, Covers(t, cols), NEW sent \in {Nil, cols}
    PROVE  View(View(t[k], sent), cols) = View(t[k], cols)
<1>1. CASE sent \in {Nil, {}} \/ cols \in {Nil, {}}
  BY <1>1 DEF View
<1>2. CASE sent = cols /\ cols \notin {Nil, {}}
  <2> DEFINE r == t[k]
             f == [c \in cols |-> r.cells[c]]
             v == [r EXCEPT !.cells = f]
  <2>1. DOMAIN r = {"id", "cells"}
    <3>1. r = [id |-> r.id, cells |-> r.cells]
      BY DEF IsTable
    <3> HIDE DEF r
    <3> QED BY <3>1
  <2>2. View(r, cols) = v /\ View(v, cols) = [v EXCEPT !.cells = [c \in cols |-> v.cells[c]]]
    BY <1>2 DEF View
  <2> HIDE DEF r, f
  <2>3. v.cells = f /\ DOMAIN v = {"id", "cells"}
    BY <2>1
  <2>4. [c \in cols |-> v.cells[c]] = f
    <3>1. \A c \in cols : v.cells[c] = f[c]
      BY <2>3
    <3>2. f = [c \in cols |-> f[c]]
      BY DEF f
    <3> HIDE DEF v
    <3> QED BY <3>1, <3>2
  <2>5. [v EXCEPT !.cells = f] = v
    BY <2>1
  <2> QED BY <1>2, <2>2, <2>4, <2>5 DEF r
<1> QED BY <1>1, <1>2

(* What a predicate says of a row does not depend on what is projected     *)
(* away, and neither does the order of two rows.                           *)
LEMMA MeetsView ==
    ASSUME NEW t, IsTable(t), NEW k \in DOMAIN t, NEW cols, Covers(t, cols), NEW q, NEW which,
           cols \notin {Nil, {}} => \A i \in which : q.predicates[i].col \in cols
    PROVE  Meets(q, which, View(t[k], cols)) <=> Meets(q, which, t[k])
<1>1. ASSUME NEW i \in which PROVE Holds(q.predicates[i], View(t[k], cols)) <=> Holds(q.predicates[i], t[k])
  <2> DEFINE p == q.predicates[i]
             v == View(t[k], cols)
             r == t[k]
  <2>1. v.cells[p.col] = r.cells[p.col] /\ (p.col \in DOMAIN v.cells <=> p.col \in DOMAIN r.cells)
    BY ViewKeeps
  <2> HIDE DEF p, v, r
  <2>2. Holds(p, v) <=> Holds(p, r)
    BY <2>1 DEF Holds
  <2> QED BY <2>2 DEF p, v, r
<1> QED BY <1>1 DEF Meets

LEMMA BeforeView ==
    ASSUME NEW t, IsTable(t), NEW k \in DOMAIN t, NEW l \in DOMAIN t, NEW cols, Covers(t, cols), NEW term,
           cols \notin {Nil, {}} => term.col \in cols
    PROVE  Before(term, View(t[k], cols), View(t[l], cols)) <=> Before(term, t[k], t[l])
<1>1. /\ View(t[k], cols).id = t[k].id /\ View(t[k], cols).cells[term.col] = t[k].cells[term.col]
      /\ View(t[l], cols).id = t[l].id /\ View(t[l], cols).cells[term.col] = t[l].cells[term.col]
  BY ViewKeeps
<1> QED BY <1>1 DEF Before

LEMMA IdsDiffer ==
    ASSUME NEW t, IsTable(t), NEW k \in DOMAIN t, NEW l \in DOMAIN t, t[k].id = t[l].id
    PROVE  k = l
<1>1. k \in Nat /\ l \in Nat
  BY DEF IsTable
<1>2. t[k].id \in Int /\ t[l].id \in Int /\ (k < l => t[k].id < t[l].id) /\ (l < k => t[l].id < t[k].id)
  BY DEF IsTable
<1> QED BY <1>1, <1>2

LEMMA TableList ==
    ASSUME NEW t, IsTable(t)
    PROVE  IsList(t) /\ DOMAIN t = 1 .. Len(t) /\ Len(t) \in Nat /\ DOMAIN t \subseteq Nat
<1>1. IsList(t)
  BY DEF IsTable, IsList
<1>2. DOMAIN t = 1 .. Len(t) /\ Len(t) \in Nat
  BY <1>1, ListDomain
<1> QED BY <1>1, <1>2

LEMMA ShownList ==
    ASSUME NEW S, NEW t, NEW x \in Seq(S), NEW cols
    PROVE  /\ IsList(Shown(t, x, cols)) /\ Len(Shown(t, x, cols)) = Len(x) /\ Len(x) \in Nat
           /\ DOMAIN Shown(t, x, cols) = DOMAIN x /\ DOMAIN x = 1 .. Len(x)
           /\ \A i \in DOMAIN x : Shown(t, x, cols)[i] = View(t[x[i]], cols) /\ x[i] \in S
<1> DEFINE s == Shown(t, x, cols)
<1>1. Len(x) \in Nat /\ DOMAIN x = 1 .. Len(x) /\ \A i \in DOMAIN x : x[i] \in S
  OBVIOUS
<1>2. DOMAIN s = DOMAIN x /\ s = [i \in DOMAIN s |-> s[i]] /\ \A i \in DOMAIN x : s[i] = View(t[x[i]], cols)
  BY DEF Shown
<1> HIDE DEF s
<1>3. IsList(s) /\ Len(s) = Len(x)
  BY <1>1, <1>2, ListByElement
<1> QED BY <1>1, <1>2, <1>3 DEF s

(* The part of a list at rising places keeps every order of the list.      *)
Within(y, x) == \E z \in Seq(DOMAIN x) : Rising(z, Earlier) /\ y = Along(x, z)

LEMMA WithinRises ==
    ASSUME NEW S, NEW x \in Seq(S), NEW y, Within(y, x), NEW R, Rising(x, R)
    PROVE  Rising(y, R)
<1>1. PICK z \in Seq(DOMAIN x) : Rising(z, Earlier) /\ y = Along(x, z)
  BY DEF Within
<1>2. DOMAIN x \subseteq Nat /\ \A i \in DOMAIN z : z[i] \in DOMAIN x
  BY <1>1
<1>3. DOMAIN y = DOMAIN z /\ \A i \in DOMAIN y : y[i] = x[z[i]]
  BY <1>1 DEF Along
<1> SUFFICES ASSUME NEW i \in DOMAIN y, NEW j \in DOMAIN y, i < j PROVE <<y[i], y[j]>> \in R
  BY DEF Rising
<1>4. <<z[i], z[j]>> \in Earlier
  BY <1>1, <1>3 DEF Rising
<1>5. z[i] \in DOMAIN x /\ z[j] \in DOMAIN x /\ z[i] \in Nat /\ z[j] \in Nat
  BY <1>2, <1>3
<1>6. z[i] < z[j]
  BY <1>4, <1>5, EarlierRises
<1> QED BY <1>3, <1>5, <1>6 DEF Rising

LEMMA RisingDistinct ==
    ASSUME NEW S, NEW R, Linear(R, S), NEW x \in Seq(S), Rising(x, R)
    PROVE  Distinct(x)
<1> SUFFICES ASSUME NEW i \in DOMAIN x, NEW j \in DOMAIN x, x[i] = x[j], i # j PROVE FALSE
  BY DEF Distinct
<1>1. i \in Nat /\ j \in Nat /\ x[i] \in S
  OBVIOUS
<1>2. i < j \/ j < i
  BY <1>1
<1>3. <<x[i], x[i]>> \in R
  BY <1>2 DEF Rising
<1> QED BY <1>1, <1>3 DEF Linear

LEMMA WithinDistinct ==
    ASSUME NEW S, NEW x \in Seq(S), Distinct(x), NEW y, Within(y, x)
    PROVE  Distinct(y)
<1>1. PICK z \in Seq(DOMAIN x) : Rising(z, Earlier) /\ y = Along(x, z)
  BY DEF Within
<1>2. DOMAIN x \subseteq Nat /\ \A i \in DOMAIN z : z[i] \in DOMAIN x
  BY <1>1
<1>3. DOMAIN y = DOMAIN z /\ \A i \in DOMAIN y : y[i] = x[z[i]]
  BY <1>1 DEF Along
<1>4. Distinct(z)
  BY <1>1, <1>2, EarlierLinear, RisingDistinct
<1> QED BY <1>2, <1>3, <1>4 DEF Distinct

(* Filtering the rows that a list of positions shows.                      *)
LEMMA ShownFiltered ==
    ASSUME NEW t, IsTable(t), NEW x \in Seq(DOMAIN t), NEW cols, Covers(t, cols), NEW which,
           cols \notin {Nil, {}} => \A i \in which : intent.predicates[i].col \in cols
    PROVE  \E y \in Seq(DOMAIN t) :
              /\ Within(y, x)
              /\ Elements(y) = {k \in Elements(x) : Meets(intent, which, t[k])}
              /\ Filtered(Shown(t, x, cols), which) = Shown(t, y, cols)
              /\ which = {} => y = x
<1> DEFINE s == Shown(t, x, cols)
<1>1. /\ IsList(s) /\ DOMAIN s = DOMAIN x /\ DOMAIN x = 1 .. Len(x) /\ Len(x) \in Nat
      /\ \A i \in DOMAIN x : s[i] = View(t[x[i]], cols) /\ x[i] \in DOMAIN t
  BY ShownList
<1> HIDE DEF s
<1>2. PICK z \in Seq(DOMAIN s) :
         /\ Rising(z, Earlier)
         /\ Elements(z) = {k \in DOMAIN s : Meets(intent, which, s[k])}
         /\ Filtered(s, which) = Along(s, z)
  BY <1>1, FilterPositions
<1> DEFINE y == Along(x, z)
<1>3. /\ Len(z) \in Nat /\ DOMAIN z = 1 .. Len(z) /\ \A i \in DOMAIN z : z[i] \in DOMAIN x
      /\ z \in Seq(DOMAIN x)
  BY <1>1, <1>2
<1>4. DOMAIN y = DOMAIN z /\ \A i \in DOMAIN z : y[i] = x[z[i]] /\ y[i] \in DOMAIN t
  BY <1>1, <1>3 DEF Along
<1>5. y \in Seq(DOMAIN t)
  <2>1. y = [i \in DOMAIN z |-> y[i]]
    BY <1>4 DEF Along
  <2> HIDE DEF y
  <2>2. y \in [1 .. Len(z) -> DOMAIN t]
    BY <1>3, <1>4, <2>1
  <2> QED BY <1>3, <2>2
<1>6. Within(y, x)
  BY <1>2, <1>3 DEF Within
<1>7. ASSUME NEW i \in DOMAIN x PROVE Meets(intent, which, s[i]) <=> Meets(intent, which, t[x[i]])
  <2>1. x[i] \in DOMAIN t /\ s[i] = View(t[x[i]], cols)
    BY <1>1
  <2> QED BY <2>1, MeetsView
<1>8. Elements(y) = {k \in Elements(x) : Meets(intent, which, t[k])}
  <2>1. \A i \in DOMAIN z : y[i] \in Elements(x) /\ Meets(intent, which, t[y[i]])
    <3>1. \A i \in DOMAIN z : z[i] \in DOMAIN x /\ Meets(intent, which, s[z[i]])
      BY <1>1, <1>2, <1>3 DEF Elements
    <3> QED BY <1>4, <1>7, <3>1 DEF Elements
  <2>2. ASSUME NEW i \in DOMAIN x, Meets(intent, which, t[x[i]]) PROVE x[i] \in Elements(y)
    <3>1. i \in Elements(z)
      BY <1>1, <1>2, <1>7, <2>2
    <3>2. PICK j \in DOMAIN z : z[j] = i
      BY <3>1 DEF Elements
    <3> QED BY <1>4, <3>2 DEF Elements
  <2> HIDE DEF y
  <2> QED BY <1>4, <2>1, <2>2 DEF Elements
<1>9. Filtered(s, which) = Shown(t, y, cols)
  <2>1. \A i \in DOMAIN z : s[z[i]] = View(t[y[i]], cols)
    BY <1>1, <1>3, <1>4
  <2>2. Along(s, z) = [i \in DOMAIN z |-> s[z[i]]]
    BY DEF Along
  <2> HIDE DEF y
  <2>3. Shown(t, y, cols) = [i \in DOMAIN z |-> View(t[y[i]], cols)]
    BY <1>4 DEF Shown
  <2> QED BY <1>2, <2>1, <2>2, <2>3
<1>10. ASSUME which = {} PROVE y = x
  <2> DEFINE same == [i \in DOMAIN x |-> i]
  <2>1. same \in [1 .. Len(x) -> DOMAIN x] /\ DOMAIN same = DOMAIN x
    BY <1>1
  <2>2. same \in Seq(DOMAIN x) /\ \A i \in DOMAIN x : same[i] = i
    BY <1>1, <2>1
  <2> HIDE DEF same
  <2>3. DOMAIN x \subseteq Nat
    BY <1>1
  <2>4. Rising(same, Earlier)
    BY <2>1, <2>2, <2>3, EarlierRises DEF Rising
  <2>5. Elements(same) = DOMAIN x /\ Elements(z) = DOMAIN x
    BY <1>1, <1>2, <1>10, <2>1, <2>2 DEF Elements, Meets
  <2>6. Linear(Earlier, DOMAIN x)
    BY <2>3, EarlierLinear
  <2>7. z = same
    BY <1>2, <1>3, <2>2, <2>4, <2>5, <2>6, RisingUnique
  <2>8. DOMAIN y = DOMAIN x /\ \A i \in DOMAIN x : y[i] = x[i]
    BY <1>4, <2>1, <2>2, <2>7
  <2>9. y = [i \in DOMAIN x |-> x[i]] /\ x = [i \in DOMAIN x |-> x[i]]
    <3>1. y = [i \in DOMAIN y |-> y[i]]
      BY <1>4 DEF Along
    <3> HIDE DEF y
    <3> QED BY <2>8, <3>1
  <2> QED BY <2>9
<1> HIDE DEF y
<1> QED BY <1>5, <1>6, <1>8, <1>9, <1>10 DEF s

(* The order that a query asks for, over the positions of a table; a query *)
(* without one keeps the order of the table.                               *)
Sorts(t, o) == o \notin {Nil, <<>>} /\ \A k \in DOMAIN t : o[1].col \in DOMAIN t[k].cells
SortedBy(t, o) == {p \in Nat \X Nat : Before(o[1], t[p[1]], t[p[2]])}
OrderOf(t, o) == IF Sorts(t, o) THEN SortedBy(t, o) ELSE Earlier

LEMMA SortedBefore ==
    ASSUME NEW t, IsTable(t), NEW o, NEW k \in DOMAIN t, NEW l \in DOMAIN t
    PROVE  <<k, l>> \in SortedBy(t, o) <=> Before(o[1], t[k], t[l])
<1> DEFINE p == <<k, l>>
<1>1. p[1] = k /\ p[2] = l
  OBVIOUS
<1>2. p \in Nat \X Nat
  BY TableList
<1> HIDE DEF p
<1>3. p \in SortedBy(t, o) <=> Before(o[1], t[p[1]], t[p[2]])
  BY <1>2, Zenon DEF SortedBy
<1> QED BY <1>1, <1>3 DEF p

LEMMA OrderLinear ==
    ASSUME NEW t, IsTable(t), NEW o
    PROVE  Linear(OrderOf(t, o), DOMAIN t)
<1>1. CASE ~Sorts(t, o)
  BY <1>1, TableList, EarlierLinear DEF OrderOf
<1>2. CASE Sorts(t, o)
  <2> DEFINE c == o[1].col
             v(k) == t[k].cells[c]
             Lt(k, l) == Before(o[1], t[k], t[l])
  <2>1. \A k \in DOMAIN t : v(k) \in Int /\ t[k].id \in Int
    BY <1>2 DEF IsTable, Sorts
  <2>2. \A k, l \in DOMAIN t : Lt(k, l) <=>
           IF v(k) = v(l) THEN t[k].id < t[l].id ELSE IF o[1].desc THEN v(k) > v(l) ELSE v(k) < v(l)
    BY DEF Before
  <2> DEFINE id(k) == t[k].id
             d == o[1].desc
  <2>3. \A k, l \in DOMAIN t : id(k) = id(l) => k = l
    BY IdsDiffer
  <2>4. \A k, l \in DOMAIN t : Lt(k, l) <=>
           IF v(k) = v(l) THEN id(k) < id(l) ELSE IF d THEN v(k) > v(l) ELSE v(k) < v(l)
    BY <2>2
  <2>5. \A k \in DOMAIN t : v(k) \in Int /\ id(k) \in Int
    BY <2>1
  <2> HIDE DEF v, id, d, Lt
  <2>6. \A k \in DOMAIN t : ~Lt(k, k)
    BY <2>4, <2>5
  <2>7. ASSUME NEW k \in DOMAIN t, NEW l \in DOMAIN t PROVE k = l \/ Lt(k, l) \/ Lt(l, k)
    BY <2>3, <2>4, <2>5
  <2>8. ASSUME NEW k \in DOMAIN t, NEW l \in DOMAIN t, NEW m \in DOMAIN t, Lt(k, l), Lt(l, m) PROVE Lt(k, m)
    BY <2>4, <2>5, <2>8
  <2>9. \A k, l \in DOMAIN t : <<k, l>> \in OrderOf(t, o) <=> Lt(k, l)
    BY <1>2, SortedBefore DEF OrderOf, Lt
  <2> QED BY <2>6, <2>7, <2>8, <2>9 DEF Linear
<1> QED BY <1>1, <1>2

(* Ordering the rows that a list of positions shows.                       *)
LEMMA ShownOrdered ==
    ASSUME NEW t, IsTable(t), NEW x \in Seq(DOMAIN t), Distinct(x), NEW cols, Covers(t, cols), NEW o,
           cols \notin {Nil, {}} => o \in {Nil, <<>>} \/ o[1].col \in cols
    PROVE  \E y \in Seq(DOMAIN t) :
              /\ Elements(y) = Elements(x) /\ Distinct(y)
              /\ IF Sorts(t, o) THEN Rising(y, SortedBy(t, o)) ELSE y = x
              /\ Ordered(Shown(t, x, cols), o) = Shown(t, y, cols)
<1> DEFINE s == Shown(t, x, cols)
           D == DOMAIN x
           V == {s[i] : i \in DOMAIN s}
           Fair(r) == /\ \A i \in DOMAIN s : \E j \in DOMAIN s : r[j] = s[i]
                      /\ \A i, j \in DOMAIN s : i < j => Before(o[1], r[i], r[j])
           out == CHOOSE r \in [DOMAIN s -> V] : Fair(r)
           Idle == o \in {Nil, <<>>} \/ \E i \in DOMAIN s : o[1].col \notin DOMAIN s[i].cells
<1>1. /\ IsList(s) /\ DOMAIN s = D /\ D = 1 .. Len(x) /\ Len(x) \in Nat
      /\ \A i \in D : s[i] = View(t[x[i]], cols) /\ x[i] \in DOMAIN t
  BY ShownList
<1>2. Ordered(s, o) = IF Idle THEN s ELSE out
  BY DEF Ordered
<1> HIDE DEF s
<1>3. ASSUME o \notin {Nil, <<>>}, NEW i \in D
      PROVE  o[1].col \in DOMAIN s[i].cells <=> o[1].col \in DOMAIN t[x[i]].cells
  <2>1. x[i] \in DOMAIN t /\ s[i] = View(t[x[i]], cols)
    BY <1>1
  <2> QED BY <1>3, <2>1, ViewKeeps
<1>4. CASE Idle
  <2>1. ~Sorts(t, o)
    BY <1>1, <1>3, <1>4 DEF Sorts
  <2> QED BY <1>2, <1>4, <2>1 DEF s
<1>5. CASE ~Idle /\ ~Sorts(t, o)
  <2>1. PICK k \in DOMAIN t : o[1].col \notin DOMAIN t[k].cells
    BY <1>5 DEF Sorts
  <2>2. D = {}
    <3> SUFFICES ASSUME NEW i \in D PROVE FALSE
      OBVIOUS
    <3>1. x[i] \in DOMAIN t /\ o[1].col \in DOMAIN t[x[i]].cells
      BY <1>1, <1>3, <1>5
    <3>2. DOMAIN t[k].cells = DOMAIN t[x[i]].cells
      BY <3>1 DEF IsTable
    <3> QED BY <2>1, <3>1, <3>2
  <2>3. s \in [DOMAIN s -> V] /\ Fair(s)
    BY <1>1, <2>2, ListDomain
  <2>4. out \in [DOMAIN s -> V]
    <3> HIDE DEF V, Fair
    <3> QED BY <2>3
  <2>5. out = s
    <3>1. DOMAIN out = {} /\ out = [i \in DOMAIN out |-> out[i]]
      <4> HIDE DEF out, V
      <4> QED BY <1>1, <2>2, <2>4
    <3>2. DOMAIN s = {} /\ s = [i \in DOMAIN s |-> s[i]]
      BY <1>1, <2>2, ListDomain
    <3> HIDE DEF out
    <3> QED BY <3>1, <3>2
  <2> QED BY <1>2, <1>5, <2>5 DEF s
<1>6. CASE ~Idle /\ Sorts(t, o)
  <2> DEFINE R == SortedBy(t, o)
  <2>1. Linear(R, DOMAIN t)
    BY <1>6, OrderLinear DEF OrderOf
  <2>2. o \notin {Nil, <<>>} /\ (cols \notin {Nil, {}} => o[1].col \in cols)
    BY <1>6 DEF Sorts
  <2>3. ASSUME NEW k \in DOMAIN t, NEW l \in DOMAIN t
        PROVE  Before(o[1], View(t[k], cols), View(t[l], cols)) <=> <<k, l>> \in R
    BY <2>2, <2>3, BeforeView, SortedBefore
  <2> HIDE DEF R
  <2>4. PICK y0 \in Seq(DOMAIN t) : Len(y0) = Len(x) /\ Rising(y0, R) /\ Elements(y0) = Elements(x)
    BY <2>1, SortExists
  <2> DEFINE s0 == Shown(t, y0, cols)
  <2>5. DOMAIN s0 = D /\ DOMAIN y0 = D /\ \A i \in D : s0[i] = View(t[y0[i]], cols) /\ y0[i] \in DOMAIN t
    BY <1>1, <2>4, ShownList
  <2>6. s0 \in [DOMAIN s -> V]
    <3>1. ASSUME NEW i \in D PROVE s0[i] \in V
      <4>1. PICK j \in D : x[j] = y0[i]
        BY <2>4, <2>5 DEF Elements
      <4> QED BY <1>1, <2>5, <4>1
    <3>2. s0 = [i \in D |-> s0[i]]
      BY <2>5 DEF Shown
    <3> HIDE DEF s0, V
    <3> QED BY <1>1, <3>1, <3>2
  <2>7. Fair(s0)
    <3>1. ASSUME NEW i \in D PROVE \E j \in D : s0[j] = s[i]
      <4>1. PICK j \in D : y0[j] = x[i]
        BY <2>4, <2>5 DEF Elements
      <4> QED BY <1>1, <2>5, <4>1
    <3>2. ASSUME NEW i \in D, NEW j \in D, i < j PROVE Before(o[1], s0[i], s0[j])
      <4>1. <<y0[i], y0[j]>> \in R
        BY <2>4, <2>5, <3>2 DEF Rising
      <4> QED BY <2>3, <2>5, <4>1
    <3> HIDE DEF s0
    <3> QED BY <1>1, <3>1, <3>2
  <2>8. out \in [DOMAIN s -> V] /\ Fair(out)
    <3> HIDE DEF V, Fair, s0
    <3> QED BY <2>6, <2>7
  <2> HIDE DEF out, s0
  <2> DEFINE at(j) == CHOOSE i \in D : s[i] = out[j]
             y == [j \in D |-> x[at(j)]]
  <2>9. ASSUME NEW j \in D PROVE at(j) \in D /\ s[at(j)] = out[j]
    <3>1. out[j] \in V
      BY <1>1, <2>8
    <3>2. \E i \in D : s[i] = out[j]
      BY <1>1, <3>1
    <3> QED BY <3>2
  <2> HIDE DEF at
  <2>10. DOMAIN y = D /\ \A j \in D : y[j] = x[at(j)] /\ y[j] \in DOMAIN t /\ out[j] = View(t[y[j]], cols)
    BY <1>1, <2>9
  <2>11. y \in Seq(DOMAIN t)
    <3>1. y \in [1 .. Len(x) -> DOMAIN t]
      BY <1>1, <2>9
    <3> HIDE DEF y
    <3> QED BY <1>1, <3>1
  <2> HIDE DEF y
  <2>12. Rising(y, R)
    <3> SUFFICES ASSUME NEW i \in D, NEW j \in D, i < j PROVE <<y[i], y[j]>> \in R
      BY <2>10 DEF Rising
    <3>1. Before(o[1], out[i], out[j])
      BY <1>1, <2>8
    <3> QED BY <2>3, <2>10, <3>1
  <2>13. Elements(y) = Elements(x)
    <3>1. \A j \in D : y[j] \in Elements(x)
      BY <2>9, <2>10 DEF Elements
    <3>2. ASSUME NEW i \in D PROVE x[i] \in Elements(y)
      <4>1. PICK j \in D : out[j] = s[i]
        BY <1>1, <2>8
      <4>2. View(t[y[j]], cols) = View(t[x[i]], cols) /\ y[j] \in DOMAIN t /\ x[i] \in DOMAIN t
        BY <1>1, <2>10, <4>1
      <4>3. t[y[j]].id = t[x[i]].id
        <5>1. View(t[y[j]], cols).id = t[y[j]].id
          BY <4>2, ViewKeeps
        <5>2. View(t[x[i]], cols).id = t[x[i]].id
          BY <4>2, ViewKeeps
        <5> QED BY <4>2, <5>1, <5>2
      <4>4. y[j] = x[i]
        BY <4>2, <4>3, IdsDiffer
      <4> QED BY <2>10, <4>4 DEF Elements
    <3> QED BY <2>10, <3>1, <3>2 DEF Elements
  <2>14. Distinct(y)
    BY <2>1, <2>11, <2>12, RisingDistinct
  <2>15. out = Shown(t, y, cols)
    <3>1. out = [j \in D |-> out[j]]
      BY <1>1, <2>8
    <3> QED BY <2>10, <3>1 DEF Shown
  <2>16. Ordered(s, o) = Shown(t, y, cols)
    BY <1>2, <1>6, <2>15
  <2> QED BY <1>6, <2>11, <2>12, <2>13, <2>14, <2>16 DEF s, R
<1> QED BY <1>4, <1>5, <1>6

(* Cutting a window out of a list.                                         *)
IsBound(v) == v = Nil \/ v \in Nat
From(v) == IF v = Nil THEN 0 ELSE v
Reach(n, offset, limit) ==
    LET rest == IF From(offset) >= n THEN 0 ELSE n - From(offset)
    IN  IF limit = Nil \/ limit >= rest THEN rest ELSE limit

LEMMA WindowAt ==
    ASSUME NEW s, IsList(s), NEW offset, IsBound(offset), NEW limit, IsBound(limit)
    PROVE  /\ IsList(Window(s, offset, limit))
           /\ Len(Window(s, offset, limit)) = Reach(Len(s), offset, limit)
           /\ Reach(Len(s), offset, limit) \in Nat
           /\ \A i \in 1 .. Reach(Len(s), offset, limit) :
                 /\ Window(s, offset, limit)[i] = s[i + From(offset)]
                 /\ i + From(offset) \in DOMAIN s /\ i + From(offset) \in Nat
<1> DEFINE n == Len(s)
           f == From(offset)
           rest == SubSeq(s, f + 1, n)
           m == IF f >= n THEN 0 ELSE n - f
           S == {s[i] : i \in DOMAIN s}
<1>1. s \in Seq(S) /\ n \in Nat /\ DOMAIN s = 1 .. n
  BY ListDomain DEF IsList
<1>2. f \in Nat /\ m \in Nat
  BY <1>1 DEF From, IsBound
<1>3. Window(s, offset, limit) = IF limit = Nil \/ limit >= Len(rest) THEN rest ELSE SubSeq(rest, 1, limit)
  BY DEF Window, From
<1>4. Reach(n, offset, limit) = IF limit = Nil \/ limit >= m THEN m ELSE limit
  BY DEF Reach
<1> HIDE DEF S, n, f
<1>5. rest \in Seq(S) /\ Len(rest) = m /\ \A i \in 1 .. m : rest[i] = s[i + f] /\ i + f \in 1 .. n
  <2>1. CASE f >= n
    <3>1. rest = <<>>
      BY <1>1, <1>2, <2>1
    <3> QED BY <1>1, <1>2, <2>1, <3>1
  <2>2. CASE ~(f >= n)
    <3>1. rest = [i \in 1 .. (n - f) |-> s[i + f]]
      <4>1. /\ f + 1 \in 1 .. n /\ n \in 1 .. n /\ (n - (f + 1)) + 1 = n - f
            /\ \A i \in 1 .. (n - f) : (i + (f + 1)) - 1 = i + f
        BY <1>1, <1>2, <2>2
      <4>2. rest = [i \in 1 .. ((n - (f + 1)) + 1) |-> s[(i + (f + 1)) - 1]]
        BY <1>1, <1>2, <4>1
      <4> QED BY <4>1, <4>2
    <3>2. n - f \in Nat /\ m = n - f /\ \A i \in 1 .. (n - f) : i + f \in 1 .. n
      BY <1>1, <1>2, <2>2
    <3>3. \A i \in 1 .. (n - f) : s[i + f] \in S
      BY <1>1, <3>2
    <3>4. rest \in [1 .. (n - f) -> S]
      BY <3>1, <3>3
    <3>5. \A i \in 1 .. (n - f) : rest[i] = s[i + f]
      BY <3>1
    <3> HIDE DEF rest, m
    <3> QED BY <3>2, <3>4, <3>5
  <2> QED BY <2>1, <2>2
<1> HIDE DEF rest, m
<1>6. CASE limit = Nil \/ limit >= m
  <2>1. Window(s, offset, limit) = rest /\ Reach(n, offset, limit) = m
    BY <1>3, <1>4, <1>5, <1>6
  <2>2. IsList(rest)
    BY <1>5, ListOfSeq
  <2> QED BY <1>1, <1>2, <1>5, <2>1, <2>2 DEF n, f
<1>7. CASE ~(limit = Nil \/ limit >= m)
  <2>1. Window(s, offset, limit) = SubSeq(rest, 1, limit) /\ Reach(n, offset, limit) = limit
    BY <1>3, <1>4, <1>5, <1>7
  <2>2. limit \in Nat /\ limit < m
    BY <1>2, <1>7 DEF IsBound
  <2> DEFINE w == SubSeq(rest, 1, limit)
  <2>3. w \in Seq(S) /\ Len(w) = limit /\ \A i \in 1 .. limit : w[i] = rest[i] /\ i \in 1 .. m
    BY <1>2, <1>5, <2>2
  <2> HIDE DEF w
  <2>4. IsList(w)
    BY <2>3, ListOfSeq
  <2>5. \A i \in 1 .. limit : w[i] = s[i + f] /\ i + f \in 1 .. n /\ i + f \in Nat
    BY <1>1, <1>2, <1>5, <2>3
  <2> QED BY <1>1, <2>1, <2>2, <2>3, <2>4, <2>5 DEF n, f, w
<1> QED BY <1>6, <1>7

LEMMA WindowOf ==
    ASSUME NEW S, NEW x \in Seq(S), NEW offset, IsBound(offset), NEW limit, IsBound(limit)
    PROVE  Window(x, offset, limit) \in Seq(S) /\ Within(Window(x, offset, limit), x)
<1> DEFINE w == Window(x, offset, limit)
           f == From(offset)
           m == Reach(Len(x), offset, limit)
           z == [i \in 1 .. m |-> i + f]
<1>1. IsList(x)
  BY ListOfSeq
<1>2. IsList(w) /\ Len(w) = m /\ m \in Nat /\ \A i \in 1 .. m : w[i] = x[i + f] /\ i + f \in DOMAIN x /\ i + f \in Nat
  BY <1>1, WindowAt
<1>3. f \in Nat
  BY DEF From, IsBound
<1> HIDE DEF w, m, f
<1>4. DOMAIN w = 1 .. m /\ w = [i \in 1 .. m |-> w[i]]
  BY <1>2, ListDomain
<1>5. w \in Seq(S)
  <2>1. \A i \in 1 .. m : w[i] \in S
    BY <1>2
  <2>2. w \in [1 .. m -> S]
    BY <1>4, <2>1
  <2> QED BY <1>2, <2>2
<1>6. z \in Seq(DOMAIN x) /\ DOMAIN z = 1 .. m /\ \A i \in 1 .. m : z[i] = i + f
  <2>1. z \in [1 .. m -> DOMAIN x]
    BY <1>2
  <2> QED BY <1>2, <2>1
<1> HIDE DEF z
<1>7. Rising(z, Earlier)
  <2> SUFFICES ASSUME NEW i \in 1 .. m, NEW j \in 1 .. m, i < j PROVE <<z[i], z[j]>> \in Earlier
    BY <1>6 DEF Rising
  <2>1. z[i] \in Nat /\ z[j] \in Nat /\ z[i] < z[j]
    BY <1>2, <1>3, <1>6
  <2> QED BY <2>1, EarlierRises
<1>8. w = Along(x, z)
  BY <1>2, <1>4, <1>6 DEF Along
<1> QED BY <1>5, <1>6, <1>7, <1>8 DEF Within, w

LEMMA ShownWindow ==
    ASSUME NEW S, NEW t, NEW x \in Seq(S), NEW cols, NEW offset, IsBound(offset), NEW limit, IsBound(limit)
    PROVE  Window(Shown(t, x, cols), offset, limit) = Shown(t, Window(x, offset, limit), cols)
<1> DEFINE s == Shown(t, x, cols)
           w == Window(x, offset, limit)
           v == Window(s, offset, limit)
           f == From(offset)
           m == Reach(Len(x), offset, limit)
<1>1. IsList(x) /\ IsList(s) /\ Len(s) = Len(x) /\ \A i \in DOMAIN x : s[i] = View(t[x[i]], cols)
  BY ListOfSeq, ShownList
<1>2. IsList(w) /\ Len(w) = m /\ \A i \in 1 .. m : w[i] = x[i + f] /\ i + f \in DOMAIN x
  <2>1. IsList(x)
    BY <1>1
  <2> QED BY <2>1, WindowAt
<1> HIDE DEF s
<1>3. IsList(v) /\ Len(v) = m /\ \A i \in 1 .. m : v[i] = s[i + f]
  <2>1. IsList(s) /\ Len(s) = Len(x)
    BY <1>1
  <2> QED BY <2>1, WindowAt
<1> HIDE DEF w, v, m, f
<1>4. DOMAIN w = 1 .. m /\ DOMAIN v = 1 .. m /\ v = [i \in DOMAIN v |-> v[i]]
  BY <1>2, <1>3, ListDomain
<1>5. \A i \in 1 .. m : v[i] = View(t[w[i]], cols)
  BY <1>1, <1>2, <1>3
<1>6. v = Shown(t, w, cols)
  BY <1>4, <1>5 DEF Shown
<1> QED BY <1>6 DEF v, w, s

(* A cut repeated, or made in two parts, is the one cut.                   *)
LEMMA WindowAgain ==
    ASSUME NEW S, NEW x \in Seq(S), Nil \notin Int, NEW offset, IsBound(offset), NEW limit, IsBound(limit),
           NEW first, first \in {Nil, limit}
    PROVE  Window(Window(x, offset, first), Nil, limit) = Window(x, offset, limit)
<1> DEFINE n == Len(x)
           f == From(offset)
           u == Window(x, offset, first)
           v == Window(u, Nil, limit)
           w == Window(x, offset, limit)
<1>0. IsBound(first) /\ IsBound(Nil) /\ IsList(x) /\ n \in Nat /\ f \in Nat /\ From(Nil) = 0
  BY ListOfSeq DEF IsBound, From
<1>1. IsList(w) /\ Len(w) = Reach(n, offset, limit) /\ \A i \in 1 .. Reach(n, offset, limit) : w[i] = x[i + f]
  BY <1>0, WindowAt
<1>2. /\ IsList(u) /\ Len(u) = Reach(n, offset, first) /\ Reach(n, offset, first) \in Nat
      /\ \A i \in 1 .. Reach(n, offset, first) : u[i] = x[i + f]
  BY <1>0, WindowAt
<1> HIDE DEF u, w, n
<1>3. /\ IsList(v) /\ Len(v) = Reach(Len(u), Nil, limit) /\ Reach(Len(u), Nil, limit) \in Nat
      /\ \A i \in 1 .. Reach(Len(u), Nil, limit) : v[i] = u[i + 0] /\ i + 0 \in DOMAIN u
  <2>1. IsList(u) /\ IsBound(Nil)
    BY <1>0, <1>2
  <2>2. /\ IsList(v) /\ Len(v) = Reach(Len(u), Nil, limit) /\ Reach(Len(u), Nil, limit) \in Nat
        /\ \A i \in 1 .. Reach(Len(u), Nil, limit) : v[i] = u[i + From(Nil)] /\ i + From(Nil) \in DOMAIN u
    BY <2>1, WindowAt
  <2> QED BY <1>0, <2>2
<1> HIDE DEF v, f
<1>4. Reach(Len(u), Nil, limit) = Reach(n, offset, limit)
  <2> DEFINE m == IF f >= n THEN 0 ELSE n - f
             l == Len(u)
  <2>1. m \in Nat
    BY <1>0
  <2>2. /\ Reach(n, offset, limit) = IF limit = Nil \/ limit >= m THEN m ELSE limit
        /\ l = IF first = Nil \/ first >= m THEN m ELSE first
    BY <1>2 DEF Reach, f
  <2>3. l \in Nat
    BY <1>2
  <2> HIDE DEF m, l
  <2>4. Reach(l, Nil, limit) = IF limit = Nil \/ limit >= l THEN l ELSE limit
    <3>1. (IF 0 >= l THEN 0 ELSE l - 0) = l
      BY <2>3
    <3> QED BY <1>0, <3>1 DEF Reach
  <2> QED BY <2>1, <2>2, <2>3, <2>4 DEF IsBound, l
<1>5. \A i \in 1 .. Len(v) : v[i] = w[i]
  <2>1. DOMAIN u = 1 .. Len(u)
    BY <1>2, ListDomain
  <2>2. ASSUME NEW i \in 1 .. Len(v) PROVE v[i] = w[i]
    <3>1. i \in Nat /\ i + 0 = i /\ i \in 1 .. Reach(Len(u), Nil, limit)
      BY <1>3
    <3>2. v[i] = u[i] /\ i \in 1 .. Len(u)
      BY <1>3, <2>1, <3>1
    <3> QED BY <1>1, <1>2, <1>4, <3>1, <3>2
  <2> QED BY <2>2
<1>6. Len(v) = Len(w)
  BY <1>1, <1>3, <1>4
<1>7. v = w
  <2>1. /\ DOMAIN v = 1 .. Len(v) /\ v = [i \in DOMAIN v |-> v[i]]
        /\ DOMAIN w = 1 .. Len(w) /\ w = [i \in DOMAIN w |-> w[i]]
    BY <1>1, <1>3, ListDomain
  <2> QED BY <1>5, <1>6, <2>1
<1> QED BY <1>7 DEF u, v, w

LEMMA WindowOpen ==
    ASSUME NEW S, NEW x \in Seq(S)
    PROVE  Window(x, Nil, Nil) = x
<1> DEFINE w == Window(x, Nil, Nil)
           n == Len(x)
<1>1. IsList(x) /\ IsBound(Nil) /\ From(Nil) = 0 /\ n \in Nat
  BY ListOfSeq DEF IsBound, From
<1>2. Reach(n, Nil, Nil) = n
  <2> HIDE DEF n
  <2>1. (IF 0 >= n THEN 0 ELSE n - 0) = n
    BY <1>1
  <2> QED BY <1>1, <2>1 DEF Reach
<1>3. IsList(w) /\ Len(w) = n /\ \A i \in 1 .. n : w[i] = x[i + 0]
  BY <1>1, <1>2, WindowAt
<1> HIDE DEF w, n
<1>4. /\ DOMAIN w = 1 .. n /\ w = [i \in DOMAIN w |-> w[i]]
      /\ DOMAIN x = 1 .. n /\ x = [i \in DOMAIN x |-> x[i]]
  BY <1>1, <1>3, ListDomain DEF n
<1>5. \A i \in 1 .. n : w[i] = x[i]
  <2>1. \A i \in 1 .. n : i + 0 = i
    OBVIOUS
  <2> QED BY <1>3, <2>1
<1>6. w = x
  BY <1>4, <1>5
<1> QED BY <1>6 DEF w

(* Projecting what is shown, once or again by the caller.                  *)
LEMMA ShownProjected ==
    ASSUME NEW t, IsTable(t), NEW x \in Seq(DOMAIN t), NEW cols, Covers(t, cols), NEW sent \in {Nil, cols}
    PROVE  Projected(Shown(t, x, sent), cols) = Shown(t, x, cols)
<1> DEFINE s == Shown(t, x, sent)
<1>1. DOMAIN s = DOMAIN x /\ s = [i \in DOMAIN x |-> s[i]] /\ \A i \in DOMAIN x : s[i] = View(t[x[i]], sent) /\ x[i] \in DOMAIN t
  BY DEF Shown
<1> HIDE DEF s
<1>2. \A i \in DOMAIN x : View(s[i], cols) = View(t[x[i]], cols)
  BY <1>1, ViewTwice
<1>3. Projected(s, cols) = [i \in DOMAIN x |-> View(s[i], cols)]
  <2>1. CASE cols \in {Nil, {}}
    <3>1. Projected(s, cols) = s /\ \A i \in DOMAIN x : View(s[i], cols) = s[i]
      BY <2>1 DEF Projected, View
    <3> QED BY <1>1, <3>1
  <2>2. CASE cols \notin {Nil, {}}
    <3>1. Projected(s, cols) = [i \in DOMAIN x |-> [s[i] EXCEPT !.cells = [c \in cols |-> s[i].cells[c]]]]
      BY <1>1, <2>2 DEF Projected
    <3>2. \A i \in DOMAIN x : View(s[i], cols) = [s[i] EXCEPT !.cells = [c \in cols |-> s[i].cells[c]]]
      BY <2>2 DEF View
    <3> QED BY <3>1, <3>2
  <2> QED BY <2>1, <2>2
<1>4. Projected(s, cols) = [i \in DOMAIN x |-> View(t[x[i]], cols)]
  BY <1>2, <1>3
<1> QED BY <1>4 DEF Shown, s

(* The whole table, shown in its own order.                                *)
LEMMA ShownWhole ==
    ASSUME NEW t, IsTable(t)
    PROVE  \E x \in Seq(DOMAIN t) : /\ Elements(x) = DOMAIN t /\ Rising(x, Earlier)
                                    /\ t = Shown(t, x, Nil)
<1> DEFINE x == [i \in DOMAIN t |-> i]
           n == Len(t)
<1>1. DOMAIN t = 1 .. n /\ n \in Nat /\ t = [i \in DOMAIN t |-> t[i]]
  BY TableList, ListDomain
<1> HIDE DEF n
<1>2. DOMAIN x = DOMAIN t /\ \A i \in DOMAIN t : x[i] = i
  OBVIOUS
<1>3. x \in Seq(DOMAIN t)
  <2>1. x \in [1 .. n -> DOMAIN t]
    BY <1>1
  <2> HIDE DEF x
  <2> QED BY <1>1, <2>1
<1> HIDE DEF x
<1>4. Elements(x) = DOMAIN t
  BY <1>2 DEF Elements
<1>5. Rising(x, Earlier)
  <2>1. \A i \in DOMAIN t : i \in Nat
    BY <1>1
  <2> QED BY <1>2, <2>1, EarlierRises DEF Rising
<1>6. t = Shown(t, x, Nil)
  <2>1. \A i \in DOMAIN t : View(t[x[i]], Nil) = t[i]
    BY <1>2 DEF View
  <2> QED BY <1>1, <1>2, <2>1 DEF Shown
<1> QED BY <1>3, <1>4, <1>5, <1>6

(* Lists without repetitions and with the same positions are equally long. *)
LEMMA SameLength ==
    ASSUME NEW S, S \subseteq Nat, NEW x \in Seq(S), NEW y \in Seq(S), Distinct(x), Distinct(y),
           Elements(x) = Elements(y)
    PROVE  Len(x) = Len(y)
<1>1. Linear(Earlier, S)
  BY EarlierLinear
<1>2. PICK u \in Seq(S) : Len(u) = Len(x) /\ Rising(u, Earlier) /\ Elements(u) = Elements(x)
  BY <1>1, SortExists
<1>3. PICK v \in Seq(S) : Len(v) = Len(y) /\ Rising(v, Earlier) /\ Elements(v) = Elements(y)
  BY <1>1, SortExists
<1>4. u = v
  BY <1>1, <1>2, <1>3, RisingUnique
<1> QED BY <1>2, <1>3, <1>4

(* The positions that meet some predicates, in the order of some terms:    *)
(* there is one such list, and it is what the API or a whole query finds.  *)
Arranged(t, q, x, which, o) ==
    /\ x \in Seq(DOMAIN t)
    /\ Elements(x) = {k \in DOMAIN t : Meets(q, which, t[k])}
    /\ Rising(x, OrderOf(t, o))

LEMMA ArrangedOnce ==
    ASSUME NEW t, IsTable(t), NEW q, NEW which, NEW o, NEW x, NEW y,
           Arranged(t, q, x, which, o), Arranged(t, q, y, which, o)
    PROVE  x = y
<1>1. Linear(OrderOf(t, o), DOMAIN t)
  BY OrderLinear
<1> QED BY <1>1, RisingUnique DEF Arranged

LEMMA FoundIsArranged ==
    ASSUME NEW t, IsTable(t), NEW which, NEW o
    PROVE  \E x : /\ Arranged(t, intent, x, which, o) /\ Distinct(x)
                  /\ Ordered(Filtered(t, which), o) = Shown(t, x, Nil)
                  /\ Len(Filtered(t, which)) = Len(x)
<1>1. Covers(t, Nil)
  BY DEF Covers
<1>2. PICK w \in Seq(DOMAIN t) : Elements(w) = DOMAIN t /\ Rising(w, Earlier) /\ t = Shown(t, w, Nil)
  BY ShownWhole
<1>3. PICK y \in Seq(DOMAIN t) :
         /\ Within(y, w) /\ Elements(y) = {k \in DOMAIN t : Meets(intent, which, t[k])}
         /\ Filtered(t, which) = Shown(t, y, Nil)
  <2>1. \E y \in Seq(DOMAIN t) :
           /\ Within(y, w) /\ Elements(y) = {k \in Elements(w) : Meets(intent, which, t[k])}
           /\ Filtered(Shown(t, w, Nil), which) = Shown(t, y, Nil)
    BY <1>1, <1>2, ShownFiltered
  <2> QED BY <1>2, <2>1
<1>4. DOMAIN t \subseteq Nat /\ Linear(Earlier, DOMAIN t)
  BY TableList, EarlierLinear
<1>5. Rising(y, Earlier)
  BY <1>2, <1>3, WithinRises
<1>6. Distinct(y)
  BY <1>4, <1>5, RisingDistinct
<1>7. PICK x \in Seq(DOMAIN t) :
         /\ Elements(x) = Elements(y) /\ Distinct(x)
         /\ IF Sorts(t, o) THEN Rising(x, SortedBy(t, o)) ELSE x = y
         /\ Ordered(Shown(t, y, Nil), o) = Shown(t, x, Nil)
  BY <1>1, <1>6, ShownOrdered
<1>8. Rising(x, OrderOf(t, o))
  BY <1>5, <1>7 DEF OrderOf
<1>9. Len(Filtered(t, which)) = Len(y)
  BY <1>3, ShownList
<1>10. Len(x) = Len(y)
  BY <1>4, <1>6, <1>7, SameLength
<1> QED BY <1>3, <1>7, <1>8, <1>9, <1>10 DEF Arranged

(* What the API answers, and what the caller makes of it.                  *)
Fetched(t, q, r, d, n) ==
    \E x : Arranged(t, q, x, r.filter, r.orderBy) /\ n = Len(x) /\ d = Shown(t, Window(x, r.skip, r.top), r.select)

Concluded(t, q, r, x, y) ==
    LET w == Window(x, r.skip, r.top) IN
    /\ y \in Seq(DOMAIN t) /\ Distinct(y)
    /\ Elements(y) = {k \in Elements(w) : Meets(q, r.residual, t[k])}
    /\ IF Sorts(t, q.orderBy) THEN Rising(y, SortedBy(t, q.orderBy))
                              ELSE Within(y, w) /\ (r.residual = {} => y = w)

Finished(t, q, r, a) ==
    \E x, y :
       /\ Arranged(t, q, x, r.filter, r.orderBy) /\ Concluded(t, q, r, x, y)
       /\ a = IF q.count THEN IF r.count THEN Len(x) ELSE Len(y)
              ELSE Shown(t, Window(y, IF r.skip = Nil THEN Bound(q.offset) ELSE Nil, Bound(q.limit)), q.projection)

Chosen(q, t) == IsTable(t) /\ Covers(t, q.projection) /\ IsBound(Bound(q.offset)) /\ IsBound(Bound(q.limit))

Clauses(q, r) ==
    /\ DOMAIN r = DOMAIN EmptyResult
    /\ r.select \in {Nil, q.projection} /\ r.orderBy \in {Nil, q.orderBy}
    /\ IsBound(r.top) /\ IsBound(r.skip)

Divided(q, r) == r.filter \cup r.residual = DOMAIN q.predicates

LEMMA SelectCovers ==
    ASSUME NEW t, NEW q, NEW r, Chosen(q, t), Clauses(q, r)
    PROVE  Covers(t, r.select)
<1>1. r.select = Nil \/ r.select = q.projection
  BY DEF Clauses
<1> QED BY <1>1 DEF Covers, Chosen

LEMMA AnswerIsFetched ==
    ASSUME Chosen(intent, table), Clauses(intent, res)
    PROVE  Fetched(table, intent, res,
                   Projected(Window(Ordered(Filtered(table, res.filter), res.orderBy), res.skip, res.top), res.select),
                   Len(Filtered(table, res.filter)))
<1>1. IsTable(table) /\ IsBound(res.skip) /\ IsBound(res.top)
  BY DEF Chosen, Clauses
<1>2. PICK x : /\ Arranged(table, intent, x, res.filter, res.orderBy)
               /\ Ordered(Filtered(table, res.filter), res.orderBy) = Shown(table, x, Nil)
               /\ Len(Filtered(table, res.filter)) = Len(x)
  BY <1>1, FoundIsArranged
<1>3. x \in Seq(DOMAIN table)
  BY <1>2 DEF Arranged
<1> DEFINE w == Window(x, res.skip, res.top)
<1>4. Window(Shown(table, x, Nil), res.skip, res.top) = Shown(table, w, Nil)
  BY <1>1, <1>3, ShownWindow
<1>5. w \in Seq(DOMAIN table)
  BY <1>1, <1>3, WindowOf
<1>6. Covers(table, res.select)
  BY SelectCovers
<1> HIDE DEF w
<1>7. Projected(Shown(table, w, Nil), res.select) = Shown(table, w, res.select)
  BY <1>1, <1>5, <1>6, ShownProjected
<1> QED BY <1>2, <1>4, <1>7 DEF Fetched, w

LEMMA FinishIsFinished ==
    ASSUME Chosen(intent, table), Clauses(intent, res), NeedsProjected, NEW d, NEW n,
           Fetched(table, intent, res, d, n)
    PROVE  Finished(table, intent, res,
                    LET kept   == Filtered(d, res.residual)
                        offset == IF res.skip = Nil THEN Bound(intent.offset) ELSE Nil
                    IN  IF intent.count
                        THEN IF res.count THEN n ELSE Len(kept)
                        ELSE Projected(Window(Ordered(kept, intent.orderBy), offset, Bound(intent.limit)),
                                       intent.projection))
<1> DEFINE t == table
           q == intent
           r == res
           offset == IF r.skip = Nil THEN Bound(q.offset) ELSE Nil
           kept == Filtered(d, r.residual)
<1>1. /\ IsTable(t) /\ IsBound(r.skip) /\ IsBound(r.top) /\ Covers(t, r.select) /\ Covers(t, q.projection)
      /\ IsBound(offset) /\ IsBound(Bound(q.limit)) /\ r.select \in {Nil, q.projection}
  BY SelectCovers DEF Chosen, Clauses, IsBound
<1>2. PICK x : Arranged(t, q, x, r.filter, r.orderBy) /\ n = Len(x) /\ d = Shown(t, Window(x, r.skip, r.top), r.select)
  BY DEF Fetched
<1>3. x \in Seq(DOMAIN t) /\ Distinct(x)
  <2>1. x \in Seq(DOMAIN t) /\ Rising(x, OrderOf(t, r.orderBy))
    BY <1>2 DEF Arranged
  <2>2. Linear(OrderOf(t, r.orderBy), DOMAIN t)
    BY <1>1, OrderLinear
  <2> QED BY <2>1, <2>2, RisingDistinct
<1> DEFINE w == Window(x, r.skip, r.top)
<1>4. w \in Seq(DOMAIN t) /\ Within(w, x)
  BY <1>1, <1>3, WindowOf
<1>5. Distinct(w)
  BY <1>3, <1>4, WithinDistinct
<1>6. /\ r.select \notin {Nil, {}} => \A i \in r.residual : intent.predicates[i].col \in r.select
      /\ r.select \notin {Nil, {}} => q.orderBy \in {Nil, <<>>} \/ q.orderBy[1].col \in r.select
  BY DEF NeedsProjected
<1> HIDE DEF w
<1>7. PICK z \in Seq(DOMAIN t) :
         /\ Within(z, w) /\ Elements(z) = {k \in Elements(w) : Meets(intent, r.residual, t[k])}
         /\ Filtered(Shown(t, w, r.select), r.residual) = Shown(t, z, r.select)
         /\ r.residual = {} => z = w
  <2> DEFINE cols == r.select
             which == r.residual
  <2>1. IsTable(t) /\ w \in Seq(DOMAIN t) /\ Covers(t, cols)
    BY <1>1, <1>4
  <2>2. cols \notin {Nil, {}} => \A i \in which : intent.predicates[i].col \in cols
    BY <1>6
  <2> HIDE DEF cols, which, t, q, r
  <2>3. \E z \in Seq(DOMAIN t) :
           /\ Within(z, w) /\ Elements(z) = {k \in Elements(w) : Meets(intent, which, t[k])}
           /\ Filtered(Shown(t, w, cols), which) = Shown(t, z, cols)
           /\ which = {} => z = w
    BY <2>1, <2>2, ShownFiltered
  <2> QED BY <2>3 DEF cols, which
<1>8. kept = Shown(t, z, r.select)
  BY <1>2, <1>7 DEF w
<1>9. Distinct(z)
  BY <1>4, <1>5, <1>7, WithinDistinct
<1>10. PICK y \in Seq(DOMAIN t) :
         /\ Elements(y) = Elements(z) /\ Distinct(y)
         /\ IF Sorts(t, q.orderBy) THEN Rising(y, SortedBy(t, q.orderBy)) ELSE y = z
         /\ Ordered(Shown(t, z, r.select), q.orderBy) = Shown(t, y, r.select)
  BY <1>1, <1>6, <1>9, ShownOrdered
<1>11. Len(kept) = Len(y)
  <2>1. Len(kept) = Len(z)
    BY <1>8, ShownList
  <2>2. DOMAIN t \subseteq Nat
    BY <1>1, TableList
  <2> QED BY <1>9, <1>10, <2>1, <2>2, SameLength
<1>12. Concluded(t, q, r, x, y)
  BY <1>7, <1>10 DEF Concluded, w
<1> DEFINE u == Window(y, offset, Bound(q.limit))
<1>13. Window(Shown(t, y, r.select), offset, Bound(q.limit)) = Shown(t, u, r.select)
  BY <1>1, ShownWindow
<1>14. u \in Seq(DOMAIN t)
  BY <1>1, WindowOf
<1> HIDE DEF u, offset, kept
<1>15. Projected(Shown(t, u, r.select), q.projection) = Shown(t, u, q.projection)
  BY <1>1, <1>14, ShownProjected
<1>16. Projected(Window(Ordered(kept, q.orderBy), offset, Bound(q.limit)), q.projection) = Shown(t, u, q.projection)
  BY <1>8, <1>10, <1>13, <1>15
<1> QED BY <1>2, <1>11, <1>12, <1>16 DEF Finished, u, offset, kept

(* The inductive invariant: what the translators have set so far is a      *)
(* clause of the query or nothing, every predicate is sent or left to the  *)
(* caller, the API answered what it was asked, and the caller ended with   *)
(* what that leaves.                                                       *)
Answered == step \in {"finish", "done"} => Fetched(table, intent, res, page.data, page.total)
Completed == step = "done" /\ NeedsProjected => Finished(table, intent, res, answer)
PushInv ==
    /\ config \in Configs /\ intent \in Intents /\ table \in Tables
    /\ step \in {"filter", "orderBy", "top", "skip", "count"} => config # Nil
    /\ step = "start" => res.filter = {}
    /\ step \notin {"start", "filter"} => Divided(intent, res)
    /\ Clauses(intent, res) /\ Answered /\ Completed

LEMMA ChosenWell ==
    ASSUME WellFormedQueries, NEW q \in Intents, NEW t \in Tables
    PROVE  Chosen(q, t)
<1>1. IsTable(t) /\ IsIntent(q)
  BY DEF WellFormedQueries
<1>2. Covers(t, q.projection)
  BY <1>1 DEF IsIntent, Covers
<1>3. IsBound(Bound(q.offset)) /\ IsBound(Bound(q.limit))
  BY <1>1 DEF IsIntent, IsBound, Bound
<1> QED BY <1>1, <1>2, <1>3 DEF Chosen

LEMMA CappedBound ==
    ASSUME WellFormedQueries, config \in Configs, config # Nil, NEW clause \in {"top", "skip"}, NEW v, v \in Int \cup {Nil}
    PROVE  IsBound(Capped(clause, v))
<1>1. config[clause] # Nil => config[clause].max \in Nat
  BY DEF WellFormedQueries
<1> QED BY <1>1 DEF Capped, IsBound, Has

LEMMA EmptyCounted == Cardinality({}) = 0
<1> DEFINE Rec(f) == f = [T \in SUBSET {} |-> IF T = {} THEN 0 ELSE 1 + f[T \ {CHOOSE x : x \in T}]]
           count == CHOOSE f : Rec(f)
<1>1. Rec([T \in SUBSET {} |-> 0])
  <2>1. \A T \in SUBSET {} : T = {}
    OBVIOUS
  <2> QED BY <2>1
<1>2. Rec(count)
  <2> HIDE DEF Rec
  <2> QED BY <1>1
<1>3. Cardinality({}) = count[{}]
  BY DEF Cardinality
<1> HIDE DEF count
<1> QED BY <1>2, <1>3

LEMMA PushedSome ==
    ASSUME DOMAIN intent.predicates \subseteq Nat
    PROVE  PushedPredicates \subseteq DOMAIN intent.predicates
<1>1. Pushable \subseteq DOMAIN intent.predicates
  BY DEF Pushable
<1>2. ASSUME Cardinality(Pushable) > 1 PROVE Min(Pushable) \in Pushable
  <2>1. Pushable # {}
    BY <1>2, EmptyCounted
  <2>2. Pushable \subseteq Nat
    BY <1>1
  <2>3. \E i \in Pushable : \A j \in Pushable : i <= j
    BY <2>1, <2>2, LeastElement
  <2> QED BY <2>3 DEF Min
<1> QED BY <1>1, <1>2 DEF PushedPredicates

LEMMA PushInit ==
    ASSUME WellFormedQueries, QueryInit
    PROVE  PushInv
<1>1. Clauses(intent, res)
  BY DEF QueryInit, EmptyResult, Clauses, IsBound
<1>2. res.filter = {} /\ step = "start"
  BY DEF QueryInit, EmptyResult
<1> QED BY <1>1, <1>2 DEF QueryInit, PushInv, Answered, Completed

(* A translator sets clauses of the result and moves to the next stage.    *)
LEMMA TranslateStep ==
    ASSUME WellFormedQueries, PushInv, NEW from, NEW to, Step(from, to), UNCHANGED <<page, answer>>,
           to \notin {"start", "finish", "done"}, to # "send" => config # Nil,
           Clauses(intent, res'), to # "filter" => Divided(intent, res')
    PROVE  PushInv'
<1>1. config' = config /\ intent' = intent /\ table' = table /\ step' = to
  BY DEF Step
<1>2. Clauses(intent, res)' /\ (to # "filter" => Divided(intent, res)')
  BY <1>1
<1>3. Answered' /\ Completed'
  BY <1>1 DEF Answered, Completed
<1> QED BY <1>1, <1>2, <1>3 DEF PushInv

LEMMA TranslatorsStep ==
    ASSUME WellFormedQueries, PushInv,
           NoConfig \/ ApplyPushdownSelect \/ ApplyPushdownFilter \/ ApplyPushdownOrderBy
              \/ ApplyPushdownTop \/ ApplyPushdownSkip \/ ApplyPushdownCount
    PROVE  PushInv'
<1> DEFINE q == intent
           r == res
<1>1. /\ config \in Configs /\ IsIntent(q)
      /\ DOMAIN r = {"select", "filter", "orderBy", "top", "skip", "count", "residual"}
  BY DEF PushInv, WellFormedQueries, Clauses, EmptyResult
<1>2. /\ r.select \in {Nil, q.projection} /\ r.orderBy \in {Nil, q.orderBy} /\ IsBound(r.top) /\ IsBound(r.skip)
  BY DEF PushInv, Clauses
<1>3. ASSUME NEW s, DOMAIN s = DOMAIN r, s.select \in {Nil, q.projection}, s.orderBy \in {Nil, q.orderBy},
             IsBound(s.top), IsBound(s.skip)
      PROVE  Clauses(q, s)
  BY <1>1, <1>3 DEF Clauses, EmptyResult
<1>4. q.limit \in Int \cup {Nil} /\ q.offset \in Int \cup {Nil} /\ DOMAIN q.predicates \subseteq Nat
  BY <1>1 DEF IsIntent
<1>5. CASE NoConfig
  <2>1. Step("start", "send") /\ UNCHANGED <<page, answer>> /\ step = "start" /\ res' = [res EXCEPT !.residual = DOMAIN q.predicates]
    BY <1>5 DEF NoConfig, Step
  <2>2. Clauses(q, res')
    <3> DEFINE all == DOMAIN q.predicates
    <3>1. res' = [r EXCEPT !.residual = all]
      BY <2>1
    <3> HIDE DEF all
    <3>2. /\ DOMAIN res' = DOMAIN r /\ res'.select = r.select /\ res'.orderBy = r.orderBy
          /\ res'.top = r.top /\ res'.skip = r.skip
      BY <1>1, <3>1
    <3> QED BY <1>2, <1>3, <3>2
  <2>3. Divided(q, res')
    BY <1>1, <2>1 DEF Divided, PushInv
  <2> QED BY <2>1, <2>2, <2>3, TranslateStep
<1>6. CASE ApplyPushdownSelect
  <2>1. /\ Step("start", "filter") /\ UNCHANGED <<page, answer>> /\ config # Nil
        /\ res' = [res EXCEPT !.select = SelectParam]
    BY <1>6 DEF ApplyPushdownSelect
  <2>2. SelectParam \in {Nil, q.projection}
    BY DEF SelectParam
  <2>3. Clauses(q, res')
    BY <1>1, <1>2, <1>3, <2>1, <2>2
  <2> QED BY <2>1, <2>3, TranslateStep
<1>7. CASE ApplyPushdownFilter
  <2>1. /\ Step("filter", "orderBy") /\ UNCHANGED <<page, answer>> /\ config # Nil
        /\ res' = [res EXCEPT !.filter = PushedPredicates, !.residual = ResidualPredicates]
    BY <1>7 DEF ApplyPushdownFilter, Step, PushInv
  <2>2. Clauses(q, res')
    <3>1. /\ DOMAIN res' = DOMAIN r /\ res'.select = r.select /\ res'.orderBy = r.orderBy
          /\ res'.top = r.top /\ res'.skip = r.skip
      BY <1>1, <2>1
    <3> QED BY <1>2, <1>3, <3>1
  <2>3. res'.filter = PushedPredicates /\ res'.residual = ResidualPredicates
    BY <1>1, <2>1
  <2>4. Divided(q, res')
    BY <1>4, <2>3, PushedSome DEF Divided, ResidualPredicates
  <2> QED BY <2>1, <2>2, <2>4, TranslateStep
<1>8. CASE ApplyPushdownOrderBy
  <2>1. /\ Step("orderBy", "top") /\ UNCHANGED <<page, answer>> /\ config # Nil /\ Divided(q, r)
        /\ res' = [res EXCEPT !.orderBy = OrderByParam]
    BY <1>8 DEF ApplyPushdownOrderBy, Step, PushInv
  <2>2. OrderByParam \in {Nil, q.orderBy}
    BY DEF OrderByParam
  <2>3. Clauses(q, res')
    BY <1>1, <1>2, <1>3, <2>1, <2>2
  <2>4. Divided(q, res')
    BY <1>1, <2>1 DEF Divided
  <2> QED BY <2>1, <2>3, <2>4, TranslateStep
<1>9. CASE ApplyPushdownTop
  <2>1. /\ Step("top", "skip") /\ UNCHANGED <<page, answer>> /\ config # Nil /\ Divided(q, r)
        /\ res' = [res EXCEPT !.top = TopParam]
    BY <1>9 DEF ApplyPushdownTop, Step, PushInv
  <2>2. IsBound(TopParam)
    BY <1>1, <1>4, <2>1, CappedBound DEF TopParam
  <2>3. Clauses(q, res')
    BY <1>1, <1>2, <1>3, <2>1, <2>2
  <2>4. Divided(q, res')
    BY <1>1, <2>1 DEF Divided
  <2> QED BY <2>1, <2>3, <2>4, TranslateStep
<1>10. CASE ApplyPushdownSkip
  <2>1. /\ Step("skip", "count") /\ UNCHANGED <<page, answer>> /\ config # Nil /\ Divided(q, r)
        /\ res' = [res EXCEPT !.skip = SkipParam]
    BY <1>10 DEF ApplyPushdownSkip, Step, PushInv
  <2>2. IsBound(SkipParam)
    BY <1>1, <1>4, <2>1, CappedBound DEF SkipParam
  <2>3. Clauses(q, res')
    BY <1>1, <1>2, <1>3, <2>1, <2>2
  <2>4. Divided(q, res')
    BY <1>1, <2>1 DEF Divided
  <2> QED BY <2>1, <2>3, <2>4, TranslateStep
<1>11. CASE ApplyPushdownCount
  <2>1. /\ Step("count", "send") /\ UNCHANGED <<page, answer>> /\ Divided(q, r)
        /\ res' = [res EXCEPT !.count = CountParam]
    BY <1>11 DEF ApplyPushdownCount, Step, PushInv
  <2>3. Clauses(q, res')
    BY <1>1, <1>2, <1>3, <2>1
  <2>4. Divided(q, res')
    BY <1>1, <2>1 DEF Divided
  <2> QED BY <2>1, <2>3, <2>4, TranslateStep
<1> QED BY <1>5, <1>6, <1>7, <1>8, <1>9, <1>10, <1>11

LEMMA PushStep ==
    ASSUME WellFormedQueries, PushInv, [QueryNext]_queryVars
    PROVE  PushInv'
<1>1. Chosen(intent, table) /\ Clauses(intent, res)
  BY ChosenWell DEF PushInv
<1>2. CASE Answer
  <2>1. /\ step = "send" /\ step' = "finish" /\ res' = res
        /\ config' = config /\ intent' = intent /\ table' = table
    BY <1>2 DEF Answer, Step
  <2>2. page' = [data  |-> Projected(Window(Ordered(Filtered(table, res.filter), res.orderBy), res.skip, res.top),
                                     res.select),
                 total |-> Len(Filtered(table, res.filter))]
    BY <1>2 DEF Answer
  <2>3. Fetched(table, intent, res, page'.data, page'.total)
    BY <1>1, <2>2, AnswerIsFetched
  <2>4. Answered' /\ Completed'
    BY <2>1, <2>3 DEF Answered, Completed
  <2> QED BY <2>1, <2>4 DEF PushInv
<1>3. CASE Finish
  <2>1. /\ step = "finish" /\ step' = "done" /\ res' = res /\ page' = page
        /\ config' = config /\ intent' = intent /\ table' = table
    BY <1>3 DEF Finish, Step
  <2>2. answer' = LET kept   == Filtered(page.data, res.residual)
                      offset == IF res.skip = Nil THEN Bound(intent.offset) ELSE Nil
                  IN  IF intent.count
                      THEN IF res.count THEN page.total ELSE Len(kept)
                      ELSE Projected(Window(Ordered(kept, intent.orderBy), offset, Bound(intent.limit)),
                                     intent.projection)
    BY <1>3 DEF Finish
  <2>3. Fetched(table, intent, res, page.data, page.total)
    BY <2>1 DEF PushInv, Answered
  <2>4. NeedsProjected => Finished(table, intent, res, answer')
    BY <1>1, <2>2, <2>3, FinishIsFinished
  <2>5. NeedsProjected' <=> NeedsProjected
    BY <2>1 DEF NeedsProjected
  <2>6. Answered' /\ Completed'
    BY <2>1, <2>3, <2>4, <2>5 DEF Answered, Completed
  <2> QED BY <2>1, <2>6 DEF PushInv
<1>4. CASE UNCHANGED queryVars
  <2>1. NeedsProjected' <=> NeedsProjected
    BY <1>4 DEF NeedsProjected, queryVars
  <2> QED BY <1>4, <2>1 DEF PushInv, Answered, Completed, queryVars
<1>5. CASE QueryDone
  BY <1>4, <1>5 DEF QueryDone
<1> QED BY <1>2, <1>3, <1>4, <1>5, TranslatorsStep DEF QueryNext

(* In every pushdown, however the clauses of the query are divided between *)
(* parameters and the caller, the answers of both are the rows that their  *)
(* share of the clauses selects.                                           *)
THEOREM PushInvariance == QuerySpec => []PushInv
<1>1. QueryInit => PushInv
  BY QueriesAssumption, PushInit
<1>2. PushInv /\ [QueryNext]_queryVars => PushInv'
  BY QueriesAssumption, PushStep
<1> QED BY <1>1, <1>2, PTL DEF QuerySpec


(* What the API kept and the caller keeps is what the query wants.         *)
LEMMA BothMeet ==
    ASSUME NEW q, NEW r, Divided(q, r), NEW row
    PROVE  Meets(q, r.filter, row) /\ Meets(q, r.residual, row) <=> Meets(q, DOMAIN q.predicates, row)
<1>1. \A i : i \in DOMAIN q.predicates <=> i \in r.filter \/ i \in r.residual
  BY DEF Divided
<1> QED BY <1>1 DEF Meets

LEMMA WindowElements ==
    ASSUME NEW S, NEW x \in Seq(S), NEW offset, IsBound(offset), NEW limit, IsBound(limit)
    PROVE  Elements(Window(x, offset, limit)) \subseteq Elements(x)
<1> DEFINE w == Window(x, offset, limit)
<1>1. Within(w, x)
  BY WindowOf
<1> HIDE DEF w
<1>2. PICK z \in Seq(DOMAIN x) : w = Along(x, z)
  BY <1>1 DEF Within
<1>3. DOMAIN w = DOMAIN z /\ \A i \in DOMAIN z : w[i] = x[z[i]] /\ z[i] \in DOMAIN x
  BY <1>2 DEF Along
<1>4. Elements(w) \subseteq Elements(x)
  BY <1>3 DEF Elements
<1> QED BY <1>4 DEF w

(* Nothing was cut before the caller: it ends with the reference's list.   *)
LEMMA UncutIsArranged ==
    ASSUME NEW t, NEW q, NEW r, NEW x, NEW y, Chosen(q, t), Clauses(q, r), Divided(q, r),
           Arranged(t, q, x, r.filter, r.orderBy), Concluded(t, q, r, x, y), r.top = Nil, r.skip = Nil
    PROVE  Arranged(t, q, y, DOMAIN q.predicates, q.orderBy)
<1>1. IsTable(t) /\ x \in Seq(DOMAIN t)
  BY DEF Chosen, Arranged
<1>2. Window(x, r.skip, r.top) = x
  BY <1>1, WindowOpen
<1>3. /\ y \in Seq(DOMAIN t)
      /\ Elements(y) = {k \in Elements(x) : Meets(q, r.residual, t[k])}
      /\ Sorts(t, q.orderBy) => Rising(y, SortedBy(t, q.orderBy))
      /\ ~Sorts(t, q.orderBy) => Within(y, x)
  BY <1>2 DEF Concluded
<1>4. Elements(x) = {k \in DOMAIN t : Meets(q, r.filter, t[k])}
  BY DEF Arranged
<1>5. Elements(y) = {k \in DOMAIN t : Meets(q, DOMAIN q.predicates, t[k])}
  BY <1>3, <1>4, BothMeet
<1>6. Rising(y, OrderOf(t, q.orderBy))
  <2>1. CASE Sorts(t, q.orderBy)
    BY <1>3, <2>1 DEF OrderOf
  <2>2. CASE ~Sorts(t, q.orderBy)
    <3>1. ~Sorts(t, r.orderBy)
      <4>1. r.orderBy = Nil \/ r.orderBy = q.orderBy
        BY DEF Clauses
      <4> QED BY <2>2, <4>1 DEF Sorts
    <3>2. Rising(x, Earlier)
      BY <3>1 DEF Arranged, OrderOf
    <3> QED BY <1>1, <1>3, <2>2, <3>2, WithinRises DEF OrderOf
  <2> QED BY <2>1, <2>2
<1> QED BY <1>3, <1>5, <1>6 DEF Arranged

(* Something was cut, but after everything else: the API's list is the     *)
(* reference's, and the caller finds its window in order.                  *)
LEMMA CutIsArranged ==
    ASSUME NEW t, NEW q, NEW r, NEW x, NEW y, Chosen(q, t), Clauses(q, r), Divided(q, r),
           Arranged(t, q, x, r.filter, r.orderBy), Concluded(t, q, r, x, y),
           r.residual = {}, r.orderBy # Nil \/ q.orderBy = <<>>
    PROVE  Arranged(t, q, x, DOMAIN q.predicates, q.orderBy) /\ y = Window(x, r.skip, r.top)
<1> DEFINE w == Window(x, r.skip, r.top)
           o == q.orderBy
<1>1. IsTable(t) /\ x \in Seq(DOMAIN t) /\ IsBound(r.skip) /\ IsBound(r.top)
  BY DEF Chosen, Arranged, Clauses
<1>2. OrderOf(t, r.orderBy) = OrderOf(t, o)
  <2>1. r.orderBy = o \/ (r.orderBy = Nil /\ o = <<>>)
    BY DEF Clauses
  <2> QED BY <2>1 DEF OrderOf, Sorts
<1>3. r.filter = DOMAIN q.predicates
  BY DEF Divided
<1>4. Arranged(t, q, x, DOMAIN q.predicates, o)
  BY <1>2, <1>3 DEF Arranged
<1>5. w \in Seq(DOMAIN t) /\ Within(w, x)
  BY <1>1, WindowOf
<1>6. y = w
  <2>1. CASE ~Sorts(t, o)
    BY <2>1 DEF Concluded
  <2>2. CASE Sorts(t, o)
    <3>1. y \in Seq(DOMAIN t) /\ Rising(y, SortedBy(t, o)) /\ Elements(y) = Elements(w)
      <4>1. \A k : Meets(q, r.residual, t[k])
        BY DEF Meets
      <4> HIDE DEF o
      <4>2. Elements(y) = {k \in Elements(w) : Meets(q, r.residual, t[k])}
        BY DEF Concluded
      <4>3. y \in Seq(DOMAIN t) /\ Rising(y, SortedBy(t, o))
        BY <2>2 DEF Concluded, o
      <4> QED BY <4>1, <4>2, <4>3
    <3>2. OrderOf(t, o) = SortedBy(t, o)
      BY <2>2 DEF OrderOf
    <3>3. Rising(x, SortedBy(t, o))
      BY <1>4, <3>2 DEF Arranged
    <3>4. Rising(w, SortedBy(t, o))
      BY <1>1, <1>5, <3>3, WithinRises
    <3>5. Linear(SortedBy(t, o), DOMAIN t)
      BY <1>1, <3>2, OrderLinear
    <3> HIDE DEF w, o
    <3> QED BY <1>5, <3>1, <3>4, <3>5, RisingUnique
  <2> QED BY <2>1, <2>2
<1> QED BY <1>4, <1>6

LEMMA ReferenceShows ==
    ASSUME Chosen(intent, table)
    PROVE  \E x : /\ Arranged(table, intent, x, DOMAIN intent.predicates, intent.orderBy)
                  /\ Reference = IF intent.count THEN Len(x)
                                 ELSE Shown(table, Window(x, Bound(intent.offset), Bound(intent.limit)),
                                            intent.projection)
<1> DEFINE t == table
           q == intent
           which == DOMAIN intent.predicates
<1>1. IsTable(t) /\ IsBound(Bound(q.offset)) /\ IsBound(Bound(q.limit)) /\ Covers(t, q.projection)
  BY DEF Chosen
<1>2. PICK x : /\ Arranged(t, q, x, which, q.orderBy)
               /\ Ordered(Filtered(t, which), q.orderBy) = Shown(t, x, Nil)
               /\ Len(Filtered(t, which)) = Len(x)
  BY <1>1, FoundIsArranged
<1>3. x \in Seq(DOMAIN t)
  BY <1>2 DEF Arranged
<1> DEFINE w == Window(x, Bound(q.offset), Bound(q.limit))
<1>4. Window(Shown(t, x, Nil), Bound(q.offset), Bound(q.limit)) = Shown(t, w, Nil)
  BY <1>1, <1>3, ShownWindow
<1>5. w \in Seq(DOMAIN t)
  BY <1>1, <1>3, WindowOf
<1> HIDE DEF w
<1>6. Projected(Shown(t, w, Nil), q.projection) = Shown(t, w, q.projection)
  BY <1>1, <1>5, ShownProjected
<1> QED BY <1>2, <1>4, <1>6 DEF Reference, w

LEMMA ExactWhenInv ==
    ASSUME WellFormedQueries, PushInv
    PROVE  SplitQueryIsExact
<1> DEFINE t == table
           q == intent
           r == res
           off == Bound(q.offset)
           lim == Bound(q.limit)
           all == DOMAIN q.predicates
<1> SUFFICES ASSUME step = "done", NothingLeftBefore, NeedsProjected PROVE answer = Reference
  BY DEF SplitQueryIsExact
<1>1. Chosen(q, t) /\ Clauses(q, r) /\ Divided(q, r) /\ Nil \notin Int
  BY ChosenWell DEF PushInv, WellFormedQueries
<1>2. PICK x, y :
       /\ Arranged(t, q, x, r.filter, r.orderBy) /\ Concluded(t, q, r, x, y)
       /\ answer = IF q.count THEN IF r.count THEN Len(x) ELSE Len(y)
                   ELSE Shown(t, Window(y, IF r.skip = Nil THEN off ELSE Nil, lim), q.projection)
  BY DEF PushInv, Completed, Finished
<1>3. PICK z : /\ Arranged(t, q, z, all, q.orderBy)
               /\ Reference = IF q.count THEN Len(z) ELSE Shown(t, Window(z, off, lim), q.projection)
  BY <1>1, ReferenceShows
<1>4. IsTable(t) /\ IsBound(off) /\ IsBound(lim) /\ IsBound(r.top) /\ IsBound(r.skip)
  BY <1>1 DEF Chosen, Clauses
<1>5. CASE q.count /\ r.count
  <2>1. r.filter = all
    BY <1>1, <1>5 DEF NothingLeftBefore, Divided
  <2>2. Len(x) = Len(z)
    <3>1. x \in Seq(DOMAIN t) /\ z \in Seq(DOMAIN t) /\ Elements(x) = Elements(z)
      BY <1>2, <1>3, <2>1 DEF Arranged
    <3>2. Distinct(x)
      <4>1. Rising(x, OrderOf(t, r.orderBy)) /\ Linear(OrderOf(t, r.orderBy), DOMAIN t)
        BY <1>2, <1>4, OrderLinear DEF Arranged
      <4> QED BY <3>1, <4>1, RisingDistinct
    <3>3. Distinct(z)
      <4>1. Rising(z, OrderOf(t, q.orderBy)) /\ Linear(OrderOf(t, q.orderBy), DOMAIN t)
        BY <1>3, <1>4, OrderLinear DEF Arranged
      <4> QED BY <3>1, <4>1, RisingDistinct
    <3>4. DOMAIN t \subseteq Nat
      BY <1>4, TableList
    <3> QED BY <3>1, <3>2, <3>3, <3>4, SameLength
  <2> QED BY <1>2, <1>3, <1>5, <2>2
<1>6. CASE r.top = Nil /\ r.skip = Nil /\ ~(q.count /\ r.count)
  <2>1. Arranged(t, q, y, all, q.orderBy)
    BY <1>1, <1>2, <1>6, UncutIsArranged
  <2>2. y = z
    BY <1>3, <1>4, <2>1, ArrangedOnce
  <2> QED BY <1>2, <1>3, <1>6, <2>2
<1>7. CASE ~(r.top = Nil /\ r.skip = Nil) /\ ~(q.count /\ r.count)
  <2>1. /\ r.residual = {} /\ ~q.count /\ (r.orderBy # Nil \/ q.orderBy = <<>>)
        /\ r.top # Nil => (r.skip # Nil \/ off = Nil) /\ r.top = q.limit
        /\ r.skip # Nil => r.skip = q.offset
    BY <1>7 DEF NothingLeftBefore
  <2>2. Arranged(t, q, x, all, q.orderBy) /\ y = Window(x, r.skip, r.top)
    BY <1>1, <1>2, <2>1, CutIsArranged
  <2>3. x = z
    BY <1>3, <1>4, <2>2, ArrangedOnce
  <2>4. (r.top # Nil => r.top = lim) /\ (r.skip # Nil => r.skip = off)
    <3>1. r.top # Nil => r.top \in Nat
      BY <1>4 DEF IsBound
    <3>2. r.skip # Nil => r.skip \in Nat
      BY <1>4 DEF IsBound
    <3> QED BY <2>1, <3>1, <3>2 DEF Bound
  <2>5. x \in Seq(DOMAIN t)
    BY <2>2 DEF Arranged
  <2> HIDE DEF off, lim
  <2>6. r.skip = off /\ r.top \in {Nil, lim}
    BY <1>7, <2>1, <2>4
  <2>7. Window(Window(x, off, r.top), Nil, lim) = Window(x, off, lim)
    BY <1>1, <1>4, <2>5, <2>6, WindowAgain
  <2>8. (IF r.skip = Nil THEN off ELSE Nil) = Nil
    BY <2>6
  <2> QED BY <1>2, <1>3, <2>1, <2>2, <2>3, <2>6, <2>7, <2>8
<1> QED BY <1>5, <1>6, <1>7

LEMMA NoForeignWhenInv ==
    ASSUME WellFormedQueries, PushInv
    PROVE  NoForeignRows
<1> DEFINE t == table
           q == intent
           r == res
           lim == Bound(q.limit)
           all == DOMAIN q.predicates
           wanted == Filtered(t, all)
           off == IF r.skip = Nil THEN Bound(q.offset) ELSE Nil
<1> SUFFICES ASSUME step = "done", ~q.count, NeedsProjected
             PROVE  /\ \A i \in DOMAIN answer : \E j \in DOMAIN wanted : wanted[j].id = answer[i].id
                    /\ \A i, j \in DOMAIN answer : answer[i].id = answer[j].id => i = j
  BY DEF NoForeignRows
<1>1. Chosen(q, t) /\ Clauses(q, r) /\ Divided(q, r)
  BY ChosenWell DEF PushInv
<1>2. PICK x, y : /\ Arranged(t, q, x, r.filter, r.orderBy) /\ Concluded(t, q, r, x, y)
                  /\ answer = Shown(t, Window(y, off, lim), q.projection)
  BY DEF PushInv, Completed, Finished
<1>3. /\ IsTable(t) /\ IsBound(off) /\ IsBound(lim) /\ IsBound(r.top) /\ IsBound(r.skip)
      /\ Covers(t, q.projection)
  BY <1>1 DEF Chosen, Clauses, IsBound
<1>4. /\ x \in Seq(DOMAIN t) /\ Elements(x) = {k \in DOMAIN t : Meets(q, r.filter, t[k])}
      /\ y \in Seq(DOMAIN t) /\ Distinct(y)
      /\ Elements(y) = {k \in Elements(Window(x, r.skip, r.top)) : Meets(q, r.residual, t[k])}
  BY <1>2 DEF Arranged, Concluded
<1>5. Elements(Window(x, r.skip, r.top)) \subseteq Elements(x)
  BY <1>3, <1>4, WindowElements
<1> HIDE DEF off, lim, all, t
<1>6. Elements(y) \subseteq {k \in DOMAIN t : Meets(q, all, t[k])}
  BY <1>1, <1>4, <1>5, BothMeet DEF all
<1> DEFINE w == Window(y, off, lim)
<1>7. w \in Seq(DOMAIN t) /\ Within(w, y) /\ Elements(w) \subseteq Elements(y)
  BY <1>3, <1>4, WindowOf, WindowElements
<1>8. Distinct(w)
  BY <1>4, <1>7, WithinDistinct
<1> HIDE DEF w
<1>9. DOMAIN answer = DOMAIN w /\ \A i \in DOMAIN w : answer[i] = View(t[w[i]], q.projection) /\ w[i] \in DOMAIN t
  BY <1>2, <1>7, ShownList DEF w
<1>10. ASSUME NEW i \in DOMAIN w PROVE answer[i].id = t[w[i]].id
  BY <1>3, <1>9, ViewKeeps
<1>11. ASSUME NEW i \in DOMAIN w, NEW j \in DOMAIN w, answer[i].id = answer[j].id PROVE i = j
  <2>1. t[w[i]].id = t[w[j]].id /\ w[i] \in DOMAIN t /\ w[j] \in DOMAIN t
    BY <1>9, <1>10, <1>11
  <2>2. w[i] = w[j]
    BY <1>3, <2>1, IdsDiffer
  <2> QED BY <1>8, <2>2 DEF Distinct
<1>12. PICK v \in Seq(DOMAIN t) : /\ Elements(v) = {k \in DOMAIN t : Meets(q, all, t[k])}
                                  /\ wanted = Along(t, v)
  <2>1. IsList(t)
    BY <1>3, TableList
  <2> QED BY <2>1, FilterPositions
<1>13. ASSUME NEW i \in DOMAIN w PROVE \E j \in DOMAIN wanted : wanted[j].id = answer[i].id
  <2>1. w[i] \in Elements(v)
    BY <1>6, <1>7, <1>12 DEF Elements
  <2>2. PICK j \in DOMAIN v : v[j] = w[i]
    BY <2>1 DEF Elements
  <2>3. j \in DOMAIN wanted /\ wanted[j] = t[w[i]]
    BY <1>12, <2>2 DEF Along
  <2> QED BY <1>10, <2>3
<1> QED BY <1>9, <1>11, <1>13

(* ApplyPushdown splits a query soundly: when no cut or count was sent     *)
(* past work left to the caller, the caller ends with the query's answer.  *)
THEOREM SplitQueryExact == QuerySpec => []SplitQueryIsExact
<1>1. PushInv => SplitQueryIsExact
  BY QueriesAssumption, ExactWhenInv
<1> QED BY <1>1, PushInvariance, PTL

(* Whatever ApplyPushdown sent, no row that the query excludes is          *)
(* delivered, and none twice.                                              *)
THEOREM OnlyWantedRows == QuerySpec => []NoForeignRows
<1>1. PushInv => NoForeignRows
  BY QueriesAssumption, NoForeignWhenInv
<1> QED BY <1>1, PushInvariance, PTL

=============================================================================
