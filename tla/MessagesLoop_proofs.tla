------------------------- MODULE MessagesLoop_proofs --------------------------
(***************************************************************************)
(* The Messages gateway loop, for every list of tools, every limit and     *)
(* every turn of the model over any number of rounds.                      *)
(*                                                                         *)
(* The invariant ties three views of a turn together: what the model has   *)
(* said (said), what the accumulator holds of it (Accumulated) and what    *)
(* the client has received over all rounds (Delivered); Budgeted charges   *)
(* the searches that ran against every limit of the request, and Replaying *)
(* follows the turn into the calls that run and the request that replays   *)
(* it.                                                                     *)
(***************************************************************************)
EXTENDS MessagesLoop, SequenceTheorems, FiniteSetTheorems, TLAPS

G == INSTANCE FoldTheorems WITH Op <- KeepGateway
V == INSTANCE FoldTheorems WITH Op <- KeepVisible
R == INSTANCE FoldTheorems WITH Op <- Received

Blocks == [kind : Kinds, body : Nat]

-----------------------------------------------------------------------------
(* The operators.                                                          *)

\* The calls of the gateway, the visible blocks and the client's view are folds.
LEMMA GatewayFold == \A content : GatewayCalls(content) = G!Fold(<< >>, content)
  BY DEF GatewayCalls, FoldLeft, MapThenFoldSet, G!Fold, G!Part, G!Folds, G!Greatest, Max

\* As above.
LEMMA VisibleFold == \A content : Visible(content) = V!Fold(<< >>, content)
  BY DEF Visible, FoldLeft, MapThenFoldSet, V!Fold, V!Part, V!Folds, V!Greatest, Max

\* As above.
LEMMA ReceivedFold == \A events : ReceivedAll(events) = R!Fold(view, events)
  BY DEF ReceivedAll, FoldLeft, MapThenFoldSet, R!Fold, R!Part, R!Folds, R!Greatest, Max

\* The calls of a message are blocks of it.
LEMMA GatewayType ==
  ASSUME NEW content \in Seq(Blocks)
  PROVE  GatewayCalls(content) \in Seq(Blocks)
<1>1. << >> \in Seq(Blocks)
  OBVIOUS
<1>2. \A kept \in Seq(Blocks), block \in Blocks : KeepGateway(kept, block) \in Seq(Blocks)
  BY DEF KeepGateway
<1> QED BY <1>1, <1>2, G!FoldIn, GatewayFold

\* So are the visible ones.
LEMMA VisibleType ==
  ASSUME NEW content \in Seq(Blocks)
  PROVE  Visible(content) \in Seq(Blocks)
<1>1. << >> \in Seq(Blocks)
  OBVIOUS
<1>2. \A kept \in Seq(Blocks), block \in Blocks : KeepVisible(kept, block) \in Seq(Blocks)
  BY DEF KeepVisible
<1> QED BY <1>1, <1>2, V!FoldIn, VisibleFold

\* Nothing of nothing.
LEMMA VisibleEmpty == Visible(<< >>) = << >>
  BY VisibleFold, V!FoldEmpty

\* A block is visible or not whatever stands before it.
LEMMA VisibleAppend ==
  ASSUME NEW content \in Seq(Blocks), NEW block \in Blocks
  PROVE  Visible(Append(content, block)) = KeepVisible(Visible(content), block)
  BY VisibleFold, V!FoldAppend

\* The last block of a turn as its own.
LEMMA LastBlock ==
  ASSUME NEW content \in Seq(Blocks), content # << >>
  PROVE  \E front \in Seq(Blocks) :
            /\ content = Append(front, content[Len(content)])
            /\ Len(content) = Len(front) + 1
<1> DEFINE front == [i \in 1 .. (Len(content) - 1) |-> content[i]]
<1>1. front \in Seq(Blocks) /\ Len(front) = Len(content) - 1 /\ Len(content) \in Nat \ {0}
  OBVIOUS
<1>2. content = Append(front, content[Len(content)])
  BY <1>1
<1> HIDE DEF front
<1> QED BY <1>1, <1>2

\* The view after no event,
LEMMA ReceivedNone == ReceivedAll(<< >>) = view
  BY ReceivedFold, R!FoldEmpty

\* after one,
LEMMA ReceivedOne ==
  ASSUME NEW e
  PROVE  ReceivedAll(<<e>>) = Received(view, e)
<1>1. <<e>> = Append(<< >>, e) /\ << >> \in Seq({e})
  OBVIOUS
<1>2. R!Fold(view, Append(<< >>, e)) = Received(R!Fold(view, << >>), e)
  BY <1>1, R!FoldAppend
<1> QED BY <1>1, <1>2, ReceivedFold, R!FoldEmpty

\* and after two.
LEMMA ReceivedTwo ==
  ASSUME NEW d, NEW e
  PROVE  ReceivedAll(<<d, e>>) = Received(Received(view, d), e)
<1>1. <<d, e>> = Append(<<d>>, e)
  OBVIOUS
<1> DEFINE S == {d, e}
<1>2. R!Fold(view, Append(<<d>>, e)) = Received(R!Fold(view, <<d>>), e)
  <2>1. <<d>> \in Seq(S) /\ e \in S
    OBVIOUS
  <2> HIDE DEF S
  <2> QED BY <2>1, R!FoldAppend
<1>3. R!Fold(view, <<d>>) = Received(view, d)
  BY ReceivedFold, ReceivedOne
<1>4. ReceivedAll(<<d, e>>) = R!Fold(view, Append(<<d>>, e))
  BY <1>1, ReceivedFold
<1> QED BY <1>2, <1>3, <1>4

\* The tightest declaration.
LEMMA LeastUses ==
  ASSUME NEW tools \in ToolLists
  PROVE  /\ MaxUses(tools) \in Nat \cup {Unlimited}
         /\ \A t \in tools : t.native /\ t.max # Unlimited =>
                MaxUses(tools) \in Nat /\ MaxUses(tools) <= t.max
<1> DEFINE declared == {t.max : t \in {u \in tools : u.native}} \ {Unlimited}
<1>1. declared \in SUBSET Nat
  BY ConstantsAssumption
<1>2. CASE declared = {}
  BY <1>2 DEF MaxUses
<1>3. CASE declared # {}
  <2>1. PICK m \in declared : \A i \in declared : ~(<<i, m>> \in OpToRel(<, Nat))
    <3> HIDE DEF declared
    <3> QED BY <1>1, <1>3, NatLessThanWellFounded, WFMin
  <2>2. \A i \in declared : m <= i
    <3> HIDE DEF declared
    <3> SUFFICES ASSUME NEW i \in declared PROVE m <= i
      OBVIOUS
    <3>1. i \in Nat /\ m \in Nat
      BY <1>1
    <3>2. ~(i < m)
      BY <2>1, <3>1 DEF OpToRel
    <3> QED BY <3>1, <3>2
  <2>3. Min(declared) \in declared /\ \A i \in declared : Min(declared) <= i
    <3> HIDE DEF declared
    <3> QED BY <2>2 DEF Min
  <2>4. MaxUses(tools) = Min(declared)
    BY <1>3 DEF MaxUses
  <2> HIDE DEF declared
  <2>5. \A t \in tools : t.native /\ t.max # Unlimited => t.max \in declared
    BY DEF declared
  <2> QED BY <1>1, <2>3, <2>4, <2>5
<1> QED BY <1>2, <1>3

-----------------------------------------------------------------------------
(* The invariant.                                                          *)

Live == {"send", "reading", "decide", "tools"}

Turn == {"reading", "decide"}

TypeInv ==
    /\ request \in [stream : BOOLEAN, tools : ToolLists]
    /\ phase \in {"arrived", "proxied", "ended"} \cup Live
    /\ round \in Nat
    /\ said.content \in Seq(Blocks) /\ said.open \in BOOLEAN /\ said.stop \in Stops \cup {"none"}
    /\ said = [content |-> said.content, open |-> said.open, stop |-> said.stop]
    /\ calls = [content |-> calls.content, results |-> calls.results]
    /\ calls.content \in Seq(Blocks)
    /\ calls.results \in Seq({"refused", "invalid", "running", "ok", "failed"})
    /\ remaining \in Nat \cup {Unlimited}
    /\ ran \in Nat
    /\ shown \in Seq(Blocks)
    /\ view \in [started : BOOLEAN, blocks : Seq(Blocks), open : SUBSET Nat,
                 ended : {"no", "error", "message_stop"}, broken : BOOLEAN]

Keys(f) == DOMAIN f \in SUBSET Nat /\ f = [i \in DOMAIN f |-> f[i]]

AccType ==
    /\ acc = [started |-> acc.started, next |-> acc.next, map |-> acc.map,
              suppressed |-> acc.suppressed, blocks |-> acc.blocks, onToolUse |-> acc.onToolUse,
              clientTool |-> acc.clientTool, delta |-> acc.delta, state |-> acc.state]
    /\ acc.started \in BOOLEAN /\ acc.next \in Nat /\ acc.suppressed \in SUBSET Nat
    /\ acc.onToolUse \in BOOLEAN /\ acc.clientTool \in BOOLEAN /\ acc.delta \in BOOLEAN
    /\ acc.state \in {"active", "error", "completed"}
    /\ Keys(acc.map) /\ Keys(acc.blocks)

\* Of a turn that is read line by line the accumulator keeps the blocks by their
\* upstream index, hides the gateway calls and has a client index for the block
\* that is open.
Accumulated ==
  /\ phase = "decide" => request.stream
  /\ request.stream /\ phase \in Turn =>
        LET n == Len(said.content)
        IN  /\ DOMAIN acc.blocks = 0 .. (n - 1)
            /\ \A i \in 1 .. n : acc.blocks[i - 1] = said.content[i]
            /\ acc.suppressed \subseteq 0 .. (n - 1)
            /\ acc.clientTool <=> \E i \in 1 .. n : said.content[i].kind = "client"
            /\ acc.onToolUse => said.stop = "tool_use"
            /\ acc.delta => acc.started
            /\ said.open => n > 0 /\ said.stop = "none"
            /\ said.open => IF said.content[n].kind = "gateway" THEN n - 1 \in acc.suppressed
                            ELSE /\ n - 1 \notin acc.suppressed /\ n - 1 \in DOMAIN acc.map
                                 /\ acc.next > 0 /\ acc.map[n - 1] = acc.next - 1
            /\ phase = "reading" => acc.state = "active"

\* Where the client is in the message.
Delivered ==
    /\ ~view.broken
    /\ phase \in Live \cup {"arrived", "proxied"} => view.ended = "no"
    /\ phase = "ended" => view.ended # "no"
    /\ phase = "arrived" => acc = NewAccumulator
    /\ phase \in {"arrived", "proxied"} => view = EmptyView /\ shown = << >>
    /\ request.stream /\ phase \in Live => view.started = acc.started /\ acc.next = Len(view.blocks)
    /\ request.stream /\ phase \in Live \ Turn => view.open = {} /\ view.blocks = shown
    /\ request.stream /\ phase \in Turn =>
        /\ view.blocks = shown \o Visible(said.content)
        /\ view.open = IF said.open /\ said.content[Len(said.content)].kind # "gateway"
                       THEN {acc.next - 1} ELSE {}
    /\ request.stream /\ view.ended # "error" /\ phase = "ended" => view.blocks = shown

\* What was run and what may still be run.
Budgeted ==
    /\ phase = "arrived" => ran = 0 /\ round = 0
    /\ phase # "arrived" => \A t \in request.tools :
            t.native /\ t.max # Unlimited => remaining \in Nat /\ ran + remaining <= t.max
    /\ \A i \in DOMAIN calls.results : calls.results[i] = "refused" => remaining = 0
    /\ phase = "arrived" => calls.results = << >>

Gateway(content) == \A i \in 1 .. Len(content) : content[i].kind # "client"

\* What is run is the turn, and what is posted is what was run.
Replaying ==
    /\ phase = "tools" =>
        /\ calls.content = said.content
        /\ Gateway(said.content)
        /\ Len(calls.results) = Len(GatewayCalls(said.content))
    /\ TurnReplayed

Inv == TypeInv /\ AccType /\ Accumulated /\ Delivered /\ Budgeted /\ Replaying

-----------------------------------------------------------------------------
(* The steps.                                                              *)

\* The invariant holds when the request arrives.
LEMMA InitInv == Init => Inv
<1> SUFFICES ASSUME Init PROVE Inv
  OBVIOUS
<1>1. TypeInv
  BY ConstantsAssumption DEF Init, TypeInv, NothingSaid, EmptyView
<1>2. AccType
  BY DEF Init, AccType, NewAccumulator, Keys
<1>3. Accumulated
  BY DEF Init, Accumulated, Turn
<1>4. Delivered
  BY DEF Init, Delivered, Turn, Live, EmptyView
<1>5. Budgeted
  BY DEF Init, Budgeted
<1>6. Replaying
  BY DEF Init, Replaying, TurnReplayed
<1> QED BY <1>1, <1>2, <1>3, <1>4, <1>5, <1>6 DEF Inv

\* A request is taken or passed on.
LEMMA RouteStep ==
  ASSUME Inv, Route
  PROVE  Inv'
<1> USE DEF Inv
<1>1. /\ phase = "arrived" /\ phase' \in {"proxied", "ended", "send"}
      /\ view' = [view EXCEPT !.ended = view'.ended]
      /\ phase' = "ended" => view'.ended = "error"
      /\ phase' # "ended" => view'.ended = view.ended
      /\ UNCHANGED <<request, round, said, acc, calls, ran, posted, shown>>
  BY DEF Route, TypeInv
<1>2. acc = NewAccumulator /\ view = EmptyView /\ shown = << >> /\ ran = 0 /\ round = 0 /\ calls.results = << >>
  BY <1>1 DEF Delivered, Budgeted
<1>3. /\ remaining' \in Nat \cup {Unlimited}
      /\ \A t \in request.tools : t.native /\ t.max # Unlimited => remaining' \in Nat /\ remaining' <= t.max
  <2>1. request.tools \in ToolLists
    BY DEF TypeInv
  <2>2. \A t \in request.tools : t.max # Unlimited => t.max \in Nat
    BY <2>1, ConstantsAssumption
  <2>3. remaining' \in {0, MaxUses(request.tools)}
    BY DEF Route
  <2> QED BY <2>1, <2>2, <2>3, LeastUses
<1>4. TypeInv'
  BY <1>1, <1>2, <1>3 DEF TypeInv, Live, EmptyView
<1>5. AccType'
  BY <1>1 DEF AccType
<1>6. Accumulated'
  BY <1>1 DEF Accumulated, Turn
<1>7. Delivered'
  <2>1. view'.started = FALSE /\ view'.blocks = << >> /\ view'.open = {} /\ view'.broken = FALSE
    BY <1>1, <1>2 DEF EmptyView
  <2>2. acc.started = FALSE /\ acc.next = 0 /\ view.ended = "no"
    BY <1>2 DEF NewAccumulator, EmptyView
  <2>3. phase' # "ended" => view' = EmptyView
    BY <1>1, <1>2 DEF EmptyView
  <2> QED BY <1>1, <1>2, <2>1, <2>2, <2>3 DEF Delivered, Turn, Live
<1>8. Budgeted'
  BY <1>1, <1>2, <1>3 DEF Budgeted
<1>9. Replaying'
  BY <1>1, <1>2 DEF Replaying, TurnReplayed
<1> QED BY <1>4, <1>5, <1>6, <1>7, <1>8, <1>9

\* A round is sent upstream.
LEMMA SendStep ==
  ASSUME Inv, Send
  PROVE  Inv'
<1> USE DEF Inv
<1>1. /\ phase = "send" /\ phase' = "reading" /\ round' = round + 1
      /\ said' = NothingSaid /\ acc' = BeginRound(acc)
      /\ UNCHANGED <<request, calls, remaining, ran, posted, shown, view>>
  BY DEF Send
<1>2. said'.content = << >> /\ said'.open = FALSE /\ said'.stop = "none"
  BY <1>1 DEF NothingSaid
<1>3. /\ acc'.started = acc.started /\ acc'.next = acc.next /\ acc'.suppressed = {}
      /\ acc'.map = << >> /\ acc'.blocks = << >> /\ acc'.onToolUse = FALSE
      /\ acc'.clientTool = FALSE /\ acc'.delta = FALSE /\ acc'.state = "active"
      /\ acc' = [started |-> acc'.started, next |-> acc'.next, map |-> acc'.map,
              suppressed |-> acc'.suppressed, blocks |-> acc'.blocks, onToolUse |-> acc'.onToolUse,
              clientTool |-> acc'.clientTool, delta |-> acc'.delta, state |-> acc'.state]
  BY <1>1 DEF BeginRound, AccType
<1>4. TypeInv'
  BY <1>1, <1>2 DEF TypeInv, Live, NothingSaid
<1>5. AccType'
  <2>1. Keys(acc'.map) /\ Keys(acc'.blocks)
    BY <1>3 DEF Keys
  <2>2. acc.started \in BOOLEAN /\ acc.next \in Nat
    BY DEF AccType
  <2> QED BY <1>3, <2>1, <2>2 DEF AccType
<1>6. Accumulated'
  BY <1>1, <1>2, <1>3 DEF Accumulated, Turn
<1>7. Delivered'
  <2>1. shown \o << >> = shown
    BY DEF TypeInv
  <2> QED BY <1>1, <1>2, <1>3, <2>1, VisibleEmpty DEF Delivered, Turn, Live
<1>8. Budgeted'
  BY <1>1 DEF Budgeted
<1>9. Replaying'
  BY <1>1 DEF Replaying, TurnReplayed
<1> QED BY <1>4, <1>5, <1>6, <1>7, <1>8, <1>9

\* The error ends the message.
LEMMA FailedView ==
  ASSUME TypeInv, view.ended = "no"
  PROVE  ReceivedAll(Failed) = [view EXCEPT !.ended = "error"]
<1>1. ReceivedAll(Failed) = Received(view, Event("error", 0, Block("text")))
  BY ReceivedOne DEF Failed
<1> QED BY <1>1 DEF Received, Event

\* The turn fails.
LEMMA FailStep ==
  ASSUME Inv, Fail \/ Exhausted
  PROVE  Inv'
<1> USE DEF Inv
<1>1. /\ phase \in Live /\ phase' = "ended" /\ view' = ReceivedAll(Failed)
      /\ UNCHANGED <<request, round, said, acc, calls, remaining, ran, posted, shown>>
  BY DEF Fail, Exhausted, Live
<1>2. view' = [view EXCEPT !.ended = "error"]
  BY <1>1, FailedView DEF Delivered
<1>3. TypeInv'
  BY <1>1, <1>2 DEF TypeInv
<1>4. AccType'
  BY <1>1 DEF AccType
<1>5. Accumulated'
  BY <1>1 DEF Accumulated, Turn
<1>6. Delivered'
  <2>1. view'.ended = "error" /\ view'.broken = view.broken
    BY <1>2 DEF TypeInv
  <2> QED BY <1>1, <2>1 DEF Delivered, Turn, Live
<1>7. Budgeted'
  BY <1>1 DEF Budgeted, Live
<1>8. Replaying'
  BY <1>1 DEF Replaying, TurnReplayed
<1> QED BY <1>3, <1>4, <1>5, <1>6, <1>7, <1>8

\* The stream breaks off.
LEMMA EndOfBodyStep ==
  ASSUME Inv, EndOfBody
  PROVE  Inv'
<1> USE DEF Inv
<1>1. /\ phase = "reading" /\ phase' = "decide" /\ request.stream
      /\ UNCHANGED <<request, round, said, acc, calls, remaining, ran, posted, shown, view>>
  BY DEF EndOfBody
<1>3. TypeInv'
  BY <1>1 DEF TypeInv, Live
<1>4. AccType'
  BY <1>1 DEF AccType
<1>5. Accumulated'
  BY <1>1 DEF Accumulated, Turn
<1>6. Delivered'
  BY <1>1 DEF Delivered, Turn, Live
<1>7. Budgeted'
  BY <1>1 DEF Budgeted
<1>8. Replaying'
  BY <1>1 DEF Replaying, TurnReplayed
<1> QED BY <1>3, <1>4, <1>5, <1>6, <1>7, <1>8

\* A call returns.
LEMMA CallEndsStep ==
  ASSUME Inv, CallEnds
  PROVE  Inv'
<1> USE DEF Inv
<1>1. PICK i \in DOMAIN calls.results, outcome \in {"ok", "failed"} :
        calls.results[i] = "running" /\ calls' = [calls EXCEPT !.results[i] = outcome]
  BY DEF CallEnds
<1>2. /\ phase = "tools" /\ phase' = phase
      /\ UNCHANGED <<request, round, said, acc, remaining, ran, posted, shown, view>>
  BY DEF CallEnds
<1>3. /\ calls'.content = calls.content
      /\ calls'.results = [calls.results EXCEPT ![i] = outcome]
      /\ calls' = [content |-> calls'.content, results |-> calls'.results]
  BY <1>1 DEF TypeInv
<1>4. /\ calls'.results \in Seq({"refused", "invalid", "running", "ok", "failed"})
      /\ Len(calls'.results) = Len(calls.results)
      /\ DOMAIN calls'.results = DOMAIN calls.results
      /\ \A j \in DOMAIN calls'.results : calls'.results[j] = "refused" => calls.results[j] = "refused"
  BY <1>3 DEF TypeInv
<1>5. TypeInv'
  BY <1>2, <1>3, <1>4 DEF TypeInv
<1>6. AccType'
  BY <1>2 DEF AccType
<1>7. Accumulated'
  BY <1>2 DEF Accumulated, Turn
<1>8. Delivered'
  BY <1>2 DEF Delivered, Turn, Live
<1>9. Budgeted'
  BY <1>2, <1>4 DEF Budgeted
<1>10. Replaying'
  BY <1>2, <1>3, <1>4 DEF Replaying, TurnReplayed
<1> QED BY <1>5, <1>6, <1>7, <1>8, <1>9, <1>10

\* The turn and its results are appended to the request.
LEMMA AppendRoundStep ==
  ASSUME Inv, AppendRound
  PROVE  Inv'
<1> USE DEF Inv
<1>1. /\ phase = "tools" /\ phase' = "send"
      /\ posted' = [content |-> Appended(calls.content), results |-> calls.results]
      /\ calls' = [content |-> << >>, results |-> << >>]
      /\ UNCHANGED <<request, round, said, acc, remaining, ran, shown, view>>
  BY DEF AppendRound
<1>2. TypeInv'
  BY <1>1 DEF TypeInv, Live
<1>3. AccType'
  BY <1>1 DEF AccType
<1>4. Accumulated'
  BY <1>1 DEF Accumulated, Turn
<1>5. Delivered'
  BY <1>1 DEF Delivered, Turn, Live
<1>6. Budgeted'
  BY <1>1 DEF Budgeted
<1>7. Replaying'
  <2>1. calls.content = said.content /\ Len(calls.results) = Len(GatewayCalls(said.content))
    BY <1>1 DEF Replaying
  <2>2. said.content \in Seq(Blocks) /\ \A i \in DOMAIN said.content : said.content[i].kind # "client"
    BY <1>1 DEF Replaying, Gateway, TypeInv
  <2>3. /\ Len(posted'.content) = Len(said.content)
        /\ \A i \in DOMAIN said.content : posted'.content[i] \in {said.content[i], Reconstructed(said.content[i])}
    BY <1>1, <2>1, <2>2 DEF Appended
  <2>4. \A i \in DOMAIN said.content : /\ said.content[i].kind \in Kinds
                                       /\ Reconstructed(said.content[i]).kind = said.content[i].kind
                                       /\ Reconstructed(said.content[i]).body = said.content[i].body
                                            \/ (/\ IsCall(said.content[i]) /\ ~Whole(said.content[i])
                                                /\ Reconstructed(said.content[i]).body = 0)
    <3> SUFFICES ASSUME NEW b \in Blocks
                 PROVE  /\ b.kind \in Kinds
                        /\ Reconstructed(b).kind = b.kind
                        /\ Reconstructed(b).body = b.body
                            \/ (IsCall(b) /\ ~Whole(b) /\ Reconstructed(b).body = 0)
      BY <2>2
    <3>1. CASE IsCall(b) /\ ~Whole(b)
      BY <3>1 DEF Reconstructed, Blocks
    <3>2. CASE ~(IsCall(b) /\ ~Whole(b))
      BY <3>2 DEF Reconstructed, Blocks
    <3> QED BY <3>1, <3>2
  <2>5. posted'.results = calls.results
    BY <1>1
  <2> QED BY <1>1, <2>1, <2>2, <2>3, <2>4, <2>5 DEF Replaying, TurnReplayed
<1> QED BY <1>2, <1>3, <1>4, <1>5, <1>6, <1>7

\* The calls within the reservation are run unless their arguments do not parse.
LEMMA DispatchedFacts ==
  ASSUME NEW content \in Seq(Blocks), NEW allowed \in Nat
  PROVE  LET n == Len(GatewayCalls(content))
             started == Dispatched(content, allowed)
         IN  /\ started \in [1 .. n -> {"refused", "invalid", "running"}]
             /\ \A i \in 1 .. n : started[i] = "refused" <=> i > allowed
<1> DEFINE gateway == GatewayCalls(content)
           outcome(i) == IF i > allowed THEN "refused"
                         ELSE IF ~Whole(gateway[i]) THEN "invalid" ELSE "running"
<1>1. DOMAIN gateway = 1 .. Len(gateway)
  BY GatewayType
<1>2. Dispatched(content, allowed) = [i \in DOMAIN gateway |-> outcome(i)]
  BY DEF Dispatched
<1>3. ASSUME NEW i \in DOMAIN gateway
      PROVE  outcome(i) \in {"refused", "invalid", "running"} /\ (outcome(i) = "refused" <=> i > allowed)
  OBVIOUS
<1> HIDE DEF gateway, outcome
<1>4. Dispatched(content, allowed) \in [1 .. Len(gateway) -> {"refused", "invalid", "running"}]
  BY <1>1, <1>2, <1>3
<1>5. \A i \in 1 .. Len(gateway) : Dispatched(content, allowed)[i] = "refused" <=> i > allowed
  BY <1>1, <1>2, <1>3
<1> QED BY <1>4, <1>5 DEF gateway

\* What is reserved is taken from what is left, and no more is dispatched.
LEMMA ExecuteFacts ==
  ASSUME TypeInv, Budgeted, phase # "arrived", NEW content \in Seq(Blocks), Execute(content)
  PROVE  /\ phase' = "tools"
         /\ calls' = [content |-> content, results |-> calls'.results]
         /\ calls'.results \in Seq({"refused", "invalid", "running", "ok", "failed"})
         /\ Len(calls'.results) = Len(GatewayCalls(content))
         /\ remaining' \in Nat \cup {Unlimited}
         /\ ran' \in Nat
         /\ \A t \in request.tools :
                t.native /\ t.max # Unlimited => remaining' \in Nat /\ ran' + remaining' <= t.max
         /\ \A i \in DOMAIN calls'.results : calls'.results[i] = "refused" => remaining' = 0
<1> DEFINE n == Len(GatewayCalls(content))
           reserved == Reserve(n)
           started == Dispatched(content, reserved.allowed)
           run == {i \in DOMAIN started : started[i] = "running"}
<1>1. n \in Nat /\ GatewayCalls(content) \in Seq(Blocks) /\ DOMAIN GatewayCalls(content) = 1 .. n
  BY GatewayType
<1>2. /\ phase' = "tools" /\ calls' = [content |-> content, results |-> started]
      /\ remaining' = reserved.left /\ ran' = ran + Cardinality(run)
  BY DEF Execute
<1>3. /\ reserved.allowed \in 0 .. n
      /\ remaining = Unlimited => reserved.allowed = n /\ reserved.left = Unlimited
      /\ remaining # Unlimited =>
            /\ remaining \in Nat /\ reserved.left \in Nat
            /\ reserved.left + reserved.allowed = remaining
            /\ reserved.allowed = n \/ reserved.left = 0
  BY <1>1 DEF Reserve, TypeInv
<1>4. /\ reserved.allowed \in Nat
      /\ started \in [1 .. n -> {"refused", "invalid", "running"}]
      /\ \A i \in 1 .. n : started[i] = "refused" <=> i > reserved.allowed
  <2>1. reserved.allowed \in Nat
    BY <1>1, <1>3
  <2> HIDE DEF reserved
  <2> QED BY <2>1, DispatchedFacts
<1> HIDE DEF started, reserved, n
<1>5. Cardinality(run) \in 0 .. reserved.allowed
  <2>1. run \in SUBSET (1 .. reserved.allowed)
    BY <1>1, <1>4
  <2>2. IsFiniteSet(1 .. reserved.allowed) /\ Cardinality(1 .. reserved.allowed) = reserved.allowed
    <3> SUFFICES ASSUME NEW k \in Nat
                 PROVE  IsFiniteSet(1 .. k) /\ Cardinality(1 .. k) = k
      BY <1>4
    <3> QED BY FS_Interval
  <2>3. IsFiniteSet(run) /\ Cardinality(run) <= reserved.allowed
    BY <2>1, <2>2, FS_Subset
  <2>4. Cardinality(run) \in Nat
    BY <2>3, FS_CardinalityType
  <2> QED BY <1>4, <2>3, <2>4
<1> HIDE DEF run
<1>6. ran' \in Nat /\ ran' - ran \in 0 .. reserved.allowed /\ ran \in Nat
  <2>1. ran \in Nat
    BY DEF TypeInv
  <2> QED BY <1>2, <1>4, <1>5, <2>1
<1>7. started \in Seq({"refused", "invalid", "running", "ok", "failed"}) /\ Len(started) = n
  BY <1>1, <1>4
<1>8. ASSUME NEW t \in request.tools, t.native, t.max # Unlimited
      PROVE  remaining' \in Nat /\ ran' + remaining' <= t.max
  <2>1. remaining \in Nat /\ ran + remaining <= t.max
    BY <1>8 DEF Budgeted
  <2>2. t.max \in Nat
    BY <1>8, ConstantsAssumption DEF TypeInv
  <2>3. remaining # Unlimited
    BY <2>1 DEF Unlimited
  <2>4. remaining' \in Nat /\ remaining' + reserved.allowed = remaining
    BY <1>2, <1>3, <2>3
  <2>5. ran' <= ran + reserved.allowed
    BY <1>4, <1>6
  <2> QED BY <1>4, <1>6, <2>1, <2>2, <2>4, <2>5
<1>9. \A i \in DOMAIN started : started[i] = "refused" => reserved.left = 0
  BY <1>1, <1>3, <1>4 DEF TypeInv
<1>10. remaining' \in Nat \cup {Unlimited}
  BY <1>2, <1>3
<1> QED BY <1>2, <1>6, <1>7, <1>8, <1>9, <1>10 DEF n

\* A message is read at once.
LEMMA ReadTurnStep ==
  ASSUME Inv, ReadTurn
  PROVE  Inv'
<1> USE DEF Inv
<1>1. PICK content \in Turns, stop \in Stops :
        /\ said' = [content |-> content, open |-> FALSE, stop |-> stop]
        /\ IF /\ stop = "tool_use"
              /\ GatewayCalls(content) # << >>
              /\ \A i \in DOMAIN content : content[i].kind # "client"
           THEN Execute(content) /\ UNCHANGED <<shown, view>>
           ELSE /\ shown' = Shown(content, stop)
                /\ view' = [view EXCEPT !.started = TRUE, !.blocks = Shown(content, stop),
                                        !.ended = "message_stop"]
                /\ phase' = "ended"
                /\ UNCHANGED <<calls, remaining, ran>>
  BY DEF ReadTurn
<1>2. phase = "reading" /\ request.stream = FALSE /\ UNCHANGED <<request, round, acc, posted>>
  BY DEF ReadTurn, TypeInv
<1>3. content \in Seq(Blocks)
  <2>1. PICK n \in 0 .. MaxBlocks : content \in [1 .. n -> [kind : Kinds, body : {0, 2}]]
    BY DEF Turns
  <2>2. n \in Nat
    BY ConstantsAssumption
  <2>3. \A i \in 1 .. n : content[i] \in Blocks
    BY <2>1 DEF Blocks
  <2>4. content \in [1 .. n -> Blocks]
    BY <2>1, <2>3
  <2> QED BY <2>2, <2>4
<1>4. said'.content = content /\ said'.open = FALSE /\ said'.stop = stop
  <2>1. said' = [content |-> content, open |-> FALSE, stop |-> stop]
    BY <1>1
  <2> QED BY <2>1
<1>5. AccType'
  BY <1>2 DEF AccType
<1>6. Accumulated'
  <2>1. phase' # "decide"
    BY <1>1 DEF Execute
  <2> QED BY <1>2, <2>1 DEF Accumulated
<1>7. CASE /\ Execute(content) /\ UNCHANGED <<shown, view>>
           /\ \A i \in DOMAIN content : content[i].kind # "client"
  <2>1. /\ phase' = "tools"
        /\ calls' = [content |-> content, results |-> calls'.results]
        /\ calls'.results \in Seq({"refused", "invalid", "running", "ok", "failed"})
        /\ Len(calls'.results) = Len(GatewayCalls(content))
        /\ remaining' \in Nat \cup {Unlimited}
        /\ ran' \in Nat
        /\ \A t \in request.tools :
               t.native /\ t.max # Unlimited => remaining' \in Nat /\ ran' + remaining' <= t.max
        /\ \A i \in DOMAIN calls'.results : calls'.results[i] = "refused" => remaining' = 0
    <3> HIDE DEF Inv
    <3> QED BY <1>2, <1>3, <1>7, ExecuteFacts DEF Inv
  <2>2. TypeInv'
    BY <1>1, <1>2, <1>3, <1>4, <1>7, <2>1 DEF TypeInv, Live
  <2>3. Delivered'
    BY <1>2, <1>7, <2>1 DEF Delivered, Turn, Live
  <2>4. Budgeted'
    BY <1>2, <2>1 DEF Budgeted
  <2>5. Replaying'
    <3>1. calls'.content = content
      BY <2>1
    <3>2. DOMAIN content = 1 .. Len(content)
      BY <1>3
    <3> QED BY <1>4, <1>7, <2>1, <3>1, <3>2 DEF Replaying, TurnReplayed, Gateway
  <2> QED BY <1>5, <1>6, <2>2, <2>3, <2>4, <2>5
<1>8. CASE /\ shown' = Shown(content, stop)
           /\ view' = [view EXCEPT !.started = TRUE, !.blocks = Shown(content, stop),
                                   !.ended = "message_stop"]
           /\ phase' = "ended"
           /\ UNCHANGED <<calls, remaining, ran>>
  <2>1. Shown(content, stop) \in Seq(Blocks)
    BY <1>3, VisibleType DEF Shown
  <2>2. TypeInv'
    BY <1>1, <1>2, <1>3, <1>4, <1>8, <2>1 DEF TypeInv
  <2>3. Delivered'
    <3>1. view'.broken = view.broken /\ view'.ended = "message_stop"
      BY <1>8 DEF TypeInv
    <3> QED BY <1>2, <1>8, <3>1 DEF Delivered, Turn, Live
  <2>4. Budgeted'
    BY <1>2, <1>8 DEF Budgeted
  <2>5. Replaying'
    BY <1>8 DEF Replaying, TurnReplayed
  <2> QED BY <1>5, <1>6, <2>2, <2>3, <2>4, <2>5
<1> QED BY <1>1, <1>7, <1>8

\* The blocks kept for the history are those of the turn.
LEMMA KeptInOrder ==
  ASSUME Inv, phase \in Turn, request.stream
  PROVE  InOrder(acc.blocks) = said.content
<1> DEFINE n == Len(said.content)
<1>1. /\ n \in Nat /\ said.content \in Seq(Blocks) /\ DOMAIN acc.blocks = 0 .. (n - 1)
      /\ \A i \in 1 .. n : acc.blocks[i - 1] = said.content[i]
  BY DEF Inv, TypeInv, Accumulated
<1>2. Cardinality(DOMAIN acc.blocks) = n
  BY <1>1, FS_Interval
<1>3. InOrder(acc.blocks) = [i \in 1 .. n |-> said.content[i]]
  BY <1>1, <1>2 DEF InOrder
<1> QED BY <1>1, <1>3

\* Two events are a sequence.
LEMMA TwoEvents ==
  ASSUME NEW d, NEW e
  PROVE  <<d>> \o <<e>> = <<d, e>>
<1> DEFINE S == {d, e}
           s == <<d>> \o <<e>>
           t == <<d, e>>
<1>1. <<d>> \in Seq(S) /\ <<e>> \in Seq(S) /\ t \in Seq(S) /\ Len(t) = 2 /\ t[1] = d /\ t[2] = e
  OBVIOUS
<1>2. s \in Seq(S) /\ Len(s) = 2 /\ s[1] = d /\ s[2] = e
  BY <1>1
<1> HIDE DEF s, t, S
<1>3. \A i \in 1 .. Len(s) : s[i] = t[i]
  BY <1>1, <1>2
<1> QED BY <1>1, <1>2, <1>3, SeqEqual DEF s, t

\* finish ends the message the client sees.
LEMMA FinishView ==
  ASSUME TypeInv, view.ended = "no", ~view.broken, acc.delta => view.started, acc.delta \in BOOLEAN
  PROVE  ReceivedAll(Finish(acc)) = [view EXCEPT !.ended = "message_stop"]
<1> DEFINE d == Event("message_delta", 0, Block("text"))
           e == Event("message_stop", 0, Block("text"))
<1>1. Received(view, e) = [view EXCEPT !.ended = "message_stop"]
  BY DEF Received, Event
<1>2. CASE acc.delta
  <2>1. Finish(acc) = <<d, e>>
    <3>1. Finish(acc) = <<d>> \o <<e>>
      BY <1>2 DEF Finish
    <3> QED BY <3>1, TwoEvents
  <2>2. Received(view, d) = [view EXCEPT !.broken = view.broken \/ ~view.started]
    BY DEF Received, Event
  <2>3. [view EXCEPT !.broken = view.broken \/ ~view.started] = view
    BY <1>2 DEF TypeInv
  <2> QED BY <1>1, <2>1, <2>2, <2>3, ReceivedTwo
<1>3. CASE ~acc.delta
  <2>1. Finish(acc) = <<e>>
    BY <1>3 DEF Finish
  <2> QED BY <1>1, <2>1, ReceivedOne
<1> QED BY <1>2, <1>3

\* A streamed turn has ended: the calls are run or the message is finished.
LEMMA DecideStep ==
  ASSUME Inv, Decide
  PROVE  Inv'
<1> USE DEF Inv
<1>1. /\ phase = "decide" /\ shown' = shown \o Visible(said.content)
      /\ UNCHANGED <<request, round, said, acc, posted>>
  BY DEF Decide
<1>2. said.content \in Seq(Blocks) /\ shown' \in Seq(Blocks) /\ DOMAIN said.content = 1 .. Len(said.content)
  BY <1>1, VisibleType DEF TypeInv
<1>3. AccType'
  BY <1>1 DEF AccType
<1>4. request.stream /\ request.stream' /\ DOMAIN said.content = 1 .. Len(said.content)
  BY <1>1, <1>2 DEF Accumulated
<1>5. CASE ShouldContinue(acc) /\ Execute(InOrder(acc.blocks)) /\ UNCHANGED view
  <2>1. InOrder(acc.blocks) = said.content
    BY <1>1, <1>4, KeptInOrder DEF Turn
  <2>2. /\ phase' = "tools"
        /\ calls' = [content |-> said.content, results |-> calls'.results]
        /\ calls'.results \in Seq({"refused", "invalid", "running", "ok", "failed"})
        /\ Len(calls'.results) = Len(GatewayCalls(said.content))
        /\ remaining' \in Nat \cup {Unlimited}
        /\ ran' \in Nat
        /\ \A t \in request.tools :
               t.native /\ t.max # Unlimited => remaining' \in Nat /\ ran' + remaining' <= t.max
        /\ \A i \in DOMAIN calls'.results : calls'.results[i] = "refused" => remaining' = 0
    <3> HIDE DEF Inv
    <3> QED BY <1>1, <1>2, <1>5, <2>1, ExecuteFacts DEF Inv
  <2>3. acc.onToolUse /\ ~acc.clientTool
    BY <1>5 DEF ShouldContinue
  <2>4. ~said.open /\ \A i \in 1 .. Len(said.content) : said.content[i].kind # "client"
    BY <1>1, <1>4, <2>3 DEF Accumulated, Turn
  <2>5. calls'.content = said.content
    BY <2>2
  <2>6. TypeInv'
    BY <1>1, <1>2, <2>2, <2>5, <1>5 DEF TypeInv, Live
  <2>7. Accumulated'
    BY <2>2 DEF Accumulated, Turn
  <2>8. Delivered'
    BY <1>1, <1>4, <1>5, <2>2, <2>4 DEF Delivered, Turn, Live
  <2>9. Budgeted'
    BY <1>1, <2>2 DEF Budgeted
  <2>10. Replaying'
    BY <1>1, <2>2, <2>4, <2>5 DEF Replaying, TurnReplayed, Gateway
  <2> QED BY <1>3, <2>6, <2>7, <2>8, <2>9, <2>10
<1>6. CASE /\ view' = ReceivedAll(Finish(acc)) /\ phase' = "ended"
           /\ UNCHANGED <<calls, remaining, ran>>
  <2>1. view.ended = "no" /\ ~view.broken /\ view.started = acc.started /\ view.blocks = shown'
    BY <1>1, <1>4 DEF Delivered, Turn, Live
  <2>2. acc.delta \in BOOLEAN /\ (acc.delta => acc.started)
    BY <1>1, <1>4 DEF Accumulated, AccType, Turn
  <2>3. view' = [view EXCEPT !.ended = "message_stop"]
    <3> HIDE DEF Inv
    <3> QED BY <1>6, <2>1, <2>2, FinishView DEF Inv
  <2>4. view'.ended = "message_stop" /\ view'.broken = view.broken /\ view'.blocks = view.blocks
    BY <2>3 DEF TypeInv
  <2>6. TypeInv'
    BY <1>1, <1>2, <1>6, <2>3 DEF TypeInv
  <2>7. Accumulated'
    BY <1>6 DEF Accumulated, Turn
  <2>8. Delivered'
    BY <1>6, <2>1, <2>4 DEF Delivered, Turn, Live
  <2>9. Budgeted'
    BY <1>1, <1>6 DEF Budgeted
  <2>10. Replaying'
    BY <1>6 DEF Replaying, TurnReplayed
  <2> QED BY <1>3, <2>6, <2>7, <2>8, <2>9, <2>10
<1> QED BY <1>5, <1>6 DEF Decide

-----------------------------------------------------------------------------
(* One line.                                                               *)

\* What a line may be while the turn is read.
LEMMA LineFacts ==
  ASSUME NEW line \in Lines, TypeInv, said.open => said.content # << >>
  PROVE  LET last == Len(said.content) - 1
         IN  \/ line.type = "message_start" /\ ~said.open
             \/ /\ line.type = "content_block_start" /\ ~said.open /\ line.index = last + 1
                /\ line.kind \in Kinds /\ said.stop = "none" /\ acc.started
             \/ line.type = "content_block_delta" /\ said.open /\ line.index = last
             \/ line.type = "content_block_stop" /\ said.open /\ line.index = last
             \/ line.type = "message_delta" /\ ~said.open /\ line.stop \in Stops /\ acc.started
             \/ line.type = "error" /\ ~said.open
             \/ line.type \in {"ping", "message_stop"} /\ ~said.open
  BY DEF Lines

\* Whatever the line, the tools are not touched.
LEMMA PushRest ==
  ASSUME Inv, Push
  PROVE  /\ phase = "reading" /\ phase' \in {"reading", "decide", "ended"} /\ phase' = AfterLine(acc')
         /\ request.stream /\ acc.state = "active"
         /\ UNCHANGED <<request, round, calls, remaining, ran, posted, shown>>
         /\ Budgeted' /\ Replaying'
         /\ \E line \in Lines : /\ said' = Spoken(line) /\ acc' = Pushed(acc, line).acc
                                /\ view' = ReceivedAll(Pushed(acc, line).events)
<1>1. /\ phase = "reading" /\ request.stream /\ acc.state = "active"
      /\ UNCHANGED <<request, round, calls, remaining, ran, posted, shown>>
  BY DEF Push
<1>2. PICK line \in Lines :
        /\ said' = Spoken(line) /\ acc' = Pushed(acc, line).acc
        /\ view' = ReceivedAll(Pushed(acc, line).events)
        /\ phase' = AfterLine(Pushed(acc, line).acc)
  BY DEF Push
<1>3. phase' \in {"reading", "decide", "ended"}
  BY <1>2 DEF AfterLine
<1>4. Budgeted'
  BY <1>1, <1>3 DEF Inv, Budgeted
<1>5. Replaying'
  BY <1>3 DEF Inv, Replaying, TurnReplayed
<1> QED BY <1>1, <1>2, <1>3, <1>4, <1>5

\* What holds between two lines of a turn.
Reading ==
    /\ TypeInv /\ AccType /\ Accumulated /\ Delivered
    /\ phase = "reading" /\ request.stream

\* message_start.
LEMMA OnStart ==
  ASSUME Reading, ~acc.started, ~said.open,
         UNCHANGED <<request, round, calls, remaining, ran, posted, shown, said>>,
         acc' = [acc EXCEPT !.started = TRUE],
         view' = ReceivedAll(<<Event("message_start", 0, Block("text"))>>),
         phase' = "reading"
  PROVE  TypeInv' /\ AccType' /\ Accumulated' /\ Delivered'
<1> USE DEF Reading
<1>1. view.ended = "no" /\ view.started = FALSE /\ view.broken = FALSE
  BY DEF Delivered, Turn, Live, TypeInv, AccType
<1>2. view' = Received(view, Event("message_start", 0, Block("text")))
  BY ReceivedOne
<1>3. view' = [view EXCEPT !.started = TRUE]
  <2>1. view' = [view EXCEPT !.started = TRUE, !.broken = FALSE]
    BY <1>1, <1>2 DEF Received, Event
  <2> QED BY <1>1, <2>1 DEF TypeInv
<1>4. acc' = [acc EXCEPT !.started = TRUE]
  OBVIOUS
<1>5. TypeInv'
  BY <1>3 DEF TypeInv
<1>6. AccType'
  BY <1>4 DEF AccType
<1>7. Accumulated'
  BY <1>4 DEF Accumulated, AccType, Turn
<1>8. Delivered'
  <2>1. view'.started = TRUE /\ view'.blocks = view.blocks /\ view'.open = view.open
        /\ view'.ended = "no" /\ view'.broken = FALSE
    BY <1>1, <1>3 DEF TypeInv
  <2>2. acc'.started = TRUE /\ acc'.next = acc.next
    BY <1>4 DEF AccType
  <2> QED BY <2>1, <2>2 DEF Delivered, Turn, Live
<1> QED BY <1>5, <1>6, <1>7, <1>8

\* A line changes the turn and its reading alone.
Rest == UNCHANGED <<request, round, calls, remaining, ran, posted, shown>>

\* The turn goes on after nothing was shown: a delta of the message, an unknown
\* event, the terminal line.
Silent(stop, on, delta, state) ==
    /\ Rest /\ view' = view /\ ~said.open
    /\ said' = [said EXCEPT !.stop = stop]
    /\ acc' = [acc EXCEPT !.onToolUse = on, !.delta = delta, !.state = state]
    /\ on => stop = "tool_use"
    /\ delta => acc.started
    /\ phase' = IF state = "active" THEN "reading" ELSE "decide"

\* A line that shows nothing.
LEMMA OnSilence ==
  ASSUME Reading, NEW stop \in Stops \cup {"none"}, NEW on \in BOOLEAN, NEW delta \in BOOLEAN,
         NEW state \in {"active", "completed"}, Silent(stop, on, delta, state)
  PROVE  TypeInv' /\ AccType' /\ Accumulated' /\ Delivered'
<1> USE DEF Reading, Silent, Rest
<1>1. said'.content = said.content /\ said'.open = FALSE /\ said'.stop = stop
      /\ said' = [content |-> said'.content, open |-> said'.open, stop |-> said'.stop]
  BY DEF TypeInv
<1>2. /\ acc'.started = acc.started /\ acc'.next = acc.next /\ acc'.map = acc.map
      /\ acc'.suppressed = acc.suppressed /\ acc'.blocks = acc.blocks /\ acc'.onToolUse = on
      /\ acc'.clientTool = acc.clientTool /\ acc'.delta = delta /\ acc'.state = state
      /\ acc' = [started |-> acc'.started, next |-> acc'.next, map |-> acc'.map,
              suppressed |-> acc'.suppressed, blocks |-> acc'.blocks, onToolUse |-> acc'.onToolUse,
              clientTool |-> acc'.clientTool, delta |-> acc'.delta, state |-> acc'.state]
  BY DEF AccType
<1>3. phase' \in Turn
  BY DEF Turn
<1>5. TypeInv'
  BY <1>1, <1>3 DEF TypeInv, Live, Turn
<1>6. AccType'
  BY <1>2 DEF AccType, Keys
<1>7. Accumulated'
  BY <1>1, <1>2, <1>3 DEF Accumulated, Turn
<1>8. Delivered'
  BY <1>1, <1>2, <1>3 DEF Delivered, Turn, Live
<1> QED BY <1>5, <1>6, <1>7, <1>8

\* An error of the upstream.
LEMMA OnError ==
  ASSUME Reading, UNCHANGED <<request, round, calls, remaining, ran, posted, shown, said>>,
         acc' = [acc EXCEPT !.state = "error"],
         view' = ReceivedAll(<<Event("error", 0, Block("text"))>>),
         phase' = "ended"
  PROVE  TypeInv' /\ AccType' /\ Accumulated' /\ Delivered'
<1> USE DEF Reading
<1>1. view' = [view EXCEPT !.ended = "error"]
  BY FailedView DEF Delivered, Turn, Live, Failed
<1>2. view'.ended = "error" /\ view'.broken = view.broken
  BY <1>1 DEF TypeInv
<1>5. TypeInv'
  BY <1>1 DEF TypeInv
<1>6. AccType'
  BY DEF AccType
<1>7. Accumulated'
  BY DEF Accumulated, Turn
<1>8. Delivered'
  BY <1>2 DEF Delivered, Turn, Live
<1> QED BY <1>5, <1>6, <1>7, <1>8

\* Appending to the second of two sequences.
LEMMA AppendConcat ==
  ASSUME NEW S, NEW s \in Seq(S), NEW t \in Seq(S), NEW e \in S
  PROVE  s \o Append(t, e) = Append(s \o t, e)
<1> DEFINE u == s \o Append(t, e)
           v == Append(s \o t, e)
<1>1. u \in Seq(S) /\ v \in Seq(S) /\ Len(u) = Len(v)
  OBVIOUS
<1>2. \A i \in 1 .. Len(u) : u[i] = v[i]
  OBVIOUS
<1> HIDE DEF u, v
<1>3. u = v
  BY <1>1, <1>2, SeqEqual
<1> QED BY <1>3 DEF u, v

\* A block begins.
BlockStarts(n, kind) ==
    /\ Rest /\ phase' = "reading"
    /\ ~said.open /\ said.stop = "none" /\ acc.started /\ n = Len(said.content)
    /\ said' = [said EXCEPT !.content = Append(@, Block(kind)), !.open = TRUE]
    /\ acc' = OnBlockStart(acc, n, kind).acc
    /\ view' = ReceivedAll(OnBlockStart(acc, n, kind).events)

\* content_block_start.
LEMMA OnBlock ==
  ASSUME Reading, NEW n, NEW kind \in Kinds, BlockStarts(n, kind)
  PROVE  TypeInv' /\ AccType' /\ Accumulated' /\ Delivered'
<1> USE DEF Reading
<1> DEFINE block == Block(kind)
           content == Append(said.content, block)
<1>1. /\ n \in Nat /\ said.content \in Seq(Blocks) /\ block \in Blocks /\ block.kind = kind
      /\ content \in Seq(Blocks) /\ Len(content) = n + 1 /\ content[n + 1] = block
      /\ \A i \in 1 .. n : content[i] = said.content[i]
  BY DEF TypeInv, Block, Blocks, BlockStarts
<1>0. n = Len(said.content) /\ ~said.open /\ said.stop = "none" /\ acc.started /\ phase' = "reading" /\ Rest
  BY DEF BlockStarts
<1>2. said'.content = content /\ said'.open = TRUE /\ said'.stop = "none"
      /\ said' = [content |-> said'.content, open |-> said'.open, stop |-> said'.stop]
  BY <1>0 DEF TypeInv, BlockStarts
<1> HIDE DEF content, block
<1>3. /\ DOMAIN acc.blocks = 0 .. (n - 1) /\ \A i \in 1 .. n : acc.blocks[i - 1] = said.content[i]
      /\ acc.suppressed \subseteq 0 .. (n - 1) /\ n \notin acc.suppressed
      /\ acc.clientTool <=> \E i \in 1 .. n : said.content[i].kind = "client"
      /\ acc.onToolUse = FALSE /\ acc.state = "active" /\ (acc.delta => acc.started)
  BY <1>0, <1>1 DEF Accumulated, Turn, AccType
<1>4. /\ view.ended = "no" /\ view.broken = FALSE /\ view.started = TRUE /\ view.open = {}
      /\ acc.next = Len(view.blocks) /\ view.blocks = shown \o Visible(said.content)
      /\ view.blocks \in Seq(Blocks) /\ shown \in Seq(Blocks) /\ Visible(said.content) \in Seq(Blocks)
  BY <1>0, <1>1, VisibleType DEF Delivered, Turn, Live, TypeInv
<1>5. Visible(content) = KeepVisible(Visible(said.content), block)
  BY <1>1, VisibleAppend DEF content
<1> DEFINE blocks == Inserted(acc.blocks, n, block)
<1>6. /\ DOMAIN blocks = 0 .. n /\ Keys(blocks)
      /\ \A i \in 1 .. (n + 1) : blocks[i - 1] = content[i]
  <2>1. DOMAIN blocks = {n} \cup 0 .. (n - 1)
    BY <1>3 DEF Inserted
  <2>2. DOMAIN blocks = 0 .. n
    BY <1>1, <2>1
  <2>3. Keys(blocks)
    <3>1. DOMAIN blocks \in SUBSET Nat
      BY <1>1, <2>2
    <3>2. blocks = [i \in DOMAIN blocks |-> blocks[i]]
      BY DEF Inserted
    <3> HIDE DEF blocks
    <3> QED BY <3>1, <3>2 DEF Keys
  <2>4. ASSUME NEW i \in 1 .. (n + 1) PROVE blocks[i - 1] = content[i]
    <3>1. CASE i = n + 1
      BY <1>1, <1>3, <3>1 DEF Inserted
    <3>2. CASE i # n + 1
      <4>1. i \in 1 .. n /\ i - 1 # n /\ i - 1 \in DOMAIN acc.blocks
        BY <1>1, <1>3, <3>2
      <4> QED BY <1>1, <1>3, <4>1 DEF Inserted
    <3> QED BY <3>1, <3>2
  <2> QED BY <2>2, <2>3, <2>4
<1> HIDE DEF blocks
<1>7. acc.started = TRUE /\ acc.next \in Nat
  BY <1>0 DEF AccType
<1>10. (\E i \in 1 .. (n + 1) : content[i].kind = "client")
          <=> (kind = "client" \/ \E i \in 1 .. n : said.content[i].kind = "client")
  BY <1>1
<1>11. /\ said'.content[Len(said'.content)] = block /\ Len(said'.content) = n + 1
       /\ said'.content[Len(said'.content)].kind = kind
  BY <1>1, <1>2
<1>8. CASE kind = "gateway"
  <2>1. acc' = [acc EXCEPT !.blocks = blocks, !.suppressed = @ \cup {n}] /\ view' = ReceivedAll(<< >>)
    BY <1>8 DEF BlockStarts, OnBlockStart, Step, block, blocks
  <2>2. view' = view
    BY <2>1, ReceivedNone
  <2>3. /\ acc'.started = TRUE /\ acc'.next = acc.next /\ acc'.map = acc.map
        /\ acc'.suppressed = acc.suppressed \cup {n} /\ acc'.blocks = blocks
        /\ acc'.onToolUse = FALSE /\ acc'.clientTool = acc.clientTool /\ acc'.delta = acc.delta
        /\ acc'.state = "active"
        /\ acc' = [started |-> acc'.started, next |-> acc'.next, map |-> acc'.map,
              suppressed |-> acc'.suppressed, blocks |-> acc'.blocks, onToolUse |-> acc'.onToolUse,
              clientTool |-> acc'.clientTool, delta |-> acc'.delta, state |-> acc'.state]
    BY <1>3, <1>7, <2>1 DEF AccType
  <2>4. Visible(content) = Visible(said.content)
    BY <1>1, <1>5, <1>8 DEF KeepVisible
  <2>5. TypeInv'
    BY <1>0, <1>1, <1>2, <2>2 DEF TypeInv, Live, Rest
  <2>6. AccType'
    BY <1>1, <1>6, <2>3 DEF AccType
  <2>7. Accumulated'
    <3>1. acc'.clientTool <=> \E i \in 1 .. (n + 1) : content[i].kind = "client"
      BY <1>3, <1>8, <1>10, <2>3
    <3>2. acc'.suppressed \subseteq 0 .. n /\ n \in acc'.suppressed
      BY <1>1, <1>3, <2>3
    <3> QED BY <1>0, <1>1, <1>2, <1>3, <1>6, <1>8, <1>11, <2>3, <3>1, <3>2 DEF Accumulated, Turn, Rest
  <2>8. Delivered'
    BY <1>0, <1>1, <1>2, <1>4, <1>8, <2>2, <2>3, <2>4 DEF Delivered, Turn, Live, Rest
  <2> QED BY <2>5, <2>6, <2>7, <2>8
<1>9. CASE kind # "gateway"
  <2> DEFINE map == Inserted(acc.map, n, acc.next)
             e == Event("content_block_start", acc.next, block)
  <2>1. /\ acc' = [acc EXCEPT !.blocks = blocks, !.clientTool = @ \/ kind = "client",
                              !.map = map, !.next = @ + 1]
        /\ view' = ReceivedAll(<<e>>)
    BY <1>9 DEF BlockStarts, OnBlockStart, Step, block, blocks
  <2>2. view' = [view EXCEPT !.blocks = Append(@, block), !.open = {acc.next}, !.broken = FALSE]
    <3>1. view' = Received(view, e)
      BY <2>1, ReceivedOne
    <3> HIDE DEF block
    <3> QED BY <1>4, <3>1 DEF Received, Event
  <2>3. n \in DOMAIN map /\ map[n] = acc.next /\ Keys(map)
    BY <1>1 DEF Keys, AccType, Inserted
  <2> HIDE DEF map
  <2>4. /\ acc'.started = TRUE /\ acc'.next = acc.next + 1 /\ acc'.map = map
        /\ acc'.suppressed = acc.suppressed /\ acc'.blocks = blocks
        /\ acc'.onToolUse = FALSE /\ acc'.clientTool = (acc.clientTool \/ kind = "client")
        /\ acc'.delta = acc.delta /\ acc'.state = "active"
        /\ acc' = [started |-> acc'.started, next |-> acc'.next, map |-> acc'.map,
              suppressed |-> acc'.suppressed, blocks |-> acc'.blocks, onToolUse |-> acc'.onToolUse,
              clientTool |-> acc'.clientTool, delta |-> acc'.delta, state |-> acc'.state]
    BY <1>3, <1>7, <2>1 DEF AccType
  <2>5. Visible(content) = Append(Visible(said.content), block)
    BY <1>1, <1>5, <1>9 DEF KeepVisible
  <2>6. /\ view'.blocks = Append(view.blocks, block) /\ view'.open = {acc.next} /\ view'.broken = FALSE
        /\ view'.ended = "no" /\ view'.started = TRUE
    BY <1>4, <2>2 DEF TypeInv
  <2>7. view'.blocks = shown \o Visible(content) /\ Len(view'.blocks) = acc.next + 1
    <3>1. shown \o Append(Visible(said.content), block) = Append(shown \o Visible(said.content), block)
      BY <1>1, <1>4, AppendConcat
    <3> QED BY <1>1, <1>4, <2>5, <2>6, <3>1
  <2>8. TypeInv'
    <3>1. view' \in [started : BOOLEAN, blocks : Seq(Blocks), open : SUBSET Nat,
                     ended : {"no", "error", "message_stop"}, broken : BOOLEAN]
      <4>1. Append(view.blocks, block) \in Seq(Blocks) /\ {acc.next} \in SUBSET Nat
        BY <1>1, <1>4, <1>7
      <4> QED BY <2>2, <4>1 DEF TypeInv
    <3> QED BY <1>0, <1>1, <1>2, <3>1 DEF TypeInv, Live, Rest
  <2>9. AccType'
    <3>1. acc.suppressed \in SUBSET Nat /\ acc.clientTool \in BOOLEAN /\ acc.delta \in BOOLEAN
      BY DEF AccType
    <3>2. acc'.next \in Nat /\ acc'.clientTool \in BOOLEAN
      BY <1>7, <2>4, <3>1
    <3> QED BY <1>6, <2>3, <2>4, <3>1, <3>2 DEF AccType
  <2>10. Accumulated'
    <3>1. acc'.clientTool <=> \E i \in 1 .. (n + 1) : content[i].kind = "client"
      BY <1>3, <1>10, <2>4 DEF AccType
    <3>2. acc'.suppressed \subseteq 0 .. n /\ n \notin acc'.suppressed
      BY <1>1, <1>3, <2>4
    <3>3. acc'.next > 0 /\ acc'.next - 1 = acc.next
      BY <1>7, <2>4
    <3> QED BY <1>0, <1>1, <1>2, <1>3, <1>6, <1>9, <1>11, <2>3, <2>4, <3>1, <3>2, <3>3 DEF Accumulated, Turn, Rest
  <2>11. Delivered'
    <3>1. acc'.next - 1 = acc.next /\ acc'.next = Len(view'.blocks)
      BY <1>7, <2>4, <2>7
    <3> QED BY <1>0, <1>2, <1>9, <1>11, <2>4, <2>6, <2>7, <3>1 DEF Delivered, Turn, Live, Rest
  <2> QED BY <2>8, <2>9, <2>10, <2>11
<1> QED BY <1>8, <1>9

\* The open block grows.
BlockGrows(n) ==
    /\ Rest /\ phase' = "reading"
    /\ said.open /\ n = Len(said.content)
    /\ said' = [said EXCEPT !.content[n].body = @ + 1]
    /\ acc' = OnBlockDelta(acc, n - 1).acc
    /\ view' = ReceivedAll(OnBlockDelta(acc, n - 1).events)

\* content_block_delta.
LEMMA OnDelta ==
  ASSUME Reading, NEW n, BlockGrows(n)
  PROVE  TypeInv' /\ AccType' /\ Accumulated' /\ Delivered'
<1> USE DEF Reading
<1> DEFINE block == said.content[n]
           grown == [block EXCEPT !.body = @ + 1]
           content == [said.content EXCEPT ![n] = grown]
<1>0. n = Len(said.content) /\ said.open /\ phase' = "reading" /\ Rest
  BY DEF BlockGrows
<1>1. /\ n \in Nat \ {0} /\ said.content \in Seq(Blocks) /\ block \in Blocks /\ grown \in Blocks
      /\ grown.kind = block.kind /\ content \in Seq(Blocks) /\ Len(content) = n
      /\ content[n] = grown /\ \A i \in 1 .. n : i # n => content[i] = said.content[i]
  <2>1. /\ n \in Nat \ {0} /\ n = Len(said.content) /\ said.content \in Seq(Blocks)
        /\ block \in Blocks /\ n \in DOMAIN said.content
    BY <1>0 DEF TypeInv, Accumulated, Turn
  <2>2. grown \in Blocks /\ grown.kind = block.kind
    BY <2>1 DEF Blocks
  <2> HIDE DEF grown, block
  <2> QED BY <2>1, <2>2
<1>2. PICK front \in Seq(Blocks) : said.content = Append(front, block) /\ n = Len(front) + 1
  <2>1. said.content # << >> /\ said.content \in Seq(Blocks) /\ n = Len(said.content)
    BY <1>0, <1>1
  <2>2. PICK front \in Seq(Blocks) : said.content = Append(front, said.content[Len(said.content)])
                                     /\ Len(said.content) = Len(front) + 1
    BY <2>1, LastBlock
  <2> QED BY <2>1, <2>2
<1>3. content = Append(front, grown)
  <2>1. \A i \in 1 .. n : content[i] = Append(front, grown)[i]
    <3> HIDE DEF grown, block
    <3> QED BY <1>1, <1>2
  <2>2. Append(front, grown) \in Seq(Blocks) /\ Len(Append(front, grown)) = n
    <3> HIDE DEF grown, block
    <3> QED BY <1>1, <1>2
  <2>3. content \in Seq(Blocks) /\ Len(content) = n
    BY <1>1
  <2> HIDE DEF content, grown
  <2> QED BY <2>1, <2>2, <2>3, SeqEqual
<1>4. said'.content = content /\ said'.open = TRUE /\ said'.stop = "none"
      /\ said' = [content |-> said'.content, open |-> said'.open, stop |-> said'.stop]
  <2>1. said.stop = "none"
    BY <1>0 DEF Accumulated, Turn
  <2>2. said' = [said EXCEPT !.content = content]
    BY <1>1 DEF BlockGrows
  <2> HIDE DEF content
  <2> QED BY <1>0, <2>1, <2>2 DEF TypeInv
<1>5. Visible(said.content) = KeepVisible(Visible(front), block) /\ Visible(content) = KeepVisible(Visible(front), grown)
      /\ Visible(front) \in Seq(Blocks)
  <2> HIDE DEF content, grown, block
  <2> QED BY <1>1, <1>2, <1>3, VisibleAppend, VisibleType
<1> HIDE DEF content, grown, block
<1>6. /\ DOMAIN acc.blocks = 0 .. (n - 1) /\ \A i \in 1 .. n : acc.blocks[i - 1] = said.content[i]
      /\ acc.suppressed \subseteq 0 .. (n - 1)
      /\ acc.clientTool <=> \E i \in 1 .. n : said.content[i].kind = "client"
      /\ acc.onToolUse = FALSE /\ acc.state = "active" /\ (acc.delta => acc.started)
      /\ acc.next \in Nat
      /\ IF block.kind = "gateway" THEN n - 1 \in acc.suppressed
         ELSE /\ n - 1 \notin acc.suppressed /\ n - 1 \in DOMAIN acc.map
              /\ acc.next > 0 /\ acc.map[n - 1] = acc.next - 1
  BY <1>0, <1>1 DEF Accumulated, Turn, AccType, block
<1>7. /\ view.ended = "no" /\ view.broken = FALSE /\ view.started = acc.started
      /\ acc.next = Len(view.blocks) /\ view.blocks = shown \o Visible(said.content)
      /\ view.open = (IF block.kind # "gateway" THEN {acc.next - 1} ELSE {})
      /\ view.blocks \in Seq(Blocks) /\ shown \in Seq(Blocks)
  BY <1>0, <1>1 DEF Delivered, Turn, Live, TypeInv, block
<1> DEFINE blocks == [acc.blocks EXCEPT ![n - 1] = grown]
<1>8. /\ acc' = [acc EXCEPT !.blocks = blocks]
      /\ view' = ReceivedAll(Forwarded(acc, "content_block_delta", n - 1))
  <2>1. n - 1 \in DOMAIN acc.blocks /\ acc.blocks[n - 1] = block
    BY <1>1, <1>6 DEF block
  <2> QED BY <2>1 DEF BlockGrows, OnBlockDelta, Step, grown
<1>9. DOMAIN blocks = 0 .. (n - 1) /\ Keys(blocks) /\ \A i \in 1 .. n : blocks[i - 1] = content[i]
  <2>1. DOMAIN blocks = 0 .. (n - 1)
    BY <1>6
  <2>2. Keys(blocks)
    BY <1>1, <2>1 DEF Keys
  <2>3. ASSUME NEW i \in 1 .. n PROVE blocks[i - 1] = content[i]
    <3>1. i - 1 \in DOMAIN acc.blocks /\ acc.blocks[i - 1] = said.content[i]
      BY <1>1, <1>6
    <3>2. CASE i = n
      BY <1>1, <3>1, <3>2
    <3>3. CASE i # n
      <4>1. i - 1 # n - 1
        BY <1>1, <3>3
      <4> QED BY <1>1, <3>1, <3>3, <4>1
    <3> QED BY <3>2, <3>3
  <2> QED BY <2>1, <2>2, <2>3
<1> HIDE DEF blocks
<1>10. /\ acc'.started = acc.started /\ acc'.next = acc.next /\ acc'.map = acc.map
       /\ acc'.suppressed = acc.suppressed /\ acc'.blocks = blocks
       /\ acc'.onToolUse = FALSE /\ acc'.clientTool = acc.clientTool /\ acc'.delta = acc.delta
       /\ acc'.state = "active"
       /\ acc' = [started |-> acc'.started, next |-> acc'.next, map |-> acc'.map,
              suppressed |-> acc'.suppressed, blocks |-> acc'.blocks, onToolUse |-> acc'.onToolUse,
              clientTool |-> acc'.clientTool, delta |-> acc'.delta, state |-> acc'.state]
  BY <1>6, <1>8 DEF AccType
<1>11. /\ view'.blocks = shown \o Visible(content) /\ Len(view'.blocks) = Len(view.blocks)
       /\ view' = [view EXCEPT !.blocks = view'.blocks] /\ view'.blocks \in Seq(Blocks)
  <2>1. CASE block.kind = "gateway"
    <3>1. view' = view
      BY <1>6, <1>8, <2>1, ReceivedNone DEF Forwarded
    <3>2. Visible(content) = Visible(said.content)
      BY <1>1, <1>5, <2>1 DEF KeepVisible
    <3> QED BY <1>7, <3>1, <3>2 DEF TypeInv
  <2>2. CASE block.kind # "gateway"
    <3> DEFINE m == Len(view.blocks)
               e == Event("content_block_delta", acc.next - 1, Block("text"))
               v == Visible(front)
    <3>1. view' = Received(view, e)
      BY <1>6, <1>8, <2>2, ReceivedOne DEF Forwarded
    <3>2. Visible(said.content) = Append(v, block) /\ Visible(content) = Append(v, grown)
      BY <1>1, <1>5, <2>2 DEF KeepVisible
    <3>3. m \in Nat \ {0} /\ acc.next = m /\ m = Len(shown) + Len(v) + 1 /\ view.blocks[m] = block
      BY <1>1, <1>5, <1>6, <1>7, <3>2
    <3>4. view' = [view EXCEPT !.blocks[m].body = @ + 1]
      <4>1. e.index \in view.open /\ e.index + 1 = m /\ e.type = "content_block_delta"
        BY <1>7, <2>2, <3>3 DEF Event
      <4> HIDE DEF e, m
      <4>2. view' = [view EXCEPT !.blocks[e.index + 1].body = @ + 1]
        BY <1>7, <3>1, <4>1 DEF Received
      <4> QED BY <4>1, <4>2
    <3>5. view' = [view EXCEPT !.blocks = [view.blocks EXCEPT ![m] = grown]]
      BY <3>3, <3>4 DEF TypeInv, grown
    <3>6. [view.blocks EXCEPT ![m] = grown] = shown \o Append(v, grown)
      <4> DEFINE s == [view.blocks EXCEPT ![m] = grown]
                 t == shown \o Append(v, grown)
      <4>0. /\ view.blocks \in Seq(Blocks) /\ shown \in Seq(Blocks) /\ v \in Seq(Blocks) /\ grown \in Blocks
            /\ block \in Blocks /\ m = Len(view.blocks)
        BY <1>1, <1>5, <1>7
      <4> HIDE DEF m, v
      <4>1. s \in Seq(Blocks) /\ Len(s) = m /\ t \in Seq(Blocks) /\ Len(t) = m
        BY <3>3, <4>0
      <4>2. ASSUME NEW i \in 1 .. m PROVE s[i] = t[i]
        <5>1. view.blocks = shown \o Append(v, block)
          BY <1>7, <3>2 DEF v
        <5>2. CASE i = m
          BY <3>3, <4>0, <5>2
        <5>3. CASE i # m
          <6>1. s[i] = view.blocks[i]
            BY <4>0, <5>3
          <6>2. t[i] = (shown \o Append(v, block))[i]
            BY <3>3, <4>0, <5>3
          <6> QED BY <5>1, <6>1, <6>2
        <5> QED BY <5>2, <5>3
      <4> HIDE DEF s, t
      <4>3. s = t
        BY <4>1, <4>2, SeqEqual
      <4> QED BY <4>3 DEF s, t, m, v
    <3>7. [view.blocks EXCEPT ![m] = grown] \in Seq(Blocks) /\ Len([view.blocks EXCEPT ![m] = grown]) = m
      BY <1>1, <1>7, <3>3
    <3>8. view'.blocks = [view.blocks EXCEPT ![m] = grown] /\ view' = [view EXCEPT !.blocks = view'.blocks]
      BY <3>5 DEF TypeInv
    <3> QED BY <3>2, <3>6, <3>7, <3>8
  <2> QED BY <2>1, <2>2
<1>12. view'.started = view.started /\ view'.open = view.open /\ view'.ended = view.ended /\ view'.broken = view.broken
  BY <1>11 DEF TypeInv
<1>13. TypeInv'
  BY <1>0, <1>1, <1>4, <1>11 DEF TypeInv, Live, Rest
<1>14. AccType'
  BY <1>1, <1>9, <1>10 DEF AccType
<1>15. Accumulated'
  <2>1. \A i \in 1 .. n : content[i].kind = said.content[i].kind
    BY <1>1 DEF block
  <2>2. n - 1 \in DOMAIN blocks
    BY <1>1, <1>9
  <2>3. said'.content[n].kind = block.kind /\ Len(said'.content) = n
    BY <1>1, <1>4
  <2>4. acc'.clientTool <=> \E i \in 1 .. n : content[i].kind = "client"
    BY <1>6, <1>10, <2>1
  <2> QED BY <1>0, <1>1, <1>4, <1>6, <1>9, <1>10, <2>2, <2>3, <2>4 DEF Accumulated, Turn, Rest
<1>16. Delivered'
  <2>1. said'.content[Len(said'.content)].kind = block.kind
    BY <1>1, <1>4
  <2> QED BY <1>0, <1>1, <1>4, <1>7, <1>10, <1>11, <1>12, <2>1 DEF Delivered, Turn, Live, Rest
<1> QED BY <1>13, <1>14, <1>15, <1>16

\* The open block ends.
BlockStops(n) ==
    /\ Rest /\ phase' = "reading"
    /\ said.open /\ n = Len(said.content)
    /\ said' = [said EXCEPT !.open = FALSE] /\ acc' = acc
    /\ view' = ReceivedAll(Forwarded(acc, "content_block_stop", n - 1))

\* content_block_stop.
LEMMA OnStop ==
  ASSUME Reading, NEW n, BlockStops(n)
  PROVE  TypeInv' /\ AccType' /\ Accumulated' /\ Delivered'
<1> USE DEF Reading
<1> DEFINE block == said.content[n]
<1>0. n = Len(said.content) /\ said.open /\ phase' = "reading" /\ Rest /\ acc' = acc
  BY DEF BlockStops
<1>1. said'.content = said.content /\ said'.open = FALSE /\ said'.stop = said.stop
      /\ said' = [content |-> said'.content, open |-> said'.open, stop |-> said'.stop]
  BY DEF TypeInv, BlockStops
<1>2. /\ n \in Nat \ {0} /\ acc.next \in Nat
      /\ IF block.kind = "gateway" THEN n - 1 \in acc.suppressed
         ELSE /\ n - 1 \notin acc.suppressed /\ n - 1 \in DOMAIN acc.map
              /\ acc.next > 0 /\ acc.map[n - 1] = acc.next - 1
  BY <1>0 DEF Accumulated, Turn, AccType, TypeInv
<1>3. /\ view.ended = "no" /\ view.broken = FALSE
      /\ view.open = (IF block.kind # "gateway" THEN {acc.next - 1} ELSE {})
  BY <1>0 DEF Delivered, Turn, Live, TypeInv
<1> HIDE DEF block
<1>4. view' = [view EXCEPT !.open = {}]
  <2>1. CASE block.kind = "gateway"
    <3>1. view' = view
      BY <1>2, <2>1, ReceivedNone DEF Forwarded, BlockStops
    <3> QED BY <1>3, <2>1, <3>1 DEF TypeInv
  <2>2. CASE block.kind # "gateway"
    <3> DEFINE e == Event("content_block_stop", acc.next - 1, Block("text"))
    <3>1. view' = Received(view, e)
      BY <1>2, <2>2, ReceivedOne DEF Forwarded, BlockStops
    <3>2. e.type = "content_block_stop" /\ e.index = acc.next - 1
      BY DEF Event
    <3>3. view' = [view EXCEPT !.open = {}, !.broken = FALSE]
      BY <1>3, <2>2, <3>1, <3>2 DEF Received
    <3> QED BY <1>3, <3>3 DEF TypeInv
  <2> QED BY <2>1, <2>2
<1>5. TypeInv'
  BY <1>0, <1>1, <1>4 DEF TypeInv, Live, Rest
<1>6. AccType'
  BY <1>0 DEF AccType
<1>7. Accumulated'
  BY <1>0, <1>1 DEF Accumulated, Turn, Rest
<1>8. Delivered'
  <2>1. view'.open = {} /\ view'.blocks = view.blocks /\ view'.ended = "no" /\ view'.broken = FALSE
        /\ view'.started = view.started
    BY <1>3, <1>4 DEF TypeInv
  <2> QED BY <1>0, <1>1, <2>1 DEF Delivered, Turn, Live, Rest
<1> QED BY <1>5, <1>6, <1>7, <1>8
\* Every line a turn may hold.
LEMMA PushStep ==
  ASSUME Inv, Push
  PROVE  Inv'
<1>1. /\ phase = "reading" /\ request.stream /\ acc.state = "active"
      /\ UNCHANGED <<request, round, calls, remaining, ran, posted, shown>>
      /\ phase' = AfterLine(acc') /\ Budgeted' /\ Replaying'
  BY PushRest
<1>2. PICK line \in Lines : /\ said' = Spoken(line) /\ acc' = Pushed(acc, line).acc
                            /\ view' = ReceivedAll(Pushed(acc, line).events)
  BY PushRest
<1>3. Reading
  BY <1>1 DEF Inv, Reading
<1>4. /\ TypeInv /\ AccType
      /\ said.open => said.content # << >> /\ said.stop = "none"
      /\ said.content \in Seq(Blocks) /\ Len(said.content) \in Nat
      /\ acc.onToolUse \in BOOLEAN /\ acc.delta \in BOOLEAN /\ said.stop \in Stops \cup {"none"}
      /\ (acc.onToolUse => said.stop = "tool_use") /\ (acc.delta => acc.started)
  BY <1>1, <1>3 DEF Inv, TypeInv, AccType, Accumulated, Turn
<1> DEFINE last == Len(said.content) - 1
<1> DEFINE Goal == TypeInv' /\ AccType' /\ Accumulated' /\ Delivered'
<1>5. CASE line.type = "message_start" /\ ~said.open
  <2>1. said' = said /\ acc' = OnMessageStart(acc).acc /\ view' = ReceivedAll(OnMessageStart(acc).events)
    BY <1>2, <1>5 DEF Spoken, Pushed
  <2>2. CASE ~acc.started
    <3>1. /\ acc' = [acc EXCEPT !.started = TRUE]
          /\ view' = ReceivedAll(<<Event("message_start", 0, Block("text"))>>)
      BY <2>1, <2>2 DEF OnMessageStart, Step
    <3>2. acc'.state = "active"
      BY <1>1, <1>4, <3>1 DEF AccType
    <3>3. phase' = "reading"
      BY <1>1, <3>2 DEF AfterLine
    <3> HIDE DEF Goal
    <3>4. Goal
      BY <1>1, <1>3, <1>5, <2>1, <2>2, <3>1, <3>3, OnStart DEF Goal
    <3> QED BY <3>4, <1>1 DEF Inv, Goal
  <2>3. CASE acc.started
    <3>1. acc' = acc /\ view' = view
      BY <2>1, <2>3, ReceivedNone DEF OnMessageStart, Step
    <3>2. phase' = "reading"
      BY <1>1, <3>1 DEF AfterLine
    <3>3. TypeInv' /\ AccType' /\ Accumulated' /\ Delivered'
      BY <1>1, <1>3, <2>1, <3>1, <3>2 DEF Reading, TypeInv, AccType, Accumulated, Delivered, Turn, Live
    <3> QED BY <3>3, <1>1 DEF Inv
  <2> QED BY <2>2, <2>3
<1>6. CASE /\ line.type = "content_block_start" /\ ~said.open /\ line.index = last + 1
           /\ line.kind \in Kinds /\ said.stop = "none" /\ acc.started
  <2> DEFINE n == Len(said.content)
  <2>1. line.index = n
    BY <1>4, <1>6
  <2>2. /\ said' = [said EXCEPT !.content = Append(@, Block(line.kind)), !.open = TRUE]
        /\ acc' = OnBlockStart(acc, n, line.kind).acc
        /\ view' = ReceivedAll(OnBlockStart(acc, n, line.kind).events)
    BY <1>2, <1>6, <2>1 DEF Spoken, Pushed
  <2>3. acc'.state = "active"
    BY <1>1, <1>4, <2>2 DEF OnBlockStart, Step, AccType
  <2>4. phase' = "reading"
    BY <1>1, <2>3 DEF AfterLine
  <2>5. BlockStarts(n, line.kind)
    BY <1>1, <1>6, <2>2, <2>4 DEF BlockStarts, Rest
  <2>6. TypeInv' /\ AccType' /\ Accumulated' /\ Delivered'
    BY <1>3, <1>6, <2>5, OnBlock
  <2> QED BY <2>6, <1>1 DEF Inv
<1>7. CASE line.type = "content_block_delta" /\ said.open /\ line.index = last
  <2> DEFINE n == Len(said.content)
  <2>2. /\ said' = [said EXCEPT !.content[n].body = @ + 1]
        /\ acc' = OnBlockDelta(acc, n - 1).acc
        /\ view' = ReceivedAll(OnBlockDelta(acc, n - 1).events)
    BY <1>2, <1>7 DEF Spoken, Pushed
  <2>3. acc'.state = "active"
    BY <1>1, <1>4, <2>2 DEF OnBlockDelta, Step, AccType
  <2>4. phase' = "reading"
    BY <1>1, <2>3 DEF AfterLine
  <2>5. BlockGrows(n)
    BY <1>1, <1>7, <2>2, <2>4 DEF BlockGrows, Rest
  <2>6. TypeInv' /\ AccType' /\ Accumulated' /\ Delivered'
    BY <1>3, <2>5, OnDelta
  <2> QED BY <2>6, <1>1 DEF Inv
<1>8. CASE line.type = "content_block_stop" /\ said.open /\ line.index = last
  <2> DEFINE n == Len(said.content)
  <2>2. /\ said' = [said EXCEPT !.open = FALSE] /\ acc' = acc
        /\ view' = ReceivedAll(Forwarded(acc, "content_block_stop", n - 1))
    BY <1>2, <1>8 DEF Spoken, Pushed, OnBlockStop, Step
  <2>4. phase' = "reading"
    BY <1>1, <2>2 DEF AfterLine
  <2>5. BlockStops(n)
    BY <1>1, <1>8, <2>2, <2>4 DEF BlockStops, Rest
  <2>6. TypeInv' /\ AccType' /\ Accumulated' /\ Delivered'
    BY <1>3, <2>5, OnStop
  <2> QED BY <2>6, <1>1 DEF Inv
<1>9. CASE line.type = "message_delta" /\ ~said.open /\ line.stop \in Stops /\ acc.started
  <2> DEFINE on == line.stop = "tool_use"
  <2>1. said' = [said EXCEPT !.stop = line.stop]
    BY <1>2, <1>9 DEF Spoken
  <2>2. acc' = [acc EXCEPT !.onToolUse = on, !.delta = TRUE] /\ view' = view
    BY <1>2, <1>9, ReceivedNone DEF Pushed, Step
  <2> HIDE DEF on
  <2>3. acc' = [acc EXCEPT !.onToolUse = on, !.delta = TRUE, !.state = "active"]
    BY <1>1, <1>4, <2>2 DEF AccType
  <2>4. phase' = "reading"
    BY <1>1, <1>4, <2>3 DEF AfterLine, AccType
  <2>5. on \in BOOLEAN /\ (on => line.stop = "tool_use")
    BY DEF on
  <2>6. Silent(line.stop, on, TRUE, "active")
    BY <1>1, <1>9, <2>1, <2>2, <2>3, <2>4, <2>5 DEF Silent, Rest
  <2>7. TypeInv' /\ AccType' /\ Accumulated' /\ Delivered'
    BY <1>3, <1>9, <2>5, <2>6, OnSilence
  <2> QED BY <2>7, <1>1 DEF Inv
<1>10. CASE line.type = "error" /\ ~said.open
  <2>1. said' = said /\ acc' = [acc EXCEPT !.state = "error"]
        /\ view' = ReceivedAll(<<Event("error", 0, Block("text"))>>)
    BY <1>2, <1>10 DEF Spoken, Pushed, Step
  <2>2. phase' = "ended"
    BY <1>1, <1>4, <2>1 DEF AfterLine, AccType
  <2> HIDE DEF Goal
  <2>3. Goal
    BY <1>1, <1>3, <2>1, <2>2, OnError DEF Goal
  <2> QED BY <2>3, <1>1 DEF Inv, Goal
<1>11. CASE line.type \in {"ping", "message_stop"} /\ ~said.open
  <2> DEFINE state == IF line.type = "ping" THEN "active" ELSE "completed"
  <2>1. said' = said /\ view' = view
    BY <1>2, <1>11, ReceivedNone DEF Spoken, Pushed, Step
  <2>2. acc' = [acc EXCEPT !.state = state]
    <3>1. CASE line.type = "ping"
      <4>1. acc' = acc
        BY <1>2, <3>1 DEF Pushed, Step
      <4> QED BY <1>1, <1>4, <3>1, <4>1 DEF AccType
    <3>2. CASE line.type = "message_stop"
      BY <1>2, <3>2 DEF Pushed, Step
    <3> QED BY <1>11, <3>1, <3>2
  <2>3. state \in {"active", "completed"}
    OBVIOUS
  <2> HIDE DEF state
  <2>4. acc' = [acc EXCEPT !.onToolUse = acc.onToolUse, !.delta = acc.delta, !.state = state]
    BY <1>4, <2>2 DEF AccType
  <2>5. said' = [said EXCEPT !.stop = said.stop]
    BY <1>4, <2>1 DEF TypeInv
  <2>6. phase' = IF state = "active" THEN "reading" ELSE "decide"
    <3>1. acc'.state = state
      BY <1>4, <2>2 DEF AccType
    <3> QED BY <1>1, <2>3, <3>1 DEF AfterLine
  <2>7. Silent(said.stop, acc.onToolUse, acc.delta, state)
    BY <1>1, <1>4, <1>11, <2>1, <2>4, <2>5, <2>6 DEF Silent, Rest
  <2>8. TypeInv' /\ AccType' /\ Accumulated' /\ Delivered'
    BY <1>3, <1>4, <2>3, <2>7, OnSilence
  <2> QED BY <2>8, <1>1 DEF Inv
<1> QED BY <1>4, <1>5, <1>6, <1>7, <1>8, <1>9, <1>10, <1>11, LineFacts

-----------------------------------------------------------------------------
(* The theorems.                                                           *)

\* The invariant is preserved by every step.
LEMMA Inductive == Inv /\ [Next]_vars => Inv'
<1> SUFFICES ASSUME Inv, [Next]_vars PROVE Inv'
  OBVIOUS
<1>1. CASE Route BY <1>1, RouteStep
<1>2. CASE Send BY <1>2, SendStep
<1>3. CASE Fail \/ Exhausted BY <1>3, FailStep
<1>4. CASE Push BY <1>4, PushStep
<1>5. CASE EndOfBody BY <1>5, EndOfBodyStep
<1>6. CASE Decide BY <1>6, DecideStep
<1>7. CASE ReadTurn BY <1>7, ReadTurnStep
<1>8. CASE CallEnds BY <1>8, CallEndsStep
<1>9. CASE AppendRound BY <1>9, AppendRoundStep
<1>10. CASE UNCHANGED vars
  <2>1. UNCHANGED <<request, phase, round, said, acc, calls, remaining, ran, posted, shown, view>>
    BY <1>10 DEF vars
  <2>2. TypeInv'
    BY <2>1 DEF Inv, TypeInv
  <2>3. AccType'
    BY <2>1 DEF Inv, AccType
  <2>4. Accumulated'
    BY <2>1 DEF Inv, Accumulated
  <2>5. Delivered'
    BY <2>1 DEF Inv, Delivered
  <2>6. Budgeted'
    BY <2>1 DEF Inv, Budgeted
  <2>7. Replaying'
    BY <2>1 DEF Inv, Replaying, TurnReplayed
  <2> QED BY <2>2, <2>3, <2>4, <2>5, <2>6, <2>7 DEF Inv
<1> QED BY <1>1, <1>2, <1>3, <1>4, <1>5, <1>6, <1>7, <1>8, <1>9, <1>10 DEF Next

\* The invariant holds in every state of a request: the accumulator holds what the model has said
\* of the turn, the client's view is that of one message, what is run is the turn and what is
\* posted is what was run, and the searches run and left together stay within every limit.
THEOREM Invariant == Spec => []Inv
  BY InitInv, Inductive, PTL DEF Spec

\* The searches run for a request, over all its rounds, stay within max_uses of every native search
\* tool it carries (SearchesWithinBudget).
THEOREM BudgetHolds == Spec => []SearchesWithinBudget
<1>1. Inv => SearchesWithinBudget
  <2> SUFFICES ASSUME Inv PROVE SearchesWithinBudget
    OBVIOUS
  <2>1. ASSUME NEW t \in request.tools, t.native, t.max # Unlimited PROVE ran <= t.max
    <3>1. CASE phase = "arrived"
      <4>1. t.max \in Nat
        BY <2>1, ConstantsAssumption DEF Inv, TypeInv
      <4> QED BY <3>1, <4>1 DEF Inv, Budgeted
    <3>2. CASE phase # "arrived"
      <4>1. remaining \in Nat /\ ran + remaining <= t.max /\ t.max \in Nat /\ ran \in Nat
        BY <2>1, <3>2, ConstantsAssumption DEF Inv, TypeInv, Budgeted
      <4> QED BY <4>1
    <3> QED BY <3>1, <3>2
  <2> QED BY <2>1 DEF SearchesWithinBudget, Inv, Budgeted
<1> QED BY <1>1, Invariant, PTL

\* The client receives one well-formed message, whatever the model streams over however many
\* rounds (OneMessage).
THEOREM MessageHolds == Spec => []OneMessage
<1>1. Inv => OneMessage
  <2> SUFFICES ASSUME Inv PROVE OneMessage
    OBVIOUS
  <2>1. shown \o << >> = shown
    BY DEF Inv, TypeInv
  <2>2. (request.stream /\ view.ended # "error" /\ phase \notin Turn) => view.blocks = shown
    BY DEF Inv, TypeInv, Delivered, Live, Turn, EmptyView
  <2> QED BY <2>1, <2>2 DEF OneMessage, Inv, Delivered, Turn
<1> QED BY <1>1, Invariant, PTL

\* The next round is asked with the turn as the model gave it and a result for each of its calls
\* (TurnReplayed).
THEOREM ReplayHolds == Spec => []TurnReplayed
<1>1. Inv => TurnReplayed
  BY DEF Inv, Replaying
<1> QED BY <1>1, Invariant, PTL

=============================================================================
