--------------------------- MODULE PipelineProofs ---------------------------
(***************************************************************************)
(* Proofs about Pipeline, for every set of distillers, every set of routes *)
(* and every number of retries and stages.                                 *)
(***************************************************************************)
EXTENDS Pipeline, SequenceTheorems, TLAPS

(***************************************************************************)
(* The stages begun: one more than task_age while a stage lasts.  Tries    *)
(* left and attempts made add up to Retries.                               *)
(***************************************************************************)
Counting ==
    /\ pc \in {"read", "serve"} => age = 0 /\ begun = 0 /\ asked = << >>
    /\ pc = "stage" => begun = age /\ age <= TTL
    /\ pc = "distill" =>
         /\ age <= TTL
         /\ begun = age + 1
         /\ Len(asked) + tries = Retries

(***************************************************************************)
(* A sequence is what is left of the saved route from its position p on.   *)
(***************************************************************************)
Suffix(r, p) ==
    /\ Len(r) = IF p <= Len(saved) THEN Len(saved) - p + 1 ELSE 0
    /\ \A k \in 1 .. Len(r) : r[k] = saved[k + p - 1]

(***************************************************************************)
(* The component whose turn it is opens the stage; static_route holds the  *)
(* components behind it, and X-Route has lost one component for every      *)
(* attempt made in the stage.                                              *)
(***************************************************************************)
Turn == age - savedAt + 1

Following ==
    /\ pc \in {"read", "serve"} => ~fixed
    /\ ~fixed => static = << >>
    /\ fixed => savedAt <= age
    /\ fixed /\ pc \in {"stage", "distill"} =>
         /\ Turn \in 1 .. Len(saved)
         /\ Suffix(static, Turn + 1)
    /\ fixed /\ pc = "stage" => Suffix(route, Turn)
    /\ fixed /\ pc = "distill" => Suffix(route, Turn + Len(asked))

PipelineInv ==
    /\ TypeOK
    /\ OneReply
    /\ Counting
    /\ WorkBounded
    /\ Following
    /\ StaticRouteFollowed

-----------------------------------------------------------------------------
(***************************************************************************)
(* set_distiller_type names a worker and leaves a shorter route.           *)
(***************************************************************************)
LEMMA TargetType ==
    ASSUME TypeOK
    PROVE  Target \in Workers /\ Rest \in Seq(Workers)
<1>1. CASE route = << >>
    BY <1>1 DEF TypeOK, Target, Rest, Workers
<1>2. CASE route # << >>
    BY <1>2 DEF TypeOK, Target, Rest
<1> QED BY <1>1, <1>2

(***************************************************************************)
(* Popping a component moves on by one position, also behind the end.      *)
(***************************************************************************)
LEMMA PopSuffix ==
    ASSUME NEW r \in Seq(Workers), NEW p \in Nat, p >= 1,
           saved \in Seq(Distillers), Suffix(r, p)
    PROVE  /\ r = << >> => p > Len(saved)
           /\ r # << >> => p <= Len(saved) /\ r[1] = saved[p]
           /\ Suffix(IF r = << >> THEN << >> ELSE Tail(r), p + 1)
<1>1. /\ Len(saved) \in Nat /\ Len(r) \in Nat
      /\ Len(r) = IF p <= Len(saved) THEN Len(saved) - p + 1 ELSE 0
      /\ \A k \in 1 .. Len(r) : r[k] = saved[k + p - 1]
    BY DEF Suffix
<1>2. CASE r = << >>
    <2>1. Len(r) = 0 /\ p > Len(saved)
        BY <1>1, <1>2
    <2> QED BY <1>1, <1>2, <2>1 DEF Suffix
<1>3. CASE r # << >>
    <2>1. /\ Len(r) >= 1 /\ p <= Len(saved) /\ Len(r) = Len(saved) - p + 1
          /\ Len(Tail(r)) = Len(r) - 1
          /\ \A k \in 1 .. Len(Tail(r)) : Tail(r)[k] = r[k + 1]
        BY <1>1, <1>3
    <2>2. r[1] = saved[p]
        BY <1>1, <2>1
    <2>3. Suffix(Tail(r), p + 1)
        <3>1. Len(Tail(r)) = IF p + 1 <= Len(saved) THEN Len(saved) - (p + 1) + 1 ELSE 0
            BY <1>1, <2>1
        <3>2. ASSUME NEW k \in 1 .. Len(Tail(r))
              PROVE  Tail(r)[k] = saved[k + (p + 1) - 1]
            <4>1. k + 1 \in 1 .. Len(r) /\ (k + 1) + p - 1 = k + (p + 1) - 1
                BY <1>1, <2>1
            <4> QED BY <1>1, <2>1, <4>1
        <3> QED BY <3>1, <3>2 DEF Suffix
    <2> QED BY <1>3, <2>1, <2>2, <2>3
<1> QED BY <1>2, <1>3

(***************************************************************************)
(* What asking a distiller does to the history of do_distillation calls.   *)
(***************************************************************************)
LEMMA AskHistory ==
    ASSUME PipelineInv, Ask
    PROVE  /\ asked' \in Seq(Workers)
           /\ Len(asked') = Len(asked) + 1
           /\ \A k \in 1 .. Len(asked) : asked'[k] = asked[k]
           /\ asked'[Len(asked) + 1] = Target
           /\ begun' = begun /\ begun = age + 1
<1>1. asked \in Seq(Workers) /\ Target \in Workers
    BY TargetType DEF PipelineInv, TypeOK
<1>2. asked' = Append(asked, Target) /\ pc = "distill" /\ begun' = begun
    BY DEF Ask
<1>3. begun = age + 1
    BY <1>2 DEF PipelineInv, Counting
<1> QED BY <1>1, <1>2, <1>3

(***************************************************************************)
(* With a static route, the distiller asked is the one that is due, and    *)
(* X-Route keeps in step with the attempts.                                *)
(***************************************************************************)
LEMMA AskFollows ==
    ASSUME PipelineInv, Ask, fixed
    PROVE  /\ begun <= savedAt + Len(saved)
           /\ \A j \in 1 .. Len(asked') : asked'[j] = Due(begun, j)
           /\ Suffix(Rest, Turn + Len(asked) + 1)
<1>1. /\ saved \in Seq(Distillers) /\ savedAt \in Nat /\ age \in Nat
      /\ pc = "distill" /\ asked \in Seq(Workers) /\ route \in Seq(Workers)
      /\ Len(asked) \in Nat /\ Len(saved) \in Nat
    BY DEF PipelineInv, TypeOK, Ask
<1>2. /\ savedAt <= age /\ Turn \in 1 .. Len(saved) /\ begun = age + 1
      /\ Suffix(route, Turn + Len(asked))
    BY <1>1 DEF PipelineInv, Following, Counting
<1>3. \A j \in 1 .. Len(asked) : asked[j] = Due(begun, j)
    BY <1>1, <1>2 DEF PipelineInv, StaticRouteFollowed
<1>4. Turn + Len(asked) \in Nat /\ Turn + Len(asked) >= 1
    BY <1>1, <1>2
<1>5. Suffix(Rest, Turn + Len(asked) + 1)
    BY <1>1, <1>2, <1>4, PopSuffix DEF Rest
<1>6. Target = Due(begun, Len(asked) + 1)
    <2>1. begun - savedAt + (Len(asked) + 1) - 1 = Turn + Len(asked)
        BY <1>1, <1>2 DEF Turn
    <2>2. CASE route = << >>
        <3>1. Turn + Len(asked) > Len(saved)
            BY <1>1, <1>2, <1>4, <2>2, PopSuffix
        <3>2. ~(Turn + Len(asked) <= Len(saved))
            BY <1>1, <1>4, <3>1
        <3> QED BY <2>1, <2>2, <3>2 DEF Target, Due
    <2>3. CASE route # << >>
        <3>1. Turn + Len(asked) <= Len(saved) /\ route[1] = saved[Turn + Len(asked)]
            BY <1>1, <1>2, <1>4, <2>3, PopSuffix
        <3>2. Target = route[1]
            BY <1>1, <2>3 DEF Target
        <3> QED BY <2>1, <3>1, <3>2 DEF Due
    <2> QED BY <2>2, <2>3
<1>7. ASSUME NEW j \in 1 .. Len(asked')
      PROVE  asked'[j] = Due(begun, j)
    <2>1. CASE j = Len(asked) + 1
        BY <1>6, <2>1, AskHistory
    <2>2. CASE j # Len(asked) + 1
        <3>1. j \in 1 .. Len(asked)
            BY <1>1, <2>2, AskHistory
        <3> QED BY <1>3, <3>1, AskHistory
    <2> QED BY <2>1, <2>2
<1>8. begun <= savedAt + Len(saved)
    BY <1>1, <1>2 DEF Turn
<1> QED BY <1>5, <1>7, <1>8

(***************************************************************************)
(* A header value is a route of distillers.                                *)
(***************************************************************************)
LEMMA RouteType ==
    ASSUME NEW r \in Routes
    PROVE  r \in Seq(Distillers) /\ r \in Seq(Workers)
<1>1. r \in Seq(Distillers)
    BY PipelineAssumption
<1>2. Distillers \subseteq Workers
    BY DEF Workers
<1> QED BY <1>1, <1>2

(***************************************************************************)
(* An answer is one more element of reply, or none.                        *)
(***************************************************************************)
LEMMA FinishReply ==
    ASSUME PipelineInv, pc # "done",
           NEW r \in Replies,
           Finish(<<r>>)
    PROVE  pc' = "done" /\ reply' = <<r>>
<1>1. reply = << >>
    BY DEF PipelineInv, OneReply
<1>2. << >> \o <<r>> = <<r>>
    OBVIOUS
<1> QED BY <1>1, <1>2 DEF Finish

(***************************************************************************)
(* One answer has the type of the answers.                                 *)
(***************************************************************************)
LEMMA SingleReply ==
    ASSUME NEW r \in Replies
    PROVE  <<r>> \in Seq(Replies) /\ Len(<<r>>) = 1
OBVIOUS

(***************************************************************************)
(* The steps of http_go_proc that do not run distillers.                   *)
(***************************************************************************)
LEMMA EndsEarly ==
    ASSUME PipelineInv, pc \in {"read", "serve"}, pc' = "done",
           reply' = << >> \/ \E r \in Replies : reply' = <<r>>,
           UNCHANGED <<local, plan, history>>
    PROVE  PipelineInv'
<1>a. reply' \in Seq(Replies) /\ Len(reply') <= 1
    <2>1. CASE reply' = << >>
        BY <2>1
    <2>2. CASE \E r \in Replies : reply' = <<r>>
        BY <2>2, SingleReply
    <2> QED BY <2>1, <2>2
<1>1. TypeOK'
    BY <1>a DEF PipelineInv, TypeOK, plan, history
<1>2. OneReply'
    BY <1>a DEF OneReply
<1>3. Counting' /\ WorkBounded'
    BY DEF PipelineInv, Counting, WorkBounded, plan, history
<1>4. ~fixed /\ ~fixed' /\ static' = << >>
    BY DEF PipelineInv, Following, plan
<1>5. Following'
    BY <1>4 DEF Following
<1>6. StaticRouteFollowed'
    BY <1>4 DEF StaticRouteFollowed
<1> QED BY <1>1, <1>2, <1>3, <1>5, <1>6 DEF PipelineInv

(***************************************************************************)
(* Initially nothing was asked and nothing was answered.                   *)
(***************************************************************************)
LEMMA InitInv == Init => PipelineInv
<1> SUFFICES ASSUME Init PROVE PipelineInv
    OBVIOUS
<1>a. \A S : << >> \in Seq(S)
    OBVIOUS
<1>b. 0 \in 0 .. Retries /\ 0 \in 0 .. TTL + 1
    BY PipelineAssumption
<1>1. TypeOK
    BY Zenon, <1>a, <1>b DEF Init, TypeOK
<1>2. OneReply /\ Counting /\ WorkBounded
    BY PipelineAssumption DEF Init, OneReply, Counting, WorkBounded
<1>3. Following /\ StaticRouteFollowed
    BY DEF Init, Following, StaticRouteFollowed
<1> QED BY <1>1, <1>2, <1>3 DEF PipelineInv

(***************************************************************************)
(* A stage that ends the request, or tries again, keeps the static route.  *)
(***************************************************************************)
LEMMA StageGoesOnOrEnds ==
    ASSUME PipelineInv, Ask, route' = Rest,
           UNCHANGED <<local, static, fixed, age, saved, savedAt>>,
           \/ /\ pc' = pc /\ reply' = reply
              /\ tries > 0 /\ tries' = tries - 1
           \/ /\ pc' = "done" /\ tries' = tries
              /\ \E r \in Replies :
                   /\ reply' = <<r>>
                   /\ r = "distilled" /\ fixed => static = << >>
    PROVE  PipelineInv'
<1>b. reply' \in Seq(Replies) /\ OneReply'
    <2>1. CASE pc' = pc /\ reply' = reply
        BY <2>1 DEF PipelineInv, OneReply, TypeOK
    <2>2. CASE pc' = "done" /\ \E r \in Replies : reply' = <<r>>
        BY <2>2, SingleReply DEF OneReply
    <2> QED BY <2>1, <2>2
<1>c. pc' \in {"distill", "done"} /\ tries' \in 0 .. Retries
    BY PipelineAssumption DEF PipelineInv, TypeOK, Ask
<1>d. asked' \in Seq(Workers) /\ begun' \in Nat /\ route' \in Seq(Workers)
    BY AskHistory, TargetType DEF PipelineInv, TypeOK
<1>1. TypeOK'
    BY <1>b, <1>c, <1>d DEF PipelineInv, TypeOK
<1>a. /\ age \in Nat /\ tries \in Nat /\ Len(asked) \in Nat
      /\ pc = "distill"
      /\ age <= TTL /\ Len(asked) + tries = Retries
    BY DEF PipelineInv, TypeOK, Ask, Counting
<1>3. Counting'
    BY <1>a, AskHistory DEF Counting
<1>4. WorkBounded'
    BY <1>a, PipelineAssumption, AskHistory DEF WorkBounded
<1>5. Following'
    <2>1. CASE ~fixed
        BY <1>c, <2>1 DEF PipelineInv, Following
    <2>2. CASE fixed
        <3>1. /\ savedAt <= age /\ Turn \in 1 .. Len(saved) /\ Suffix(static, Turn + 1)
            BY <1>a, <2>2 DEF PipelineInv, Following
        <3>2. Turn' = Turn
            BY DEF Turn
        <3>3. Suffix(static, Turn + 1)'
            BY <3>1, <3>2 DEF Suffix
        <3>4. Turn + Len(asked) + 1 = Turn' + Len(asked')
            BY <1>a, <3>1, <3>2, AskHistory
        <3>5. Suffix(route, Turn + Len(asked))'
            <4>1. Suffix(Rest, Turn' + Len(asked'))
                BY <2>2, <3>4, AskFollows
            <4> QED BY <4>1 DEF Suffix
        <3> QED BY <1>c, <2>2, <3>1, <3>2, <3>3, <3>5 DEF Following
    <2> QED BY <2>1, <2>2 DEF PipelineInv, TypeOK
<1>6. StaticRouteFollowed'
    <2> SUFFICES ASSUME fixed' PROVE StaticRouteFollowed'
        BY DEF StaticRouteFollowed
    <2>1. fixed
        OBVIOUS
    <2>2. /\ begun' <= savedAt' + Len(saved')
          /\ \A j \in 1 .. Len(asked') : asked'[j] = Due(begun, j)'
        BY <2>1, AskFollows, AskHistory DEF Due
    <2>3. ASSUME reply' = <<"distilled">>
          PROVE  begun' = savedAt' + Len(saved')
        <3>1. reply # <<"distilled">>
            BY <1>a DEF PipelineInv, OneReply
        <3>2. static = << >>
            BY <2>1, <2>3, <3>1
        <3>4. begun' = age + 1
            BY AskHistory
        <3>5. Len(saved) \in Nat /\ savedAt \in Nat
            BY DEF PipelineInv, TypeOK
        <3>3. Len(static) = Len(saved) - (age - savedAt + 1)
            BY <1>a, <2>1, <3>5 DEF PipelineInv, Following, Turn, Suffix
        <3> QED BY <1>a, <3>2, <3>3, <3>4, <3>5
    <2> QED BY <2>2, <2>3 DEF StaticRouteFollowed
<1> QED BY <1>b, <1>1, <1>3, <1>4, <1>5, <1>6 DEF PipelineInv

(***************************************************************************)
(* A stage whose output goes to another stage, or dies of old age.  With s *)
(* and x the headers of the output, the saved route is s when nothing was  *)
(* saved before, and moves on by one component otherwise.                  *)
(***************************************************************************)
LEMMA RedispatchKeeps ==
    ASSUME PipelineInv, Redispatch
    PROVE  PipelineInv'
<1>1. PICK status \in {"ok", "redispatch"}, x \in Routes, s \in Routes :
         /\ MustRedispatch(status, s)
         /\ Save(s)
         /\ IF StaticAfter(s) # << >>
            THEN route' = StaticAfter(s) /\ static' = Tail(StaticAfter(s))
            ELSE route' = x /\ static' = static
    BY DEF Redispatch
<1>2. /\ Ask /\ pc = "distill" /\ reply = << >>
      /\ age' = age + 1 /\ local' = local /\ tries' = tries
    BY DEF Redispatch, Ask, PipelineInv, OneReply
<1>3. /\ age \in Nat /\ age <= TTL /\ savedAt \in Nat
      /\ static \in Seq(Distillers) /\ saved \in Seq(Distillers)
      /\ fixed \in BOOLEAN /\ tries \in 0 .. Retries /\ local \in BOOLEAN
      /\ reply \in Seq(Replies) /\ Len(asked) + tries = Retries
      /\ Len(asked) \in Nat
    BY <1>2 DEF PipelineInv, TypeOK, Counting
<1>4. /\ s \in Seq(Distillers) /\ s \in Seq(Workers) /\ x \in Seq(Workers)
    BY RouteType
<1>5. \/ pc' = "stage" /\ reply' = << >> /\ age + 1 <= TTL
      \/ pc' = "done" /\ reply' = <<"error">>
    <2>1. CASE MayGoOn(age + 1)
        BY <1>2, <2>1 DEF Redispatch, MayGoOn
    <2>2. CASE ~MayGoOn(age + 1)
        <3>1. Finish(<<"error">>)
            BY <2>2 DEF Redispatch
        <3> QED BY <1>2, <3>1, FinishReply DEF Replies
    <2> QED BY <2>1, <2>2
<1>a. <<"error">> # <<"distilled">> /\ << >> # <<"distilled">> /\ Len(<<"error">>) = 1
    <2>1. <<"error">>[1] # <<"distilled">>[1]
        OBVIOUS
    <2> QED BY <2>1
<1>b. reply' # <<"distilled">> /\ Len(reply') <= 1
    <2>1. CASE reply' = << >>
        BY <1>a, <2>1
    <2>2. CASE reply' = <<"error">>
        BY <1>a, <2>2
    <2> QED BY <1>5, <2>1, <2>2
<1>6. /\ asked' \in Seq(Workers) /\ begun' = age + 1
      /\ Len(asked') = Len(asked) + 1
    BY <1>2, AskHistory
<1>7. StaticAfter(s) \in Seq(Distillers) /\ StaticAfter(s) \in Seq(Workers)
    <2>1. static \in Seq(Workers)
        <3>1. Distillers \subseteq Workers
            BY DEF Workers
        <3> QED BY <1>3, <3>1
    <2> QED BY <1>3, <1>4, <2>1 DEF StaticAfter
<1>8. route' \in Seq(Workers) /\ static' \in Seq(Distillers)
    <2>1. CASE StaticAfter(s) = << >>
        BY <1>1, <1>3, <1>4, <2>1
    <2>2. CASE StaticAfter(s) # << >>
        <3>1. route' = StaticAfter(s) /\ static' = Tail(StaticAfter(s))
            BY <1>1, <2>2
        <3> QED BY <1>7, <2>2, <3>1
    <2> QED BY <2>1, <2>2
<1>9. fixed' \in BOOLEAN /\ saved' \in Seq(Distillers) /\ savedAt' \in Nat
    <2>1. CASE ~fixed /\ s # << >>
        <3>1. fixed' = TRUE /\ saved' = s /\ savedAt' = age + 1
            BY <1>1, <2>1 DEF Save
        <3> QED BY <1>3, <1>4, <3>1
    <2>2. CASE ~(~fixed /\ s # << >>)
        <3>1. fixed' = fixed /\ saved' = saved /\ savedAt' = savedAt
            BY <1>1, <2>2 DEF Save
        <3> QED BY <1>3, <3>1
    <2> QED BY <2>1, <2>2
<1>10. TypeOK'
    <2>1. <<"error">> \in Seq(Replies)
        BY SingleReply DEF Replies
    <2>2. age' \in 0 .. TTL + 1
        BY <1>2, <1>3, PipelineAssumption
    <2>3. reply' \in Seq(Replies) /\ pc' \in {"stage", "done"}
        BY Zenon, <1>3, <1>2, <1>5, <2>1
    <2> QED BY <1>2, <1>3, <1>6, <1>8, <1>9, <2>2, <2>3 DEF TypeOK
<1>11. OneReply'
    <2>1. pc' # "done" => reply' = << >>
        BY <1>5
    <2> QED BY <1>b, <2>1 DEF OneReply
<1>12. Counting' /\ WorkBounded'
    BY <1>2, <1>3, <1>5, <1>6, PipelineAssumption DEF Counting, WorkBounded
<1>13. Following' /\ StaticRouteFollowed'
    <2>1. CASE ~fixed /\ s = << >>
        <3>1. ~fixed' /\ static' = << >>
            BY <1>1, <2>1 DEF Save, StaticAfter, PipelineInv, Following
        <3> QED BY <1>5, <3>1 DEF Following, StaticRouteFollowed
    <2>2. CASE ~fixed /\ s # << >>
        <3>1. /\ fixed' /\ saved' = s /\ savedAt' = age + 1
              /\ route' = s /\ static' = Tail(s)
            BY <1>1, <2>2 DEF Save, StaticAfter
        <3>2. Turn' = 1
            BY <1>2, <1>3, <3>1 DEF Turn
        <3>3. /\ Len(s) \in Nat /\ Len(s) >= 1 /\ Len(Tail(s)) = Len(s) - 1
              /\ \A k \in 1 .. Len(Tail(s)) : Tail(s)[k] = s[k + 1]
            BY <1>4, <2>2
        <3>4. Suffix(static, 1 + 1)' /\ Suffix(route, 1)'
            BY <1>4, <3>1, <3>3 DEF Suffix
        <3>5. Following'
            BY <1>2, <1>3, <1>5, <2>2, <3>1, <3>2, <3>3, <3>4 DEF Following
        <3>6. StaticRouteFollowed'
            BY <1>3, <1>b, <1>6, <3>1, <3>3 DEF StaticRouteFollowed
        <3> QED BY <3>5, <3>6
    <2>3. CASE fixed
        <3>1. /\ fixed' /\ saved' = saved /\ savedAt' = savedAt
              /\ StaticAfter(s) = static /\ static # << >>
              /\ route' = static /\ static' = Tail(static)
            BY <1>1, <2>3 DEF Save, StaticAfter, MustRedispatch
        <3>2. /\ savedAt <= age /\ Turn \in 1 .. Len(saved)
              /\ Suffix(static, Turn + 1)
            BY <1>2, <2>3 DEF PipelineInv, Following
        <3>3. Turn' = Turn + 1 /\ Turn \in Nat /\ Len(saved) \in Nat
            BY <1>2, <1>3, <3>1, <3>2 DEF Turn
        <3>4. static \in Seq(Workers)
            <4>1. Distillers \subseteq Workers
                BY DEF Workers
            <4> QED BY <1>3, <4>1
        <3>5. /\ Turn + 1 <= Len(saved) /\ Suffix(Tail(static), Turn' + 1)
            BY <1>3, <3>1, <3>2, <3>3, <3>4, PopSuffix
        <3>6. Suffix(static, Turn + 1)' /\ Suffix(route, Turn)'
            BY <3>1, <3>2, <3>3, <3>5 DEF Suffix
        <3>7. Turn' \in 1 .. Len(saved')
            BY <3>1, <3>3, <3>5
        <3>8. Following'
            <4>1. pc' \notin {"read", "serve", "distill"} /\ savedAt' <= age'
                BY <1>2, <1>3, <1>5, <3>1, <3>2
            <4> QED BY <3>1, <3>6, <3>7, <4>1 DEF Following
        <3>9. StaticRouteFollowed'
            <4>1. /\ begun' <= savedAt' + Len(saved')
                  /\ \A j \in 1 .. Len(asked') : asked'[j] = Due(begun, j)'
                BY <1>2, <2>3, <3>1, AskFollows, AskHistory DEF Due
            <4> QED BY <1>b, <4>1 DEF StaticRouteFollowed
        <3> QED BY <3>8, <3>9
    <2> QED BY <1>3, <2>1, <2>2, <2>3
<1> QED BY <1>10, <1>11, <1>12, <1>13 DEF PipelineInv

(***************************************************************************)
(* Every step of the worker thread keeps the invariant.                    *)
(***************************************************************************)
LEMMA StepInv == PipelineInv /\ [Next]_vars => PipelineInv'
<1> SUFFICES ASSUME PipelineInv, [Next]_vars PROVE PipelineInv'
    OBVIOUS
<1>1. CASE UNCHANGED vars
    BY <1>1 DEF vars, request, plan, history, PipelineInv, TypeOK, OneReply, Counting,
                WorkBounded, Following, Turn, Suffix, StaticRouteFollowed, Due
<1>2. ASSUME pc \in {"read", "serve"}, NEW r \in Replies, Finish(<<r>>),
             UNCHANGED <<local, plan, history>>
      PROVE  PipelineInv'
    <2>1. pc' = "done" /\ reply' = <<r>>
        BY <1>2, FinishReply
    <2> QED BY <1>2, <2>1, EndsEarly
<1>3. ASSUME pc = "read", Finish(<< >>), UNCHANGED <<local, plan, history>>
      PROVE  PipelineInv'
    <2>1. reply = << >> /\ << >> \o << >> = << >>
        BY <1>3 DEF PipelineInv, OneReply
    <2>2. pc' = "done" /\ reply' = << >>
        BY <1>3, <2>1 DEF Finish
    <2> QED BY <1>3, <2>2, EndsEarly
<1>4. CASE ReadFails
    BY <1>3, <1>4 DEF ReadFails
<1>5. CASE AnswerAtOnce
    BY <1>2, <1>5 DEF AnswerAtOnce, Replies
<1>6. CASE Tunnel
    BY <1>2, <1>3, <1>6 DEF Tunnel, Replies
<1>7. CASE Accept
    BY <1>7 DEF Accept, plan, history, PipelineInv, TypeOK, OneReply, Counting,
                WorkBounded, Following, Turn, Suffix, StaticRouteFollowed, Due
<1>8. CASE DispatchFails
    BY <1>2, <1>8 DEF DispatchFails, Replies
<1>9. CASE Bypass
    BY <1>2, <1>9 DEF Bypass, Replies
<1>10. CASE DispatchSucceeds
    <2>1. route' \in Seq(Workers)
        <3>1. Dispatcher \in Workers
            BY DEF Workers
        <3>2. <<Dispatcher>> \in Seq(Workers)
            BY <3>1
        <3> QED BY Zenon, <1>10, <3>2, RouteType DEF DispatchSucceeds
    <2>2. TypeOK' /\ OneReply'
        BY <1>10, <2>1 DEF DispatchSucceeds, history, PipelineInv, TypeOK, OneReply
    <2>3. Counting' /\ WorkBounded'
        BY <1>10, PipelineAssumption
        DEF DispatchSucceeds, history, PipelineInv, Counting, WorkBounded
    <2>4. Following' /\ StaticRouteFollowed'
        BY <1>10 DEF DispatchSucceeds, history, PipelineInv, Following, StaticRouteFollowed
    <2> QED BY <2>2, <2>3, <2>4 DEF PipelineInv
<1>11. CASE BeginStage
    <2>1. TypeOK' /\ OneReply'
        BY <1>11, PipelineAssumption DEF BeginStage, PipelineInv, TypeOK, OneReply
    <2>2. Counting' /\ WorkBounded'
        BY <1>11, PipelineAssumption
        DEF BeginStage, PipelineInv, TypeOK, Counting, WorkBounded
    <2>3. Following'
        <3>1. Turn' = Turn /\ Len(asked') = 0
            BY <1>11 DEF BeginStage, Turn
        <3>2. CASE ~fixed
            BY <1>11, <3>2 DEF BeginStage, PipelineInv, Following
        <3>3. CASE fixed
            <4>1. /\ Turn \in 1 .. Len(saved) /\ Suffix(static, Turn + 1)
                  /\ Suffix(route, Turn) /\ Turn + 0 = Turn /\ savedAt <= age
                BY <1>11, <3>3 DEF BeginStage, PipelineInv, Following
            <4>2. Suffix(static, Turn + 1)' /\ Suffix(route, Turn + Len(asked))'
                BY <1>11, <3>1, <4>1 DEF BeginStage, Suffix
            <4> QED BY <1>11, <3>1, <3>3, <4>1, <4>2 DEF BeginStage, Following
        <3> QED BY <3>2, <3>3 DEF PipelineInv, TypeOK
    <2>4. StaticRouteFollowed'
        <3>1. /\ reply' # <<"distilled">> /\ Len(asked') = 0
              /\ begun' = age + 1 /\ fixed' = fixed
              /\ saved' = saved /\ savedAt' = savedAt
            BY <1>11 DEF BeginStage, PipelineInv, OneReply, Counting
        <3>2. fixed => age - savedAt + 1 <= Len(saved)
            BY <1>11 DEF BeginStage, PipelineInv, Following, Turn
        <3> QED BY <3>1, <3>2 DEF PipelineInv, TypeOK, StaticRouteFollowed
    <2> QED BY <2>1, <2>2, <2>3, <2>4 DEF PipelineInv
<1>12. CASE Retry
    BY <1>12, StageGoesOnOrEnds DEF Retry, request
<1>13. CASE DistillFails
    <2>1. pc = "distill"
        BY <1>13 DEF DistillFails, Ask
    <2>2. PICK r \in {"error", "original"} : Finish(<<r>>)
        BY <1>13 DEF DistillFails
    <2>3. pc' = "done" /\ reply' = <<r>> /\ r \in Replies /\ r # "distilled"
        BY <2>1, <2>2, FinishReply DEF Replies
    <2> QED BY <1>13, <2>3, StageGoesOnOrEnds DEF DistillFails
<1>14. CASE Redispatch
    BY <1>14, RedispatchKeeps
<1>15. CASE DistillDone
    <2>1. pc = "distill"
        BY <1>15 DEF DistillDone, Ask
    <2>2. fixed => static = << >>
        BY <1>15 DEF DistillDone, MustRedispatch, StaticAfter
    <2>3. pc' = "done" /\ reply' = <<"distilled">> /\ "distilled" \in Replies
        BY <1>15, <2>1, FinishReply DEF DistillDone, Replies
    <2> QED BY <1>15, <2>2, <2>3, StageGoesOnOrEnds DEF DistillDone
<1> QED BY <1>1, <1>4, <1>5, <1>6, <1>7, <1>8, <1>9, <1>10, <1>11, <1>12, <1>13,
           <1>14, <1>15 DEF Next, http_go_proc, proxy_dispatch, Done

(***************************************************************************)
(* The invariant holds of every request, whatever its client, the cache    *)
(* and the distillers do.                                                  *)
(***************************************************************************)
THEOREM PipelineInvariant == Spec => []PipelineInv
<1>1. Init => PipelineInv
    BY InitInv
<1>2. PipelineInv /\ [Next]_vars => PipelineInv'
    BY StepInv
<1> QED BY <1>1, <1>2, PTL DEF Spec

(***************************************************************************)
(* proxy_dispatch keeps its loop variables in their types; in particular   *)
(* task_age stops at one more than the TTL and no attempt is made again    *)
(* without a try left.                                                     *)
(***************************************************************************)
THEOREM PipelineTypes == Spec => []TypeOK
<1>1. PipelineInv => TypeOK
    BY DEF PipelineInv
<1> QED BY <1>1, PipelineInvariant, PTL

(***************************************************************************)
(* No path through http_go_proc answers a client twice.                    *)
(***************************************************************************)
THEOREM AnsweredAtMostOnce == Spec => []OneReply
<1>1. PipelineInv => OneReply
    BY DEF PipelineInv
<1> QED BY <1>1, PipelineInvariant, PTL

(***************************************************************************)
(* For every PERF_REQUEST_TTL and number of retries, a request is          *)
(* distilled at most (TTL + 1) * (Retries + 1) times.                      *)
(***************************************************************************)
THEOREM WorkIsBounded == Spec => []WorkBounded
<1>1. PipelineInv => WorkBounded
    BY DEF PipelineInv
<1> QED BY <1>1, PipelineInvariant, PTL

(***************************************************************************)
(* For a static route of any length, saved in any stage: every attempt     *)
(* asks the distiller that is due, one component further for every         *)
(* connection of the stage that broke, and the client gets output only     *)
(* after as many stages as the route has (dispatch.c:311-315, 350-399).    *)
(***************************************************************************)
THEOREM StaticRouteIsFollowed == Spec => []StaticRouteFollowed
<1>1. PipelineInv => StaticRouteFollowed
    BY DEF PipelineInv
<1> QED BY <1>1, PipelineInvariant, PTL

(***************************************************************************)
(* PipelineIsSafe, the conjunction of the four: for every time to live,    *)
(* number of retries, set of distillers and set of routes.                 *)
(***************************************************************************)
THEOREM PipelineAlwaysSafe == Spec => []PipelineIsSafe
<1>1. TypeOK /\ OneReply /\ StaticRouteFollowed /\ WorkBounded => PipelineIsSafe
  BY DEF PipelineIsSafe
<1> QED BY <1>1, PipelineTypes, AnsweredAtMostOnce, StaticRouteIsFollowed, WorkIsBounded, PTL
=============================================================================
