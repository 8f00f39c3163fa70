------------------------------ MODULE MatchProofs ------------------------------
(***************************************************************************)
(* What a match may rely on, for any number of seats, any scale and any    *)
(* number of deals: a match that goes on has nobody with the joker, who    *)
(* loses the game has earned it, and a hung card counts.  And what becomes *)
(* of its result: it counts once, and the places found again from what was *)
(* written down are those that were written.                               *)
(*                                                                         *)
(* The proofs about a match go over what a deal promises, which DealEngine *)
(* implements; those about results are about Ratings alone.                *)
(***************************************************************************)
EXTENDS MatchEngine, Ratings, TLAPS, FiniteSetTheorems

\* The joker is hung on exactly those at the top of the scale; who is out has a place, and of
\* a deal that is over one player is left.
Fair(d) ==
  /\ d \in Promise
  /\ d.inDeal # {}
  /\ \A s \in Seats : IsFinished(d.level[s]) <=> d.jokerHanger[s] # NobodySeat
  /\ \A s \in Seats : s \in d.inDeal <=> d.exitPlace[s] = 0
  /\ d.stage = "OVER" => Cardinality(d.inDeal) = 1

\* One deal after another of its rounds.
Follows(d, e) ==
  /\ Fair(e) /\ e.stage # "DICE"
  /\ \A s \in Seats : d.level[s] <= e.level[s]

-----------------------------------------------------------------------------
\* The joker is a step of every scale, and the seats can be counted.
LEMMA ScaleAndSeats ==
  /\ JokerLevel \in Nat /\ JokerLevel >= 1
  /\ \A l \in Levels : l \in Int /\ NoNaves <= l /\ l <= JokerLevel
  /\ N \in Nat /\ N >= 2
  /\ \A s \in Seats : s \in Nat
  /\ IsFiniteSet(Seats) /\ Cardinality(Seats) = N
<1>1. N \in Nat /\ N >= 2 /\ Seats = 0 .. N - 1
  BY CardsAssumption DEF Seats
<1>2. IsFiniteSet(Seats) /\ Cardinality(Seats) = N
  BY <1>1, FS_Interval
<1>3. ScaleRanks \in Seq(Ranks) /\ ScaleRanks # << >>
  BY CardsAssumption
<1>4. Len(ScaleRanks) \in Nat /\ Len(ScaleRanks) >= 1
  BY <1>3
<1> QED
  BY <1>1, <1>2, <1>4 DEF JokerLevel, Levels, NoNaves

\* Those in the deal are some of N.
LEMMA InDealCounted ==
  ASSUME NEW S \in SUBSET Seats, NEW T \in SUBSET S
  PROVE  /\ IsFiniteSet(S) /\ Cardinality(S) \in 0 .. N
         /\ IsFiniteSet(T) /\ Cardinality(T) \in 0 .. Cardinality(S)
<1>1. IsFiniteSet(S) /\ Cardinality(S) \in Nat /\ Cardinality(S) <= N
  BY ScaleAndSeats, FS_Subset, FS_CardinalityType
<1>2. IsFiniteSet(T) /\ Cardinality(T) \in Nat /\ Cardinality(T) <= Cardinality(S)
  BY <1>1, FS_Subset, FS_CardinalityType
<1> QED
  BY <1>1, <1>2, ScaleAndSeats

\* A hanging: one level rises by one, and only a joker is remembered.
LEMMA HungOnKeeps ==
  ASSUME NEW d, Fair(d), d.stage = "PLAY",
         NEW victim \in d.inDeal, NEW hanger \in d.inDeal, ~IsFinished(d.level[victim])
  PROVE  LET e == HungOn(d, victim, hanger)
         IN Follows(d, e) /\ e.stage = "PLAY" /\ e.inDeal = d.inDeal /\ e.deck = d.deck
<1> DEFINE e == HungOn(d, victim, hanger)
           level == [d.level EXCEPT ![victim] = @ + 1]
           hangers == [d.jokerHanger EXCEPT ![victim] = IF NextIsJoker(d.level[victim]) THEN hanger ELSE @]
<1>1. /\ d.level \in [Seats -> Levels] /\ d.jokerHanger \in [Seats -> Seats \cup {NobodySeat}]
      /\ victim \in Seats /\ hanger \in Seats
  BY DEF Fair, Promise
<1>2. e = [d EXCEPT !.level = level, !.jokerHanger = hangers]
  BY DEF HungOn
<1>3. d.level[victim] \in Int /\ d.level[victim] < JokerLevel /\ NoNaves <= d.level[victim]
  BY <1>1, ScaleAndSeats DEF Levels, IsFinished, NoNaves
<1>4. level \in [Seats -> Levels] /\ hangers \in [Seats -> Seats \cup {NobodySeat}]
  BY <1>1, <1>3, ScaleAndSeats DEF Levels, NoNaves
<1>5. \A s \in Seats : level[s] = IF s = victim THEN d.level[s] + 1 ELSE d.level[s]
  BY <1>1
<1>6. \A s \in Seats : hangers[s] = IF s = victim /\ NextIsJoker(d.level[victim]) THEN hanger
                                    ELSE d.jokerHanger[s]
  BY <1>1
<1>7. hanger # NobodySeat
  BY <1>1, ScaleAndSeats DEF NobodySeat
<1>8. \A s \in Seats : IsFinished(level[s]) <=> hangers[s] # NobodySeat
  BY <1>3, <1>5, <1>6, <1>7, ScaleAndSeats DEF Fair, IsFinished, NextIsJoker
<1>9. \A s \in Seats : d.level[s] <= level[s]
  BY <1>1, <1>5, ScaleAndSeats
<1> HIDE DEF level, hangers
<1>10. /\ e \in Promise /\ e.level = level /\ e.jokerHanger = hangers /\ e.stage = "PLAY"
       /\ e.inDeal = d.inDeal /\ e.deck = d.deck /\ e.exitPlace = d.exitPlace
  BY <1>2, <1>4 DEF Fair, Promise
<1> QED
  BY <1>8, <1>9, <1>10 DEF Follows, Fair

\* Players leave: each gets a place, and somebody is left.
LEMMA LeftKeeps ==
  ASSUME NEW d, Fair(d), d.stage = "PLAY",
         NEW S \in SUBSET d.inDeal, S # {}, S # d.inDeal, NEW e \in Left(d, S)
  PROVE  Follows(d, e)
<1>1. d \in Promise /\ d.inDeal \in SUBSET Seats /\ d.exitPlace \in [Seats -> 0 .. N]
  BY DEF Fair, Promise
<1> DEFINE stay == d.inDeal \ S
<1>2. /\ stay \in SUBSET Seats /\ stay # {} /\ Cardinality(stay) \in Nat /\ Cardinality(stay) # 0
      /\ Cardinality(d.inDeal) \in 0 .. N /\ Cardinality(S) \in 0 .. Cardinality(d.inDeal)
  <2>1. stay \in SUBSET Seats /\ stay # {}
    BY <1>1
  <2>2. IsFiniteSet(stay) /\ Cardinality(stay) \in 0 .. N
    BY <2>1, InDealCounted
  <2>3. Cardinality(stay) # 0
    BY <2>1, <2>2, FS_EmptySet
  <2>4. Cardinality(d.inDeal) \in 0 .. N /\ Cardinality(S) \in 0 .. Cardinality(d.inDeal)
    BY <1>1, InDealCounted
  <2> QED
    BY <2>1, <2>2, <2>3, <2>4, ScaleAndSeats
<1>3. PICK f \in Exits(d, S) :
        \/ Cardinality(stay) > 1 /\ e = [d EXCEPT !.inDeal = stay, !.exitPlace = f]
        \/ /\ ~(Cardinality(stay) > 1)
           /\ \E k \in EightsSeen :
                e = [[d EXCEPT !.inDeal = stay, !.exitPlace = f] EXCEPT !.stage = "OVER", !.eights = k]
  <2>1. \A o \in Gone(d, S) : \E f \in Exits(d, S) : o = [d EXCEPT !.inDeal = stay, !.exitPlace = f]
    BY DEF Gone
  <2>2. CASE Cardinality(stay) > 1
    <3>1. e \in Gone(d, S)
      BY <2>2 DEF Left
    <3> QED
      BY <2>1, <2>2, <3>1
  <2>3. CASE ~(Cardinality(stay) > 1)
    <3>1. e \in UNION {Over(o) : o \in Gone(d, S)}
      BY <2>3 DEF Left
    <3>2. PICK o \in Gone(d, S) : e \in Over(o)
      BY <3>1
    <3>3. PICK k \in EightsSeen : e = [o EXCEPT !.stage = "OVER", !.eights = k]
      BY <3>2 DEF Over
    <3> QED
      BY <2>1, <2>3, <3>2, <3>3
  <2> QED
    BY <2>2, <2>3
<1>4. f \in [Seats -> 0 .. N] /\ \A s \in Seats : IF s \in S THEN f[s] # 0 ELSE f[s] = d.exitPlace[s]
  <2> DEFINE out == N - Cardinality(d.inDeal)
             places == (out + 1) .. (out + Cardinality(S))
  <2>1. PICK place \in [S -> places] : f = [s \in Seats |-> IF s \in S THEN place[s] ELSE d.exitPlace[s]]
    BY <1>3 DEF Exits
  <2>2. \A p \in places : p \in 0 .. N /\ p # 0
    BY <1>2, ScaleAndSeats
  <2> HIDE DEF places
  <2> QED
    BY <1>1, <2>1, <2>2, ScaleAndSeats
<1>5. \A s \in Seats : s \in stay <=> f[s] = 0
  BY <1>1, <1>4 DEF Fair
<1>6. /\ e \in Promise /\ e.level = d.level /\ e.jokerHanger = d.jokerHanger
      /\ e.inDeal = stay /\ e.exitPlace = f
      /\ e.stage \in {"PLAY", "OVER"}
      /\ e.stage = "OVER" => ~(Cardinality(stay) > 1)
  <2> HIDE DEF stay
  <2> QED
    BY <1>1, <1>2, <1>3, <1>4 DEF Promise, Stages
<1>7. \A s \in Seats : d.level[s] <= e.level[s]
  BY <1>1, <1>6, ScaleAndSeats DEF Promise
<1>8. e.stage = "OVER" => Cardinality(e.inDeal) = 1
  BY <1>2, <1>6
<1> HIDE DEF stay
<1> QED
  BY <1>2, <1>5, <1>6, <1>7, <1>8 DEF Follows, Fair

\* The end of a round with the deck running out, players leaving, or neither.
LEMMA RoundEndsKeeps ==
  ASSUME NEW d, Fair(d), d.stage = "PLAY", NEW stay, NEW e \in RoundEnds(d, stay)
  PROVE  Follows(d, e)
<1>1. d \in Promise /\ d.level \in [Seats -> Levels]
  BY DEF Fair, Promise
<1>2. CASE e = d
  BY <1>1, <1>2, ScaleAndSeats DEF Follows
<1>3. CASE e \in RunsOut(d)
  <2>1. PICK stage \in {"PLAY", "SUIT"} : e = [d EXCEPT !.deck = FALSE, !.stage = stage]
    BY <1>3 DEF RunsOut
  <2>2. /\ e \in Promise /\ e.level = d.level /\ e.jokerHanger = d.jokerHanger /\ e.inDeal = d.inDeal
        /\ e.exitPlace = d.exitPlace /\ e.stage \in {"PLAY", "SUIT"}
    BY <1>1, <2>1 DEF Promise, Stages
  <2> QED
    BY <1>1, <2>2, ScaleAndSeats DEF Follows, Fair
<1>4. CASE e \in Leaving(d, stay)
  <2>1. PICK S \in SUBSET (d.inDeal \ stay) : S # {} /\ S # d.inDeal /\ e \in Left(d, S)
    BY <1>4 DEF Leaving
  <2> QED
    BY <2>1, LeftKeeps
<1> QED
  BY <1>2, <1>3, <1>4 DEF RoundEnds

\* Everything a deal promises is fair.
LEMMA NextPromisesKeeps ==
  ASSUME NEW d, Fair(d), NEW e \in NextPromises(d)
  PROVE  Follows(d, e)
<1>1. d \in Promise /\ d.level \in [Seats -> Levels]
  BY DEF Fair, Promise
<1>2. CASE d.stage = "PLAY" /\ e \in Rounds(d)
  <2>1. CASE e \in RoundEnds(d, {})
    BY <1>2, <2>1, RoundEndsKeeps
  <2>2. ASSUME NEW victim \in d.inDeal, NEW hanger \in d.inDeal, ~IsFinished(d.level[victim]),
               e \in RoundEnds(HungOn(d, victim, hanger), {victim})
        PROVE  Follows(d, e)
    <3> DEFINE h == HungOn(d, victim, hanger)
    <3>1. Follows(d, h) /\ h.stage = "PLAY"
      BY <1>2, <2>2, HungOnKeeps
    <3> HIDE DEF h
    <3>2. Follows(h, e)
      BY <2>2, <3>1, RoundEndsKeeps DEF Follows, h
    <3>3. h.level \in [Seats -> Levels] /\ e.level \in [Seats -> Levels]
      BY <3>1, <3>2 DEF Follows, Fair, Promise
    <3> QED
      BY <1>1, <3>1, <3>2, <3>3, ScaleAndSeats DEF Follows
  <2>3. CASE e \in UNION {Hangings(d, victim) : victim \in {s \in d.inDeal : ~IsFinished(d.level[s])}}
    <3>1. PICK victim \in d.inDeal : ~IsFinished(d.level[victim]) /\ e \in Hangings(d, victim)
      BY <2>3
    <3>2. PICK hanger \in d.inDeal : e \in RoundEnds(HungOn(d, victim, hanger), {victim})
      BY <3>1 DEF Hangings
    <3> QED
      BY <2>2, <3>1, <3>2
  <2> QED
    BY <1>2, <2>1, <2>3 DEF Rounds
<1>3. CASE d.stage \in {"DICE", "SUIT"} /\ e = Named(d)
  <2>1. /\ e \in Promise /\ e.level = d.level /\ e.jokerHanger = d.jokerHanger /\ e.inDeal = d.inDeal
        /\ e.exitPlace = d.exitPlace /\ e.stage = "PLAY"
    BY <1>1, <1>3 DEF Promise, Stages, Named
  <2> QED
    BY <1>1, <2>1, ScaleAndSeats DEF Follows, Fair
<1> QED
  BY <1>1, <1>2, <1>3 DEF NextPromises, Promise, Stages

-----------------------------------------------------------------------------
\* Scoring.

\* The four passes count with integers; a reward takes off one step per opponent.
LEMMA PassesAreInts ==
  ASSUME NEW d, Fair(d), NEW s \in Seats
  PROVE  /\ d.level[s] \in Levels /\ d.exitPlace[s] \in 0 .. N
         /\ LostDeal(d, s) \in {0, 1} /\ FirstOut(d, s) \in {-1, 0}
         /\ Shifted(d, s) \in Int
         /\ Reward(d, s) \in Int /\ Reward(d, s) <= 0
         /\ Raw(d, s) \in Int /\ Raw(d, s) <= Shifted(d, s)
         /\ ClampToScale(Raw(d, s)) \in Levels
         /\ IsFinished(ClampToScale(Raw(d, s))) <=> Raw(d, s) >= JokerLevel
<1>1. d.level[s] \in Levels /\ d.exitPlace[s] \in 0 .. N
  BY DEF Fair, Promise
<1>2. LostDeal(d, s) \in {0, 1} /\ FirstOut(d, s) \in {-1, 0}
  BY DEF LostDeal, FirstOut
<1>3. Shifted(d, s) \in Int
  BY <1>1, <1>2, ScaleAndSeats DEF Shifted
<1>4. Reward(d, s) \in Int /\ Reward(d, s) <= 0
  <2> DEFINE L == {l \in GameLosers(d) : d.jokerHanger[l] = s}
  <2>1. L \in SUBSET Seats
    BY DEF GameLosers
  <2>2. Cardinality(L) \in Nat
    BY <2>1, ScaleAndSeats, FS_Subset, FS_CardinalityType
  <2> HIDE DEF L
  <2>3. Reward(d, s) = -Cardinality(L)
    BY DEF Reward, L
  <2> QED
    BY <2>2, <2>3
<1>5. Raw(d, s) \in Int /\ Raw(d, s) <= Shifted(d, s)
  BY <1>3, <1>4 DEF Raw
<1>6. /\ ClampToScale(Raw(d, s)) \in Levels
      /\ IsFinished(ClampToScale(Raw(d, s))) <=> Raw(d, s) >= JokerLevel
  BY <1>5, ScaleAndSeats DEF ClampToScale, Levels, IsFinished, NoNaves
<1> QED
  BY <1>1, <1>2, <1>3, <1>4, <1>5, <1>6

\* Who has no degree is below the joker, and who has one is at it.
LEMMA DegreeTells ==
  ASSUME NEW d, Fair(d), NEW s \in Seats
  PROVE  Score(d)[s].degree # "NONE" <=> IsFinished(Score(d)[s].levelAfter)
<1>1. Score(d)[s].degree = Degree(d, s) /\ Score(d)[s].levelAfter = ClampToScale(Raw(d, s))
  BY DEF Score
<1>2. DegreeFor(d, s) # "NONE"
  BY DEF DegreeFor
<1>3. IsFinished(ClampToScale(Raw(d, s))) => s \in GameLosers(d)
  BY PassesAreInts, ScaleAndSeats DEF GameLosers, IsFinished
<1> QED
  BY <1>1, <1>2, <1>3 DEF Degree

\* The loser of the deal is the one who is left.
LEMMA LoserIsLeft ==
  ASSUME NEW d, Fair(d), d.stage = "OVER"
  PROVE  DealLoser(d) \in Seats /\ d.inDeal = {DealLoser(d)}
<1>1. IsFiniteSet(d.inDeal) /\ Cardinality(d.inDeal) = 1
  BY InDealCounted DEF Fair, Promise
<1>2. PICK u \in d.inDeal : d.inDeal = {u}
  BY <1>1, FS_Singleton
<1>3. u \in Seats /\ u \in Nat
  BY ScaleAndSeats DEF Fair, Promise
<1>4. DealLoser(d) = u
  BY <1>2, <1>3 DEF DealLoser
<1> QED
  BY <1>2, <1>3, <1>4

\* A loser was lifted to the joker and not taken off it: he did not leave first, and has had the
\* joker hung on him or lost the deal one step below it.
LEMMA LoserEarnedIt ==
  ASSUME NEW d, Fair(d), d.stage = "OVER", NEW s \in Losers(Score(d))
  PROVE  /\ Score(d)[s].levelAfter = JokerLevel
         /\ \/ d.jokerHanger[s] # NobodySeat
            \/ s \in d.inDeal /\ NextIsJoker(Score(d)[s].levelBefore)
         /\ Score(d)[s].place # 1
<1>1. s \in Seats /\ Score(d)[s].degree # "NONE"
  BY DEF Losers
<1>2. Raw(d, s) >= JokerLevel /\ Score(d)[s].levelAfter \in Levels /\ IsFinished(Score(d)[s].levelAfter)
  BY <1>1, DegreeTells, PassesAreInts DEF Score
<1>3. Shifted(d, s) >= JokerLevel
  BY <1>1, <1>2, PassesAreInts, ScaleAndSeats
<1>4. /\ Score(d)[s].levelBefore = d.level[s] /\ Score(d)[s].place = PlaceOf(d, s)
      /\ d.level[s] <= JokerLevel
  BY <1>1, PassesAreInts, ScaleAndSeats DEF Score
<1>5. LostDeal(d, s) = 1 => s \in d.inDeal
  BY LoserIsLeft DEF LostDeal
<1>6. d.exitPlace[s] # 1
  <2> SUFFICES ASSUME d.exitPlace[s] = 1  PROVE FALSE
    OBVIOUS
  <2>1. s \notin d.inDeal
    BY <1>1 DEF Fair
  <2>2. LostDeal(d, s) = 0 /\ FirstOut(d, s) = -1
    BY <1>1, <1>5, <2>1, PassesAreInts DEF FirstOut
  <2> QED
    BY <1>1, <1>3, <1>4, <2>2, PassesAreInts, ScaleAndSeats DEF Shifted
<1>7. Score(d)[s].place # 1
  BY <1>4, <1>6, ScaleAndSeats DEF PlaceOf
<1>8. \/ d.jokerHanger[s] # NobodySeat
      \/ s \in d.inDeal /\ NextIsJoker(Score(d)[s].levelBefore)
  <2> SUFFICES ASSUME d.jokerHanger[s] = NobodySeat
               PROVE  s \in d.inDeal /\ NextIsJoker(d.level[s])
    BY <1>4
  <2>1. d.level[s] < JokerLevel
    BY <1>1, PassesAreInts, ScaleAndSeats DEF Fair, IsFinished
  <2>2. LostDeal(d, s) = 1 /\ d.level[s] + 1 = JokerLevel
    BY <1>1, <1>3, <2>1, PassesAreInts, ScaleAndSeats DEF Shifted
  <2> QED
    BY <1>5, <2>2 DEF NextIsJoker
<1>9. Score(d)[s].levelAfter = JokerLevel
  BY <1>2, ScaleAndSeats DEF IsFinished
<1> QED
  BY <1>7, <1>8, <1>9

\* A loser who has finished an opponent off has lost the deal, too, one step too many for the
\* reward; or that opponent left first and was not finished off after all.
LEMMA LoserFinishedNobody ==
  ASSUME NEW d, Fair(d), d.stage = "OVER", NEW s \in Losers(Score(d)),
         NEW t \in Seats, d.jokerHanger[t] = s
  PROVE  \/ Score(d)[t].place = 1
         \/ /\ s \in d.inDeal /\ d.jokerHanger[s] # NobodySeat
            /\ Score(d)[s].changes.FINISHED_OPPONENT = -1
<1>1. s \in Seats /\ Score(d)[s].degree # "NONE"
  BY DEF Losers
<1>2. Raw(d, s) >= JokerLevel
  BY <1>1, DegreeTells, PassesAreInts DEF Score
<1>3. s # NobodySeat
  BY <1>1, ScaleAndSeats DEF NobodySeat
<1>4. d.level[t] = JokerLevel
  BY <1>3, PassesAreInts, ScaleAndSeats DEF Fair, IsFinished
<1>5. CASE t \in GameLosers(d)
  <2> DEFINE L == {l \in GameLosers(d) : d.jokerHanger[l] = s}
  <2>1. t \in L /\ L \in SUBSET Seats
    BY <1>5 DEF GameLosers
  <2>2. IsFiniteSet(L) /\ Cardinality(L) \in Nat
    BY <2>1, ScaleAndSeats, FS_Subset, FS_CardinalityType
  <2>3. Cardinality(L) # 0
    BY <2>1, <2>2, FS_EmptySet
  <2> HIDE DEF L
  <2>4. Reward(d, s) = -Cardinality(L)
    BY DEF Reward, L
  <2>5. Reward(d, s) <= -1
    BY <2>2, <2>3, <2>4
  <2>6. LostDeal(d, s) = 1 /\ Reward(d, s) = -1
    BY <1>1, <1>2, <2>5, PassesAreInts, ScaleAndSeats DEF Raw, Shifted
  <2>7. s \in d.inDeal
    BY <2>6, LoserIsLeft DEF LostDeal
  <2>8. FirstOut(d, s) = 0
    BY <1>1, <2>7 DEF FirstOut, Fair
  <2>9. d.level[s] >= JokerLevel
    BY <1>1, <1>2, <2>6, <2>8, PassesAreInts, ScaleAndSeats DEF Raw, Shifted
  <2>10. d.jokerHanger[s] # NobodySeat
    BY <1>1, <2>9 DEF Fair, IsFinished
  <2> QED
    BY <1>1, <2>6, <2>7, <2>10 DEF Score, Changes
<1>6. CASE t \notin GameLosers(d)
  <2>1. ~(Shifted(d, t) >= JokerLevel)
    BY <1>6 DEF GameLosers, IsFinished
  <2>2. FirstOut(d, t) = -1
    BY <1>4, <2>1, PassesAreInts, ScaleAndSeats DEF Shifted
  <2>3. d.exitPlace[t] = 1
    BY <2>2 DEF FirstOut
  <2> QED
    BY <2>3 DEF Score, PlaceOf
<1> QED
  BY <1>5, <1>6

\* The degree of the loser of the deal is the heaviest: everybody else just fails.
LEMMA MainLoserIsLeft ==
  ASSUME NEW d, Fair(d), d.stage = "OVER", d.inDeal \cap Losers(Score(d)) # {}
  PROVE  MainLoser(Score(d)) \in d.inDeal
<1> DEFINE o == Score(d)
           u == DealLoser(d)
<1>1. u \in Losers(o) /\ u \in Seats
  BY LoserIsLeft
<1>2. \A s \in Losers(o) : s \in Seats /\ o[s].degree = DegreeFor(d, s)
  BY DEF Losers, Score, Degree
<1>3. \A s \in Losers(o) : s # u => Weight(o[s].degree) = 5
  BY <1>2 DEF DegreeFor, Weight
<1>4. Weight(o[u].degree) \in {1, 2, 3, 4}
  BY <1>1, <1>2 DEF DegreeFor, Weight
<1> HIDE DEF o, u
<1>5. \A t \in Losers(o) : \/ Weight(o[u].degree) < Weight(o[t].degree)
                           \/ Weight(o[u].degree) = Weight(o[t].degree) /\ u <= t
  <2> TAKE t \in Losers(o)
  <2>1. CASE t = u
    BY <1>1, <2>1, ScaleAndSeats
  <2>2. CASE t # u
    BY <1>3, <1>4, <2>2
  <2> QED
    BY <2>1, <2>2
<1>6. \A s \in Losers(o) :
        (\A t \in Losers(o) : \/ Weight(o[s].degree) < Weight(o[t].degree)
                              \/ Weight(o[s].degree) = Weight(o[t].degree) /\ s <= t) => s = u
  BY <1>1, <1>3, <1>4
<1>7. MainLoser(o) = u
  BY <1>1, <1>5, <1>6 DEF MainLoser
<1> QED
  BY <1>7, LoserIsLeft DEF o, u

\* The summands of a shift give the shift.
LEMMA SummandsAddUp ==
  ASSUME NEW d, Fair(d), NEW s \in Seats
  PROVE  Shift(Score(d), s) = Score(d)[s].changes.LOST_DEAL + Score(d)[s].changes.FIRST_OUT
                              + Score(d)[s].changes.FINISHED_OPPONENT + Score(d)[s].changes.SCALE_LIMIT
<1>1. /\ Score(d)[s].changes = Changes(d, s) /\ Score(d)[s].levelBefore = d.level[s]
      /\ Score(d)[s].levelAfter = ClampToScale(Raw(d, s))
  BY DEF Score
<1>2. /\ d.level[s] \in Int /\ LostDeal(d, s) \in Int /\ FirstOut(d, s) \in Int
      /\ Reward(d, s) \in Int /\ ClampToScale(Raw(d, s)) \in Int
  BY PassesAreInts, ScaleAndSeats
<1> QED
  BY <1>1, <1>2 DEF Shift, Changes, Raw, Shifted

-----------------------------------------------------------------------------
\* The match.

\* The type of the score of a deal.
Outcome ==
  [Seats -> [levelBefore : Levels, levelAfter : Levels, degree : Degrees, place : Int,
             changes : [LOST_DEAL : Int, FIRST_OUT : Int, FINISHED_OPPONENT : Int, SCALE_LIMIT : Int]]]

\* A match that goes on begins its deals with nobody finished, and before the first move the
\* levels of the deal are those of the match; a match that is over has the score of its last deal.
MatchInv ==
  /\ match \in [phase : {"IN_DEAL", "MATCH_OVER"}, levels : [Seats -> Levels], dealNo : Nat,
                deal : Promise, results : Seq(Outcome)]
  /\ Fair(match.deal)
  /\ match.phase = "IN_DEAL" =>
       /\ \A s \in Seats : ~IsFinished(match.levels[s])
       /\ match.deal.stage = "DICE" => match.deal.level = match.levels
  /\ match.phase = "MATCH_OVER" =>
       /\ match.deal.stage = "OVER"
       /\ Len(match.results) \in Nat
       /\ match.results[Len(match.results)] = Score(match.deal)
       /\ Losers(Score(match.deal)) # {}
       /\ match.levels = [s \in Seats |-> Score(match.deal)[s].levelAfter]

\* A deal that begins is fair if nobody is finished.
LEMMA FreshIsFair ==
  ASSUME NEW levels \in [Seats -> Levels], \A s \in Seats : ~IsFinished(levels[s]),
         NEW d \in Fresh(levels)
  PROVE  Fair(d) /\ d \in Promise /\ d.level = levels
<1>1. PICK stage \in {"DICE", "PLAY"} :
        d = [stage |-> stage, level |-> levels, jokerHanger |-> [s \in Seats |-> NobodySeat],
             inDeal |-> Seats, exitPlace |-> [s \in Seats |-> 0], deck |-> TRUE, eights |-> "NONE"]
  BY DEF Fresh
<1>2. d \in Promise
  BY <1>1, ScaleAndSeats DEF Promise, Stages, EightsSeen
<1>3. d.inDeal # {}
  <2>1. 0 \in Seats
    BY CardsAssumption DEF Seats
  <2> QED
    BY <1>1, <2>1
<1> QED
  BY <1>1, <1>2, <1>3 DEF Fair

\* The score of a deal is an outcome.
LEMMA ScoreIsOutcome ==
  ASSUME NEW d, Fair(d)
  PROVE  Score(d) \in Outcome
<1> SUFFICES ASSUME NEW s \in Seats
             PROVE  [levelBefore |-> d.level[s], levelAfter |-> ClampToScale(Raw(d, s)),
                     degree |-> Degree(d, s), place |-> PlaceOf(d, s), changes |-> Changes(d, s)]
                    \in [levelBefore : Levels, levelAfter : Levels, degree : Degrees, place : Int,
                         changes : [LOST_DEAL : Int, FIRST_OUT : Int, FINISHED_OPPONENT : Int, SCALE_LIMIT : Int]]
  BY DEF Score, Outcome
<1>1. Changes(d, s) \in [LOST_DEAL : Int, FIRST_OUT : Int, FINISHED_OPPONENT : Int, SCALE_LIMIT : Int]
  BY PassesAreInts, ScaleAndSeats DEF Changes
<1>2. PlaceOf(d, s) \in Int
  BY PassesAreInts, ScaleAndSeats DEF PlaceOf
<1>3. Degree(d, s) \in Degrees
  BY DEF Degree, DegreeFor, Degrees
<1> QED
  BY <1>1, <1>2, <1>3, PassesAreInts

\* The end of a deal: the match is over, or the next deal begins below the joker.
LEMMA EndDealKeeps ==
  ASSUME MatchInv, match.phase = "IN_DEAL", NEW deal, Fair(deal), EndDeal(deal)
  PROVE  MatchInv'
<1> DEFINE outcome == Score(deal)
           levels  == [s \in Seats |-> outcome[s].levelAfter]
           scored  == [match EXCEPT !.levels = levels, !.deal = deal, !.results = Append(@, outcome)]
<1>1. deal.stage = "OVER" /\ match' \in AfterScore(deal, outcome)
  BY DEF EndDeal, CloseDeal
<1>2. outcome \in Outcome /\ deal \in Promise
  BY ScoreIsOutcome DEF Fair
<1>3. \A s \in Seats : outcome[s].levelAfter \in Levels
  BY PassesAreInts DEF Score
<1>4. levels \in [Seats -> Levels]
  BY <1>3
<1>5. /\ Append(match.results, outcome) \in Seq(Outcome)
      /\ Len(Append(match.results, outcome)) \in Nat
      /\ Append(match.results, outcome)[Len(Append(match.results, outcome))] = outcome
  <2>1. match.results \in Seq(Outcome)
    BY DEF MatchInv
  <2> HIDE DEF outcome
  <2> QED
    BY <1>2, <2>1
<1> HIDE DEF outcome, levels
<1>6. /\ scored \in [phase : {"IN_DEAL", "MATCH_OVER"}, levels : [Seats -> Levels], dealNo : Nat,
                     deal : Promise, results : Seq(Outcome)]
      /\ scored.phase = "IN_DEAL" /\ scored.levels = levels /\ scored.deal = deal
      /\ scored.results = Append(match.results, outcome)
      /\ scored.dealNo \in Nat
  BY <1>2, <1>4, <1>5 DEF MatchInv
<1>7. match' \in IF IsMatchOver(outcome) THEN {[scored EXCEPT !.phase = "MATCH_OVER"]}
                 ELSE {[scored EXCEPT !.dealNo = @ + 1, !.deal = next] : next \in Fresh(levels)}
  BY <1>1 DEF AfterScore, levels
<1> HIDE DEF scored
<1>8. CASE IsMatchOver(outcome)
  <2>1. match' = [scored EXCEPT !.phase = "MATCH_OVER"]
    BY <1>7, <1>8
  <2>2. /\ match' \in [phase : {"IN_DEAL", "MATCH_OVER"}, levels : [Seats -> Levels], dealNo : Nat,
                       deal : Promise, results : Seq(Outcome)]
        /\ match'.phase = "MATCH_OVER" /\ match'.deal = deal /\ match'.levels = levels
        /\ match'.results = Append(match.results, outcome)
    BY <1>6, <2>1
  <2>3. Losers(outcome) # {}
    BY <1>8 DEF IsMatchOver
  <2>4. Fair(match.deal)'
    BY <2>2 DEF Fair
  <2> QED
    BY <1>1, <1>5, <2>2, <2>3, <2>4 DEF MatchInv, levels, outcome
<1>9. CASE ~IsMatchOver(outcome)
  <2>1. PICK next \in Fresh(levels) : match' = [scored EXCEPT !.dealNo = @ + 1, !.deal = next]
    BY <1>7, <1>9
  <2>2. \A s \in Seats : ~IsFinished(levels[s])
    <3>1. \A s \in Seats : outcome[s].degree = "NONE"
      BY <1>9 DEF IsMatchOver, Losers
    <3> QED
      BY <3>1, DegreeTells DEF levels, outcome
  <2>3. Fair(next) /\ next \in Promise /\ next.level = levels
    BY <1>4, <2>2, FreshIsFair
  <2>4. /\ match' \in [phase : {"IN_DEAL", "MATCH_OVER"}, levels : [Seats -> Levels], dealNo : Nat,
                       deal : Promise, results : Seq(Outcome)]
        /\ match'.phase = "IN_DEAL" /\ match'.deal = next /\ match'.levels = levels
    <3> DEFINE no == scored.dealNo + 1
    <3>1. match' = [scored EXCEPT !.dealNo = no, !.deal = next]
      BY <2>1
    <3>2. no \in Nat
      BY <1>6
    <3> HIDE DEF no
    <3> QED
      BY <1>6, <2>3, <3>1, <3>2
  <2>5. Fair(match.deal)'
    BY <2>3, <2>4 DEF Fair
  <2> QED
    BY <2>2, <2>3, <2>4, <2>5 DEF MatchInv
<1> QED
  BY <1>8, <1>9

\* A new deal from the levels of the match, or a move of the same deal.
LEMMA DealChangeKeeps ==
  ASSUME MatchInv, match.phase = "IN_DEAL", NEW deal, Fair(deal),
         deal.stage = "DICE" => deal.level = match.levels,
         match' = [match EXCEPT !.deal = deal]
  PROVE  MatchInv'
<1>1. deal \in Promise
  BY DEF Fair
<1>2. /\ match' \in [phase : {"IN_DEAL", "MATCH_OVER"}, levels : [Seats -> Levels], dealNo : Nat,
                     deal : Promise, results : Seq(Outcome)]
      /\ match'.phase = "IN_DEAL" /\ match'.levels = match.levels /\ match'.deal = deal
  BY <1>1 DEF MatchInv
<1>3. Fair(match.deal)'
  BY <1>2 DEF Fair
<1> QED
  BY <1>2, <1>3 DEF MatchInv

\* The inductive invariant of a match: what a deal promises is enough for it (MatchEngine.Apply).
THEOREM MatchInvariant == MatchSpec => []MatchInv
<1>1. MatchInit => MatchInv
  <2> SUFFICES ASSUME MatchInit  PROVE MatchInv
    OBVIOUS
  <2> DEFINE levels == [s \in Seats |-> NoNaves]
  <2>1. levels \in [Seats -> Levels] /\ \A s \in Seats : ~IsFinished(levels[s])
    BY ScaleAndSeats DEF Levels, NoNaves, IsFinished
  <2>2. PICK deal \in Fresh(levels) :
          match = [phase |-> "IN_DEAL", levels |-> levels, dealNo |-> 1, deal |-> deal, results |-> << >>]
    BY DEF MatchInit
  <2> HIDE DEF levels
  <2>3. Fair(deal) /\ deal \in Promise /\ deal.level = levels
    BY <2>1, FreshIsFair
  <2>4. << >> \in Seq(Outcome)
    OBVIOUS
  <2> QED
    BY <2>1, <2>2, <2>3, <2>4 DEF MatchInv
<1>2. MatchInv /\ [MatchNext]_match => MatchInv'
  <2> SUFFICES ASSUME MatchInv, [MatchNext]_match  PROVE MatchInv'
    OBVIOUS
  <2>1. ASSUME InDeal, NEW deal \in NextPromises(match.deal), PlayOn(deal) \/ EndDeal(deal)
        PROVE  MatchInv'
    <3>1. match.phase = "IN_DEAL" /\ Follows(match.deal, deal)
      BY <2>1, NextPromisesKeeps DEF InDeal, MatchInv
    <3> QED
      BY <2>1, <3>1, EndDealKeeps, DealChangeKeeps DEF PlayOn, Follows
  <2>2. CASE Reshuffle
    <3>1. match.phase = "IN_DEAL"
      BY <2>2 DEF Reshuffle, InDeal
    <3>2. PICK deal \in Fresh(match.levels) : match' = [match EXCEPT !.deal = deal]
      BY <2>2 DEF Reshuffle
    <3>3. Fair(deal) /\ deal.level = match.levels
      BY <3>1, FreshIsFair DEF MatchInv
    <3> QED
      BY <3>1, <3>2, <3>3, DealChangeKeeps
  <2>3. CASE UNCHANGED match
    BY <2>3 DEF MatchInv, Fair
  <2> QED
    BY <2>1, <2>2, <2>3 DEF MatchNext
<1> QED
  BY <1>1, <1>2, PTL DEF MatchSpec

\* After the four passes whoever is still at the top of the scale has lost the game, so that no
\* deal begins with a player who is finished (MatchEngine.closeDeal).
THEOREM NobodyStartsFinishedEver == MatchSpec => []NobodyStartsFinished
<1>1. MatchInv => NobodyStartsFinished
  BY DEF MatchInv, NobodyStartsFinished
<1> QED
  BY <1>1, MatchInvariant, PTL

\* Who loses the game was lifted to the joker by a hanging or by losing the deal, and no reward
\* took him off it again: he earned none, or the one he earned was used up by the step beyond
\* the joker of the deal he lost (DealScoring.Score).
THEOREM LosersDeserveItAlways == MatchSpec => []LosersDeserveIt
<1>1. MatchInv => LosersDeserveIt
  <2> SUFFICES ASSUME MatchInv, match.phase = "MATCH_OVER"  PROVE LosersDeserveIt
    BY DEF LosersDeserveIt
  <2> DEFINE d == match.deal
             o == match.results[Len(match.results)]
  <2>1. o = Score(d) /\ Losers(o) # {} /\ Fair(d) /\ d.stage = "OVER"
    BY DEF MatchInv
  <2>2. \A s \in Seats : match.levels[s] = Score(d)[s].levelAfter
    BY DEF MatchInv
  <2>3. Losers(o) \subseteq Seats
    BY DEF Losers
  <2> HIDE DEF d, o
  <2>4. \A s \in Losers(o) :
          /\ match.levels[s] = JokerLevel
          /\ d.jokerHanger[s] # NobodySeat \/ (s \in d.inDeal /\ NextIsJoker(o[s].levelBefore))
          /\ o[s].place # 1
    BY <2>1, <2>2, <2>3, LoserEarnedIt
  <2>5. \A s \in Losers(o), t \in Seats :
          d.jokerHanger[t] = s => \/ o[t].place = 1
                                  \/ /\ s \in d.inDeal /\ d.jokerHanger[s] # NobodySeat
                                     /\ o[s].changes.FINISHED_OPPONENT = -1
    BY <2>1, LoserFinishedNobody
  <2>6. d.inDeal \cap Losers(o) # {} => MainLoser(o) \in d.inDeal
    BY <2>1, MainLoserIsLeft
  <2>7. \A s \in Seats : Shift(o, s) = o[s].changes.LOST_DEAL + o[s].changes.FIRST_OUT
                                       + o[s].changes.FINISHED_OPPONENT + o[s].changes.SCALE_LIMIT
    BY <2>1, SummandsAddUp
  <2> QED
    BY <2>1, <2>4, <2>5, <2>6, <2>7 DEF LosersDeserveIt, d, o
<1> QED
  BY <1>1, MatchInvariant, PTL

\* Within a deal levels only rise, unless a suit named for the hidden joker has the deal dealt
\* anew: before the first move the levels of the deal are still those of the match.
THEOREM HungLevelsAreKeptAlways == MatchSpec => HungLevelsAreKept
<1> DEFINE A == \A s \in Seats :
                  match'.dealNo = match.dealNo /\ match'.phase = "IN_DEAL"
                    /\ match'.deal.level[s] < match.deal.level[s] => match.deal.stage = "SUIT"
<1>1. MatchInv /\ [MatchNext]_match => [A]_match
  <2> SUFFICES ASSUME MatchInv, MatchNext  PROVE A
    OBVIOUS
  <2>0. /\ match.deal \in Promise /\ match.deal.level \in [Seats -> Levels] /\ match.dealNo \in Nat
        /\ \A s \in Seats : ~(match.deal.level[s] < match.deal.level[s])
    BY ScaleAndSeats DEF MatchInv, Promise
  <2>1. ASSUME NEW deal \in NextPromises(match.deal), PlayOn(deal)  PROVE A
    <3>1. Follows(match.deal, deal)
      BY <2>1, NextPromisesKeeps DEF MatchInv
    <3>2. match'.deal = deal
      BY <2>1 DEF PlayOn, MatchInv
    <3>3. \A s \in Seats : deal.level[s] \in Int /\ match.deal.level[s] \in Int
      BY <2>0, <3>1, ScaleAndSeats DEF Follows, Fair, Promise
    <3> QED
      BY <3>1, <3>2, <3>3 DEF Follows
  <2>2. ASSUME NEW deal \in NextPromises(match.deal), EndDeal(deal)  PROVE A
    <3>1. match' \in AfterScore(deal, Score(deal))
      BY <2>2 DEF EndDeal, CloseDeal
    <3>2. match'.phase = "MATCH_OVER" \/ match'.dealNo = match.dealNo + 1
      BY <3>1 DEF AfterScore, MatchInv
    <3> QED
      BY <2>0, <3>2
  <2>3. CASE Reshuffle
    <3>1. match.phase = "IN_DEAL" /\ match.deal.stage \in {"DICE", "SUIT"}
      BY <2>3 DEF Reshuffle, InDeal, TrumpChosenBy
    <3>2. PICK deal \in Fresh(match.levels) : match' = [match EXCEPT !.deal = deal]
      BY <2>3 DEF Reshuffle
    <3>3. deal.level = match.levels
      BY <3>1, <3>2, FreshIsFair DEF MatchInv
    <3>4. match'.deal = deal
      BY <3>2 DEF MatchInv
    <3>5. CASE match.deal.stage = "DICE"
      BY <2>0, <3>1, <3>3, <3>4, <3>5 DEF MatchInv
    <3> QED
      BY <3>1, <3>5
  <2> QED
    BY <2>1, <2>2, <2>3 DEF MatchNext
<1> QED
  BY <1>1, MatchInvariant, PTL DEF MatchSpec, HungLevelsAreKept

-----------------------------------------------------------------------------
(* The results. *)

\* The games that may have been played.
Game ==
  {g \in [kind : {"ONLINE", "OFFLINE", "IMPORT"}, seats : LineUps, ending : Endings, when : {0, 1}] :
     /\ Len(g.seats) = Len(g.ending)
     /\ g.kind = "ONLINE" => PlayedOnline(g.ending) /\ g.when = 1}

\* What is known of a game: who played it, seat by seat, and how it ended for each of them.
LEMMA GamesAreSane ==
  ASSUME NEW g \in Game
  PROVE  /\ g.seats \in Seq(Users) /\ g.ending \in Seq([level : Levels, degree : Degrees])
         /\ DOMAIN g.seats = 1..Len(g.seats) /\ DOMAIN g.ending = DOMAIN g.seats
         /\ Len(g.seats) \in Nat
         /\ \A i, j \in DOMAIN g.seats : g.seats[i] = g.seats[j] => i = j
         /\ \A i \in DOMAIN g.seats : /\ g.seats[i] \in Users
                                      /\ g.ending[i].level \in Levels /\ g.ending[i].degree \in Degrees
<1>1. /\ g.seats \in LineUps /\ g.ending \in Endings /\ Len(g.seats) = Len(g.ending)
  BY DEF Game
<1>2. /\ g.seats \in Seq(Users) /\ g.ending \in Seq([level : Levels, degree : Degrees])
      /\ \A i, j \in DOMAIN g.seats : g.seats[i] = g.seats[j] => i = j
  BY <1>1, RatingsAssumption
<1>3. DOMAIN g.seats = 1..Len(g.seats) /\ DOMAIN g.ending = 1..Len(g.seats) /\ Len(g.seats) \in Nat
  BY <1>1, <1>2
<1>4. ASSUME NEW i \in DOMAIN g.seats
      PROVE  /\ g.seats[i] \in Users
             /\ g.ending[i].level \in Levels /\ g.ending[i].degree \in Degrees
  <2>1. g.seats[i] \in Users /\ i \in DOMAIN g.ending
    BY <1>2, <1>3
  <2>2. g.ending[i] \in [level : Levels, degree : Degrees]
    <3> DEFINE R == [level : Levels, degree : Degrees]
    <3>1. g.ending \in Seq(R)
      BY <1>2
    <3> HIDE DEF R
    <3>2. g.ending[i] \in R
      BY <2>1, <3>1
    <3> QED
      BY <3>2 DEF R
  <2> QED
    BY <2>1, <2>2
<1> QED
  BY <1>2, <1>3, <1>4

\* The ranks of the scale ascend, and the joker is above them.
LEMMA ScaleAscends ==
  /\ JokerLevel \in Nat
  /\ \A l \in Levels : l \in Int /\ NoNaves <= l /\ l <= JokerLevel
  /\ \A l \in Levels : l # NoNaves /\ l # JokerLevel =>
       ~IsFinished(l) /\ ScaleRanks[l + 1] \in 0..8
  /\ \A k, l \in Levels : k # NoNaves /\ k < l /\ l # JokerLevel =>
       ScaleRanks[k + 1] < ScaleRanks[l + 1]
<1>1. /\ ScaleRanks \in Seq(Ranks) /\ JokerLevel = Len(ScaleRanks)
  BY CardsAssumption DEF JokerLevel
<1>2. JokerLevel \in Nat /\ DOMAIN ScaleRanks = 1..JokerLevel
  BY <1>1
<1>3. \A l \in Levels : l \in Int /\ NoNaves <= l /\ l <= JokerLevel
  BY <1>2 DEF Levels, NoNaves
<1>4. \A l \in Levels : l # NoNaves /\ l # JokerLevel => ~IsFinished(l) /\ l + 1 \in DOMAIN ScaleRanks
  BY <1>2, <1>3 DEF IsFinished, NoNaves
<1> QED
  BY <1>2, <1>3, <1>4, RatingsAssumption DEF NoNaves

\* What was written down is enough to know the damage.
LEMMA DamageIsKnown ==
  ASSUME NEW l \in Levels, NEW d \in Degrees
  PROVE  DamageWritten(Encoded(l), d) = DamageOf(l, d)
<1>1. CASE l = NoNaves
  BY <1>1 DEF DamageWritten, Encoded, DamageOf
<1>2. CASE l = JokerLevel
  <2>1. IsFinished(l) /\ l # NoNaves
    BY <1>2, ScaleAscends DEF IsFinished, NoNaves
  <2> QED
    BY <2>1 DEF DamageWritten, Encoded, DamageOf, NoCode, JokerCode
<1>3. CASE l # NoNaves /\ l # JokerLevel
  <2>1. ~IsFinished(l) /\ ScaleRanks[l + 1] \in 0..8
    BY <1>3, ScaleAscends
  <2> QED
    BY <1>3, <2>1 DEF DamageWritten, Encoded, DamageOf, NoCode, JokerCode
<1> QED
  BY <1>1, <1>2, <1>3

\* A heavier degree does more damage, and the lightest does more than any rank.
LEMMA HeavierIsWorse ==
  /\ \A d \in Degrees : DamageByDegree(d) \in Int /\ DamageByDegree(d) > 18 /\ Weight(d) \in Int
  /\ \A c, d \in Degrees : Weight(c) > Weight(d) <=> DamageByDegree(c) < DamageByDegree(d)
BY DEF Degrees, DamageByDegree, Weight

\* At the table the lower level, and of equals the lighter degree, is the smaller damage.
LEMMA PlacesByLevelAreByDamage ==
  ASSUME NEW k \in Levels, NEW l \in Levels, NEW c \in Degrees, NEW d \in Degrees,
         IsFinished(k) <=> c # "NONE", IsFinished(l) <=> d # "NONE"
  PROVE  DamageOf(k, c) < DamageOf(l, d) <=> k < l \/ (k = l /\ Weight(c) > Weight(d))
<1>1. /\ k \in Int /\ l \in Int /\ JokerLevel \in Nat
      /\ NoNaves <= k /\ NoNaves <= l /\ k <= JokerLevel /\ l <= JokerLevel
  BY ScaleAscends
<1>2. /\ IsFinished(k) <=> k = JokerLevel
      /\ IsFinished(l) <=> l = JokerLevel
  BY <1>1 DEF IsFinished
<1>3. \A e \in Levels, b \in Degrees :
        /\ e = NoNaves => DamageOf(e, b) = 0
        /\ e = JokerLevel => DamageOf(e, b) = DamageByDegree(b)
        /\ e # NoNaves /\ e # JokerLevel => /\ ScaleRanks[e + 1] \in 0..8
                                            /\ DamageOf(e, b) = 2 * (ScaleRanks[e + 1] + 1)
  BY ScaleAscends DEF DamageOf, IsFinished, NoNaves
<1>4. CASE k = l
  <2>1. CASE k = JokerLevel
    BY <1>1, <1>3, <1>4, <2>1, HeavierIsWorse
  <2>2. CASE k # JokerLevel
    <3>1. c = "NONE" /\ d = "NONE"
      BY <1>2, <1>4, <2>2
    <3>2. DamageOf(k, c) = DamageOf(l, d) /\ DamageOf(l, d) \in Int /\ Weight(c) \in Int
      BY <1>3, <1>4, <2>2, <3>1, HeavierIsWorse
    <3> QED
      BY <1>1, <1>4, <3>1, <3>2
  <2> QED
    BY <2>1, <2>2
<1>5. ASSUME NEW p \in Levels, NEW q \in Levels, NEW a \in Degrees, NEW b \in Degrees, p < q
      PROVE  DamageOf(p, a) < DamageOf(q, b) /\ DamageOf(p, a) \in Int /\ DamageOf(q, b) \in Int
  <2>1. p \in Int /\ q \in Int /\ NoNaves <= p /\ q <= JokerLevel
    BY ScaleAscends
  <2>2. p # JokerLevel /\ q # NoNaves
    BY <1>1, <1>5, <2>1 DEF NoNaves
  <2>3. CASE q = JokerLevel
    BY <1>3, <2>2, <2>3, HeavierIsWorse
  <2>4. CASE q # JokerLevel /\ p = NoNaves
    BY <1>3, <2>2, <2>4
  <2>5. CASE q # JokerLevel /\ p # NoNaves
    <3>1. ScaleRanks[p + 1] < ScaleRanks[q + 1]
      BY <1>5, <2>5, ScaleAscends
    <3> QED
      BY <1>3, <2>2, <2>5, <3>1
  <2> QED
    BY <2>3, <2>4, <2>5
<1>6. CASE k < l
  BY <1>1, <1>5, <1>6
<1>7. CASE l < k
  <2>1. DamageOf(l, d) < DamageOf(k, c) /\ DamageOf(l, d) \in Int /\ DamageOf(k, c) \in Int
    BY <1>5, <1>7
  <2> QED
    BY <1>1, <1>7, <2>1
<1> QED
  BY <1>1, <1>4, <1>6, <1>7

-----------------------------------------------------------------------------
\* The entries of a rating, a standing, and the rows of the tables.
Entry    == [match : MatchIds, step : {"NEWCOMER", "REGULAR"}]
Standing == [rating : Seq(Entry), played : Nat]
Row      == [match : MatchIds, user : Users, seat : Nat, code : Int, loss : Degrees, place : Nat,
             before : Seq(Entry), after : Seq(Entry)]
Point    == [match : MatchIds, user : Users, before : Seq(Entry), after : Seq(Entry), place : Nat]

\* A row tells what the game was, whatever it says of the ratings.
Truthful(o) ==
  LET g == games[o.match]
  IN /\ o.seat \in DOMAIN g.seats /\ o.user = g.seats[o.seat]
     /\ o.code = Encoded(g.ending[o.seat].level) /\ o.loss = g.ending[o.seat].degree
     /\ o.place = Placed(g)[o.seat]

\* No player has two rows of a match.
OncePerUser(S) == \A o, p \in S : o.match = p.match /\ o.user = p.user => o = p

\* Of a match there are the rows of all who played it.
Whole(S) == \A o \in S : \A i \in DOMAIN games[o.match].seats :
              \E p \in S : p.match = o.match /\ p.seat = i

Results(S) == /\ S \subseteq Row /\ OncePerUser(S)
              /\ \A o \in S : Truthful(o)

\* The matches of which there is a row of the player.
MatchesOf(S, u) == {m \in MatchIds : \E r \in S : r.match = m /\ r.user = u}

\* A rating is made of some of these matches, of none twice.
Fits(made, M) ==
  /\ made \in Seq(Entry)
  /\ \A i, j \in DOMAIN made : made[i].match = made[j].match => i = j
  /\ \A i \in DOMAIN made : made[i].match \in M

\* The rating of a player belongs to his rows: it is the one after a match of his.
Belongs(made, S, u) ==
  /\ Fits(made, MatchesOf(S, u))
  /\ MatchesOf(S, u) # {} => \E r \in S : r.user = u /\ r.after = made

\* Places are numbers.
LEMMA PlacesAreNumbers ==
  ASSUME NEW g \in Game, NEW i \in DOMAIN g.seats
  PROVE  Placed(g)[i] \in Nat
<1> DEFINE n == Len(g.seats)
<1>1. n \in Nat /\ DOMAIN g.ending = 1..n /\ i \in 1..n
  BY GamesAreSane
<1>2. \A T \in SUBSET (1..n) : Cardinality(T) \in Nat
  <2> HIDE DEF n
  <2>1. IsFiniteSet(1..n)
    BY <1>1, FS_Interval
  <2> QED
    BY <2>1, FS_Subset, FS_CardinalityType
<1>3. PlacesOf(g.ending)[i] \in Nat
  <2>1. \E T \in SUBSET (1..n) : PlacesOf(g.ending)[i] = 1 + Cardinality(T)
    BY <1>1 DEF PlacesOf, Ranked
  <2> QED
    BY <1>2, <2>1
<1>4. PlacesByDamage(g.ending)[i] \in Nat
  <2>1. \E T \in SUBSET (1..n) : PlacesByDamage(g.ending)[i] = 1 + Cardinality(T)
    BY <1>1 DEF PlacesByDamage, Ranked
  <2> QED
    BY <1>2, <2>1
<1> QED
  BY <1>3, <1>4 DEF Placed

\* From the rows of a match its places are found again.
LEMMA PlacesAreFoundAgain ==
  ASSUME games \in [MatchIds -> Game], NEW S, Results(S), Whole(S), NEW m \in MatchIds,
         NEW rows, rows = {o \in S : o.match = m}, NEW r \in rows
  PROVE  PlacesAnew(rows)[r.seat] = Placed(games[m])[r.seat]
<1> DEFINE g == games[m]
           seatNos == DOMAIN g.seats
           loss(i) == DamageOf(g.ending[i].level, g.ending[i].degree)
<1>1. /\ g \in Game /\ DOMAIN g.ending = seatNos
      /\ \A i \in seatNos : g.ending[i].level \in Levels /\ g.ending[i].degree \in Degrees
  BY GamesAreSane
<1>2. {o.seat : o \in rows} = seatNos
  <2>1. \A o \in rows : o.seat \in seatNos
    BY DEF Results, Truthful
  <2>2. \A i \in seatNos : \E p \in rows : p.seat = i
    BY DEF Whole
  <2> QED
    BY <2>1, <2>2
<1>3. ASSUME NEW i \in seatNos
      PROVE  LET row == CHOOSE o \in rows : o.seat = i
             IN DamageWritten(row.code, row.loss) = loss(i)
  <2>1. PICK row : row = CHOOSE o \in rows : o.seat = i
    OBVIOUS
  <2>2. row \in rows /\ row.seat = i
    BY <1>2, <1>3, <2>1
  <2>3. row.code = Encoded(g.ending[i].level) /\ row.loss = g.ending[i].degree
    BY <2>2 DEF Results, Truthful
  <2> QED
    BY <1>1, <2>1, <2>3, DamageIsKnown
<1>4. PlacesAnew(rows) = Ranked(seatNos, LAMBDA i, j : loss(i) < loss(j))
  <2> DEFINE row(i) == CHOOSE o \in rows : o.seat = i
             written(i) == DamageWritten(row(i).code, row(i).loss)
  <2>1. PlacesAnew(rows) = Ranked(seatNos, LAMBDA i, j : written(i) < written(j))
    BY <1>2 DEF PlacesAnew
  <2>2. \A i \in seatNos : written(i) = loss(i)
    BY <1>3
  <2> HIDE DEF written, loss, seatNos
  <2>3. Ranked(seatNos, LAMBDA i, j : written(i) < written(j))
        = Ranked(seatNos, LAMBDA i, j : loss(i) < loss(j))
    <3>1. \A i \in seatNos : {j \in seatNos : written(j) < written(i) \/ (~(written(i) < written(j)) /\ j < i)}
                             = {j \in seatNos : loss(j) < loss(i) \/ (~(loss(i) < loss(j)) /\ j < i)}
      BY <2>2
    <3> QED
      BY <3>1 DEF Ranked
  <2> QED
    BY <2>1, <2>3
<1>5. CASE g.kind # "ONLINE"
  BY <1>1, <1>4, <1>5 DEF Placed, PlacesByDamage, Ranked
<1>6. CASE g.kind = "ONLINE"
  <2>1. \A i \in seatNos : IsFinished(g.ending[i].level) <=> g.ending[i].degree # "NONE"
    BY <1>1, <1>6 DEF Game, PlayedOnline
  <2>2. \A i, j \in seatNos :
          loss(i) < loss(j) <=> \/ g.ending[i].level < g.ending[j].level
                                \/ /\ g.ending[i].level = g.ending[j].level
                                   /\ Weight(g.ending[i].degree) > Weight(g.ending[j].degree)
    BY <1>1, <2>1, PlacesByLevelAreByDamage
  <2> QED
    BY <1>1, <1>4, <1>6, <2>2 DEF Placed, PlacesOf, Ranked
<1> QED
  BY <1>5, <1>6

-----------------------------------------------------------------------------
(***************************************************************************)
(* The invariant.  Every player has a point of the history and a row of    *)
(* the results for the same matches; his rating belongs to his points.  A  *)
(* counting has read ratings that may be stale, but are made of matches of *)
(* his.  A recomputation has made for the matches it has replayed what the *)
(* history is to the standings; unless it was overtaken, it has loaded     *)
(* all.                                                                    *)
(***************************************************************************)
Tables ==
  /\ games \in [MatchIds -> Game]
  /\ Results(outcomes) /\ Whole(outcomes)
  /\ history \subseteq Point /\ OncePerUser(history)
  /\ \A u \in Users : MatchesOf(history, u) = MatchesOf(outcomes, u)

Standings ==
  /\ standing \in [Users -> Standing]
  /\ \A u \in Users :
       /\ Belongs(standing[u].rating, history, u)
       /\ ~recount.lost \/ MatchesOf(history, u) = {} =>
            standing[u].played = Cardinality(MatchesOf(history, u))

\* What a counting has read.
Sane(job) ==
  job.kind # "NONE" =>
    /\ job.match \in MatchIds
    /\ job.read \in Seq(Standing) /\ Len(job.read) <= Len(games[job.match].seats)
    /\ \A i \in DOMAIN job.read :
         Fits(job.read[i].rating, MatchesOf(history, games[job.match].seats[i]))

Jobs ==
  /\ DOMAIN jobs = Calls
  /\ \A j \in Calls : jobs[j] = [kind |-> jobs[j].kind, match |-> jobs[j].match, read |-> jobs[j].read]
  /\ \A j \in Calls : Sane(jobs[j])

RecountType ==
  [running : BOOLEAN, loaded : SUBSET Row, left : SUBSET MatchIds, rows : SUBSET Row,
   standing : [Users -> Standing], overtaken : BOOLEAN, lost : BOOLEAN]

\* What was loaded: a part of the results, and all of them unless it was overtaken.
LoadedOK ==
  /\ Results(recount.loaded) /\ Whole(recount.loaded)
  /\ \A u \in Users :
       /\ MatchesOf(recount.loaded, u) \subseteq MatchesOf(history, u)
       /\ ~recount.overtaken => MatchesOf(history, u) \subseteq MatchesOf(recount.loaded, u)

\* What was made of it.
AnewOK ==
  /\ Results(recount.rows)
  /\ \A u \in Users :
       /\ MatchesOf(recount.rows, u) = MatchesOf(recount.loaded, u) \ recount.left
       /\ Belongs(recount.standing[u].rating, recount.rows, u)
       /\ recount.standing[u].played = Cardinality(MatchesOf(recount.rows, u))

Recomputation == recount \in RecountType /\ (recount.running => LoadedOK /\ AnewOK)

RatingsInv == Tables /\ Standings /\ Jobs /\ Recomputation

-----------------------------------------------------------------------------
\* What fits some matches fits more of them.
LEMMA FitsMore ==
  ASSUME NEW made, NEW M, Fits(made, M), NEW M2, M \subseteq M2
  PROVE  Fits(made, M2)
BY DEF Fits

\* A match that was not there may be added.
LEMMA FitsOneMore ==
  ASSUME NEW s \in Standing, NEW M, Fits(s.rating, M), NEW m \in MatchIds, m \notin M
  PROVE  /\ Recalculate(s, m) \in Seq(Entry)
         /\ Fits(Recalculate(s, m), M \cup {m})
<1> DEFINE e == [match |-> m, step |-> StepFor(s)]
           made == s.rating
           more == Append(made, e)
<1>1. made \in Seq(Entry) /\ e \in Entry /\ e.match = m
  BY DEF Fits, Entry, StepFor
<1>2. Recalculate(s, m) = more
  BY DEF Recalculate
<1>3. /\ \A i, j \in DOMAIN made : made[i].match = made[j].match => i = j
      /\ \A i \in DOMAIN made : made[i].match \in M
  BY DEF Fits
<1> HIDE DEF e, made
<1>4. /\ more \in Seq(Entry) /\ DOMAIN more = 1..(Len(made) + 1) /\ Len(made) \in Nat
      /\ DOMAIN made = 1..Len(made)
      /\ \A i \in DOMAIN made : more[i] = made[i]
      /\ more[Len(made) + 1] = e
  BY <1>1
<1> HIDE DEF more
<1>5. \A i \in DOMAIN more : i \in DOMAIN made \/ i = Len(made) + 1
  BY <1>4
<1>6. \A i \in DOMAIN more : more[i].match \in M \cup {m}
  BY <1>1, <1>3, <1>4, <1>5
<1>7. \A i, j \in DOMAIN more : more[i].match = more[j].match => i = j
  BY <1>1, <1>3, <1>4, <1>5
<1> QED
  BY <1>2, <1>4, <1>6, <1>7 DEF Fits

\* Whatever was counted before, a rating stays one.
LEMMA RecalculateIsRating ==
  ASSUME NEW s \in Standing, NEW m \in MatchIds
  PROVE  Recalculate(s, m) \in Seq(Entry)
<1>1. s.rating \in Seq(Entry) /\ [match |-> m, step |-> StepFor(s)] \in Entry
  BY DEF Standing, Entry, StepFor
<1> QED
  BY <1>1 DEF Recalculate

\* The matches of a player can be counted.
LEMMA MatchesAreCounted ==
  ASSUME NEW S, NEW u
  PROVE  /\ MatchesOf(S, u) \subseteq MatchIds
         /\ IsFiniteSet(MatchesOf(S, u)) /\ Cardinality(MatchesOf(S, u)) \in Nat
         /\ Cardinality(MatchesOf(S, u)) = 0 <=> MatchesOf(S, u) = {}
         /\ \A m : m \notin MatchesOf(S, u) =>
              Cardinality(MatchesOf(S, u) \cup {m}) = Cardinality(MatchesOf(S, u)) + 1
<1>1. MatchesOf(S, u) \in SUBSET MatchIds
  BY DEF MatchesOf
<1>2. IsFiniteSet(MatchesOf(S, u))
  BY <1>1, RatingsAssumption, FS_Subset
<1> HIDE DEF MatchesOf
<1>3. \A m : m \notin MatchesOf(S, u) =>
        Cardinality(MatchesOf(S, u) \cup {m}) = Cardinality(MatchesOf(S, u)) + 1
  BY <1>2, FS_AddElement
<1> QED
  BY <1>1, <1>2, <1>3, FS_CardinalityType, FS_EmptySet

\* A player has as many points as matches.
LEMMA PointsAreMatches ==
  ASSUME Tables, NEW u \in Users
  PROVE  LET mine == {h \in history : h.user = u}
         IN /\ Cardinality(mine) = Cardinality(MatchesOf(history, u))
            /\ {h.match : h \in mine} = MatchesOf(history, u)
<1> DEFINE mine == {h \in history : h.user = u}
           M == MatchesOf(history, u)
           f == [m \in M |-> CHOOSE h \in mine : h.match = m]
<1>1. \A m \in M : f[m] \in mine /\ f[m].match = m
  BY DEF MatchesOf
<1>2. \A h \in mine : h.match \in M /\ f[h.match] = h
  <2> TAKE h \in mine
  <2>1. h.match \in M
    BY DEF Tables, Point, MatchesOf
  <2>2. f[h.match] \in mine /\ f[h.match].match = h.match
    BY <1>1, <2>1
  <2> QED
    BY <2>1, <2>2 DEF Tables, OncePerUser
<1>3. IsFiniteSet(M)
  BY MatchesAreCounted
<1> HIDE DEF M, mine
<1>4. f \in Bijection(M, mine)
  <2>1. f \in [M -> mine]
    BY <1>1
  <2>2. \A m, n \in M : f[m] = f[n] => m = n
    BY <1>1
  <2>3. \A h \in mine : \E m \in M : f[m] = h
    BY <1>2
  <2> HIDE DEF f
  <2> QED
    BY <2>1, <2>2, <2>3 DEF Bijection, Injection, Surjection, IsInjective
<1> HIDE DEF f
<1>5. Cardinality(mine) = Cardinality(M)
  BY <1>3, <1>4, FS_Bijection DEF ExistsBijection
<1>6. {h.match : h \in mine} = M
  BY <1>1, <1>2
<1> QED
  BY <1>5, <1>6 DEF M, mine

\* The invariant says that matches are counted once.
LEMMA CountedOnceFollows ==
  ASSUME RatingsInv
  PROVE  CountedOnce
<1> SUFFICES ASSUME NEW u \in Users
             PROVE  LET mine == {h \in history : h.user = u}
                        made == standing[u].rating
                    IN /\ \A i, j \in DOMAIN made : made[i].match = made[j].match => i = j
                       /\ {made[i].match : i \in DOMAIN made} \subseteq {h.match : h \in mine}
                       /\ mine # {} => \E h \in mine : h.after = made
                       /\ ~recount.lost => standing[u].played = Cardinality(mine)
  BY DEF CountedOnce
<1> DEFINE mine == {h \in history : h.user = u}
           made == standing[u].rating
<1>1. Cardinality(mine) = Cardinality(MatchesOf(history, u)) /\ {h.match : h \in mine} = MatchesOf(history, u)
  BY PointsAreMatches DEF RatingsInv
<1>2. /\ Fits(made, MatchesOf(history, u))
      /\ MatchesOf(history, u) # {} => \E h \in history : h.user = u /\ h.after = made
      /\ ~recount.lost => standing[u].played = Cardinality(MatchesOf(history, u))
  BY DEF RatingsInv, Standings, Belongs
<1>3. mine # {} => MatchesOf(history, u) # {}
  BY <1>1
<1>4. mine # {} => \E h \in mine : h.after = made
  BY <1>2, <1>3
<1>5. /\ \A i, j \in DOMAIN made : made[i].match = made[j].match => i = j
      /\ \A i \in DOMAIN made : made[i].match \in MatchesOf(history, u)
  BY <1>2 DEF Fits
<1> QED
  BY <1>1, <1>2, <1>4, <1>5

-----------------------------------------------------------------------------
\* Before anything is counted.
LEMMA RatingsBegin ==
  ASSUME RatingsInit
  PROVE  RatingsInv
<1>1. \A u : MatchesOf({}, u) = {} /\ Fits(<< >>, {})
  BY DEF MatchesOf, Fits
<1>2. Tables
  <2>1. games \in [MatchIds -> Game]
    BY DEF RatingsInit, Game
  <2>2. Results({}) /\ Whole({}) /\ OncePerUser({})
    BY DEF Results, Whole, OncePerUser
  <2> QED
    BY <1>1, <2>1, <2>2 DEF Tables, RatingsInit
<1>3. NotPlayed \in Standing /\ NotPlayed.rating = << >> /\ NotPlayed.played = 0
  BY DEF NotPlayed, Standing
<1>4. Standings
  <2>1. \A u \in Users : standing[u] = NotPlayed
    BY DEF RatingsInit
  <2>2. history = {} /\ Cardinality({}) = 0 /\ standing \in [Users -> Standing]
    BY <1>3, FS_EmptySet DEF RatingsInit
  <2> QED
    BY <1>1, <1>3, <2>1, <2>2 DEF Standings, Belongs
<1>5. Jobs
  <2>1. \A j \in Calls : jobs[j] = NoJob
    BY DEF RatingsInit
  <2> QED
    BY <2>1 DEF Jobs, Sane, NoJob, RatingsInit
<1>6. Recomputation
  BY <1>3 DEF Recomputation, RecountType, NoRecount, RatingsInit
<1> QED
  BY <1>2, <1>4, <1>5, <1>6 DEF RatingsInv

\* Who does not write leaves the tables, the standings and the recomputation.
LEMMA TablesStay ==
  ASSUME Tables, UNCHANGED <<games, outcomes, history>>
  PROVE  Tables'
BY DEF Tables, Results, Whole, Truthful

LEMMA RecomputationStays ==
  ASSUME Recomputation, UNCHANGED <<games, history, recount>>
  PROVE  Recomputation'
BY DEF Recomputation, LoadedOK, AnewOK, Results, Whole, Truthful

LEMMA StandingsStay ==
  ASSUME Standings, UNCHANGED <<standing, history>>, recount'.lost = recount.lost
  PROVE  Standings'
BY DEF Standings

\* The countings go on, and may find more in the history.
LEMMA JobsGoOn ==
  ASSUME Jobs, games' = games, games \in [MatchIds -> Game],
         \A u \in Users : MatchesOf(history, u) \subseteq MatchesOf(history', u),
         NEW next, jobs' = next, DOMAIN next = Calls,
         \A k \in Calls : /\ next[k] = [kind |-> next[k].kind, match |-> next[k].match, read |-> next[k].read]
                          /\ Sane(next[k])
  PROVE  Jobs'
<1>1. ASSUME NEW k \in Calls, NEW r, r = jobs'[k], Sane(r)
      PROVE  Sane(jobs[k])'
  <2> SUFFICES ASSUME r.kind # "NONE"
               PROVE  \A i \in DOMAIN r.read :
                        Fits(r.read[i].rating, MatchesOf(history', games[r.match].seats[i]))
    BY <1>1 DEF Sane
  <2> TAKE i \in DOMAIN r.read
  <2>1. /\ r.match \in MatchIds /\ r.read \in Seq(Standing) /\ Len(r.read) <= Len(games[r.match].seats)
        /\ Fits(r.read[i].rating, MatchesOf(history, games[r.match].seats[i]))
    BY <1>1 DEF Sane
  <2>2. i \in 1..Len(r.read) /\ Len(r.read) \in Nat
    BY <2>1
  <2>3. games[r.match].seats[i] \in Users
    BY <2>1, <2>2, GamesAreSane
  <2> QED
    BY <2>1, <2>3, FitsMore
<1>2. \A k \in Calls : Sane(jobs[k])'
  BY <1>1
<1> QED
  BY <1>2 DEF Jobs

\* One of them goes on as job.
LEMMA JobGoesOn ==
  ASSUME Jobs, games' = games, games \in [MatchIds -> Game],
         \A u \in Users : MatchesOf(history, u) \subseteq MatchesOf(history', u),
         NEW j \in Calls, NEW job, jobs' = [jobs EXCEPT ![j] = job],
         job = [kind |-> job.kind, match |-> job.match, read |-> job.read], Sane(job)
  PROVE  Jobs'
<1>1. PICK next : next = [jobs EXCEPT ![j] = job]
  OBVIOUS
<1>2. DOMAIN next = Calls /\ \A k \in Calls : next[k] = IF k = j THEN job ELSE jobs[k]
  BY <1>1 DEF Jobs
<1>3. \A k \in Calls : /\ next[k] = [kind |-> next[k].kind, match |-> next[k].match, read |-> next[k].read]
                       /\ Sane(next[k])
  BY <1>2 DEF Jobs
<1> QED
  BY <1>1, <1>2, <1>3, JobsGoOn

\* A counting begins.
LEMMA BeginKeeps ==
  ASSUME RatingsInv, NEW j \in Calls, NEW m \in MatchIds, BeginCount(j, m)
  PROVE  RatingsInv'
<1> DEFINE job == [kind |-> games[m].kind, match |-> m, read |-> << >>]
<1>1. Tables' /\ Standings' /\ Recomputation'
  BY TablesStay, StandingsStay, RecomputationStays DEF RatingsInv, BeginCount
<1>2. job = [kind |-> job.kind, match |-> job.match, read |-> job.read] /\ Sane(job)
  <2>1. games[m] \in Game
    BY DEF RatingsInv, Tables
  <2> QED
    BY <2>1, GamesAreSane DEF Sane
<1>3. jobs' = [jobs EXCEPT ![j] = job] /\ games' = games /\ history' = history
  BY DEF BeginCount
<1> HIDE DEF job
<1> QED
  BY <1>1, <1>2, <1>3, JobGoesOn DEF RatingsInv, Tables

\* A rating is read.
LEMMA ReadKeeps ==
  ASSUME RatingsInv, NEW j \in Calls, ReadRating(j)
  PROVE  RatingsInv'
<1> DEFINE old == jobs[j]
           seats == games[old.match].seats
           n == Len(old.read)
           more == Append(old.read, standing[seats[n + 1]])
           job == [old EXCEPT !.read = more]
<1>1. Tables' /\ Standings' /\ Recomputation'
  BY TablesStay, StandingsStay, RecomputationStays DEF RatingsInv, ReadRating
<1>2. /\ old.kind # "NONE" /\ n < Len(seats)
      /\ jobs' = [jobs EXCEPT ![j] = job] /\ games' = games /\ history' = history
  BY DEF ReadRating, RatingsInv, Jobs
<1>3. /\ old.match \in MatchIds /\ old.read \in Seq(Standing)
      /\ old = [kind |-> old.kind, match |-> old.match, read |-> old.read]
      /\ \A i \in DOMAIN old.read : Fits(old.read[i].rating, MatchesOf(history, seats[i]))
  BY <1>2 DEF RatingsInv, Jobs, Sane
<1>4. n \in Nat /\ DOMAIN old.read = 1..n /\ Len(seats) \in Nat /\ seats[n + 1] \in Users
  <2>1. games[old.match] \in Game
    BY <1>3 DEF RatingsInv, Tables
  <2>2. n \in Nat /\ DOMAIN old.read = 1..n
    BY <1>3
  <2>3. Len(seats) \in Nat /\ DOMAIN seats = 1..Len(seats)
    BY <2>1, GamesAreSane
  <2>4. n + 1 \in DOMAIN seats
    BY <1>2, <2>2, <2>3
  <2> QED
    BY <2>1, <2>2, <2>3, <2>4, GamesAreSane
<1>5. job = [kind |-> old.kind, match |-> old.match, read |-> more]
  <2> HIDE DEF more
  <2> QED
    BY <1>3
<1>6. /\ standing[seats[n + 1]] \in Standing
      /\ Fits(standing[seats[n + 1]].rating, MatchesOf(history, seats[n + 1]))
  BY <1>4 DEF RatingsInv, Standings, Belongs
<1>7. /\ more \in Seq(Standing) /\ Len(more) <= Len(seats)
      /\ \A i \in DOMAIN more : Fits(more[i].rating, MatchesOf(history, seats[i]))
  <2>1. PICK s \in Standing : s = standing[seats[n + 1]]
    BY <1>6
  <2>2. /\ more \in Seq(Standing) /\ Len(more) = n + 1 /\ DOMAIN more = 1..(n + 1)
        /\ more[n + 1] = s /\ \A i \in 1..n : more[i] = old.read[i]
    <3> HIDE DEF old
    <3> QED
      BY <1>3, <1>4, <2>1
  <2>3. \A i \in 1..(n + 1) : i \in 1..n \/ i = n + 1
    BY <1>4
  <2>4. Len(more) <= Len(seats)
    BY <1>2, <1>4, <2>2
  <2>5. ASSUME NEW i \in DOMAIN more
        PROVE  Fits(more[i].rating, MatchesOf(history, seats[i]))
    <3>1. CASE i \in 1..n
      BY <1>3, <1>4, <2>2, <3>1
    <3>2. CASE i = n + 1
      BY <1>6, <2>1, <2>2, <3>2
    <3> QED
      BY <2>2, <2>3, <2>5, <3>1, <3>2
  <2> QED
    BY <2>2, <2>4, <2>5
<1> HIDE DEF more
<1>8. /\ job.kind = old.kind /\ job.match = old.match /\ job.read = more
      /\ job = [kind |-> job.kind, match |-> job.match, read |-> job.read]
  BY <1>5
<1> HIDE DEF job
<1>9. Sane(job)
  BY <1>3, <1>7, <1>8 DEF Sane
<1> QED
  BY <1>1, <1>2, <1>8, <1>9, JobGoesOn DEF RatingsInv, Tables

\* A counting fails.
LEMMA FailKeeps ==
  ASSUME RatingsInv, NEW j \in Calls, FailCount(j)
  PROVE  RatingsInv'
<1>1. Tables' /\ Standings' /\ Recomputation'
  BY TablesStay, StandingsStay, RecomputationStays DEF RatingsInv, FailCount
<1>2. /\ NoJob = [kind |-> NoJob.kind, match |-> NoJob.match, read |-> NoJob.read]
      /\ Sane(NoJob)
  BY DEF NoJob, Sane
<1>3. jobs' = [jobs EXCEPT ![j] = NoJob] /\ games' = games /\ history' = history
  BY DEF FailCount
<1> QED
  BY <1>1, <1>2, <1>3, JobGoesOn DEF RatingsInv, Tables

\* The jobs stay if nobody counts.
LEMMA JobsStay ==
  ASSUME Jobs, UNCHANGED <<games, history, jobs>>
  PROVE  Jobs'
BY DEF Jobs, Sane

\* A match is cancelled, counted or not.
LEMMA AbortKeeps ==
  ASSUME RatingsInv, NEW m \in MatchIds, Abort(m)
  PROVE  RatingsInv'
BY TablesStay, StandingsStay, RecomputationStays, JobsStay DEF RatingsInv, Abort

-----------------------------------------------------------------------------
\* A counting is written.

\* What is written of a level is a number.
LEMMA EncodedIsNumber ==
  ASSUME NEW l \in Levels
  PROVE  Encoded(l) \in Int
<1>1. CASE l # NoNaves /\ l # JokerLevel
  BY <1>1, ScaleAscends DEF Encoded
<1>2. CASE l = JokerLevel
  <2>1. IsFinished(l) /\ l # NoNaves
    BY <1>2, ScaleAscends DEF IsFinished, NoNaves
  <2> QED
    BY <2>1 DEF Encoded, JokerCode
<1>3. CASE l = NoNaves
  BY <1>3 DEF Encoded, NoCode
<1> QED
  BY <1>1, <1>2, <1>3

\* The rows of a counting are those of its match: one for each seat, with the rating that
\* follows the one that was read.
Written(job, rows) ==
  /\ Results(rows) /\ Whole(rows)
  /\ \A r \in rows : /\ r.match = job.match /\ r.seat \in DOMAIN job.read
                     /\ r.after = Recalculate(job.read[r.seat], job.match)

LEMMA RowsAreWritten ==
  ASSUME games \in [MatchIds -> Game], NEW job, Sane(job), job.kind # "NONE",
         Len(job.read) = Len(games[job.match].seats),
         NEW rows, rows = RowsOf(job)
  PROVE  Written(job, rows)
<1> DEFINE m == job.match
           g == games[m]
           row(i) == [match |-> m, user |-> g.seats[i], seat |-> i,
                      code |-> Encoded(g.ending[i].level), loss |-> g.ending[i].degree,
                      place |-> Placed(g)[i], before |-> job.read[i].rating,
                      after |-> Recalculate(job.read[i], m)]
<1>1. /\ m \in MatchIds /\ g \in Game /\ job.read \in Seq(Standing)
  BY DEF Sane
<1>2. /\ Len(g.seats) \in Nat /\ DOMAIN g.seats = 1..Len(g.seats)
      /\ \A i, j \in DOMAIN g.seats : g.seats[i] = g.seats[j] => i = j
      /\ \A i \in DOMAIN g.seats : g.seats[i] \in Users /\ g.ending[i].level \in Levels /\ g.ending[i].degree \in Degrees
  BY <1>1, GamesAreSane
<1>3. DOMAIN job.read = DOMAIN g.seats
  BY <1>1, <1>2
<1>4. rows = {row(i) : i \in DOMAIN g.seats}
  BY DEF RowsOf
<1>5. ASSUME NEW i \in DOMAIN g.seats, NEW r, r = row(i)
      PROVE  /\ r \in Row /\ Truthful(r) /\ r.match = m /\ r.seat = i /\ r.user = g.seats[i]
             /\ r.after = Recalculate(job.read[i], m)
  <2>1. job.read[i] \in Standing
    BY <1>1, <1>3
  <2>2. /\ Recalculate(job.read[i], m) \in Seq(Entry) /\ job.read[i].rating \in Seq(Entry)
    BY <1>1, <2>1, RecalculateIsRating DEF Standing
  <2>3. /\ Placed(g)[i] \in Nat /\ Encoded(g.ending[i].level) \in Int /\ i \in Nat
    BY <1>1, <1>2, PlacesAreNumbers, EncodedIsNumber
  <2>4. r \in Row
    BY <1>1, <1>2, <1>5, <2>2, <2>3 DEF Row
  <2>5. /\ r.match = m /\ r.seat = i /\ r.user = g.seats[i] /\ r.code = Encoded(g.ending[i].level)
        /\ r.loss = g.ending[i].degree /\ r.place = Placed(g)[i] /\ r.after = Recalculate(job.read[i], m)
    BY <1>5
  <2> QED
    BY <2>4, <2>5 DEF Truthful
<1> HIDE DEF row
<1>6. \A r \in rows : \E i \in DOMAIN g.seats : r = row(i)
  BY <1>4
<1>7. Results(rows)
  <2>1. rows \subseteq Row /\ \A r \in rows : Truthful(r)
    BY <1>5, <1>6
  <2>2. OncePerUser(rows)
    <3> SUFFICES ASSUME NEW r \in rows, NEW s \in rows, r.user = s.user
                 PROVE  r = s
      BY DEF OncePerUser
    <3>1. PICK i \in DOMAIN g.seats : r = row(i)
      BY <1>6
    <3>2. PICK j \in DOMAIN g.seats : s = row(j)
      BY <1>6
    <3>3. g.seats[i] = g.seats[j]
      BY <1>5, <3>1, <3>2
    <3> QED
      BY <1>2, <3>1, <3>2, <3>3
  <2> QED
    BY <2>1, <2>2 DEF Results
<1>8. Whole(rows)
  <2>1. \A i \in DOMAIN g.seats : row(i) \in rows /\ row(i).match = m /\ row(i).seat = i
    BY <1>4, <1>5
  <2>2. \A r \in rows : r.match = m
    BY <1>5, <1>6
  <2> QED
    BY <2>1, <2>2 DEF Whole
<1>9. \A r \in rows : /\ r.match = m /\ r.seat \in DOMAIN job.read
                      /\ r.after = Recalculate(job.read[r.seat], m)
  BY <1>3, <1>5, <1>6
<1> QED
  BY <1>7, <1>8, <1>9 DEF Written

\* Rows are written over those of the same match and player.
WrittenOver(S, rows) == {o \in S : ~\E r \in rows : r.match = o.match /\ r.user = o.user} \cup rows

\* The results after that.
LEMMA ResultsWritten ==
  ASSUME NEW S, Results(S), Whole(S), NEW job, job.match \in MatchIds, NEW rows, Written(job, rows),
         rows # {}
  PROVE  /\ Results(WrittenOver(S, rows)) /\ Whole(WrittenOver(S, rows))
         /\ \A u : MatchesOf(WrittenOver(S, rows), u) = MatchesOf(S, u) \cup MatchesOf(rows, u)
<1>0. PICK T : T = WrittenOver(S, rows)
  OBVIOUS
<1>a. T = {o \in S : ~\E r \in rows : r.match = o.match /\ r.user = o.user} \cup rows
  BY <1>0 DEF WrittenOver
<1>1. Results(T)
  BY <1>a DEF Results, Written, OncePerUser
<1>2. \A r \in rows : r.match = job.match /\ Truthful(r)
  BY DEF Written, Results
<1>3. Whole(T)
  <2> SUFFICES ASSUME NEW o \in T, NEW i \in DOMAIN games[o.match].seats
               PROVE  \E p \in T : p.match = o.match /\ p.seat = i
    BY DEF Whole
  <2>1. CASE o.match = job.match
    BY <1>a, <1>2, <2>1 DEF Written, Whole
  <2>2. CASE o.match # job.match
    <3>1. o \in S
      BY <1>a, <1>2, <2>2
    <3>2. PICK p \in S : p.match = o.match /\ p.seat = i
      BY <3>1 DEF Whole
    <3>3. p \in T
      BY <1>a, <1>2, <2>2, <3>2
    <3> QED
      BY <3>2, <3>3
  <2> QED
    BY <2>1, <2>2
<1>4. ASSUME NEW u
      PROVE  MatchesOf(T, u) = MatchesOf(S, u) \cup MatchesOf(rows, u)
  <2>1. ASSUME NEW m \in MatchIds, NEW o \in S, o.match = m, o.user = u
        PROVE  \E p \in T : p.match = m /\ p.user = u
    BY <1>a, <2>1
  <2> QED
    BY <1>a, <2>1 DEF MatchesOf
<1> QED
  BY <1>0, <1>1, <1>3, <1>4

\* The history after the new points were added.
More(rows) == history \cup HistoryOf(NewPoints(rows))

LEMMA HistoryWritten ==
  ASSUME Tables, NEW job, job.match \in MatchIds, NEW rows, Written(job, rows)
  PROVE  /\ More(rows) \subseteq Point /\ OncePerUser(More(rows))
         /\ \A u : MatchesOf(More(rows), u) = MatchesOf(history, u) \cup MatchesOf(rows, u)
         /\ \A r \in NewPoints(rows) : \E h \in More(rows) : h.user = r.user /\ h.after = r.after
<1>0. PICK H : H = More(rows)
  OBVIOUS
<1> DEFINE point(r) == [match |-> r.match, user |-> r.user, before |-> r.before,
                        after |-> r.after, place |-> r.place]
<1>1. rows \subseteq Row /\ OncePerUser(rows)
  BY DEF Written, Results
<1>2. \A r \in Row : point(r) \in Point /\ point(r).match = r.match /\ point(r).user = r.user
                     /\ point(r).after = r.after
  BY DEF Row, Point
<1>3. H = history \cup {point(r) : r \in NewPoints(rows)}
  BY <1>0 DEF HistoryOf, More
<1>4. /\ NewPoints(rows) \subseteq rows
      /\ \A r \in rows : r \in NewPoints(rows) <=> ~\E h \in history : h.match = r.match /\ h.user = r.user
  BY DEF NewPoints
<1>5. history \subseteq Point /\ OncePerUser(history)
  BY DEF Tables
<1> HIDE DEF point
<1>6. \A h \in H : h \in history \/ \E r \in NewPoints(rows) : h = point(r)
  BY <1>3
<1>7. \A r \in NewPoints(rows) : /\ r \in rows /\ r \in Row /\ point(r) \in H
                                 /\ point(r).match = r.match /\ point(r).user = r.user /\ point(r).after = r.after
  BY <1>1, <1>2, <1>3, <1>4
<1>8. H \subseteq Point
  BY <1>2, <1>5, <1>6, <1>7
<1>9. OncePerUser(H)
  <2> SUFFICES ASSUME NEW g \in H, NEW h \in H, g.match = h.match, g.user = h.user
               PROVE  g = h
    BY DEF OncePerUser
  <2>1. CASE g \in history /\ h \in history
    BY <1>5, <2>1 DEF OncePerUser
  <2>2. CASE g \in history /\ h \notin history
    BY <1>4, <1>6, <1>7, <2>2
  <2>3. CASE g \notin history /\ h \in history
    BY <1>4, <1>6, <1>7, <2>3
  <2>4. CASE g \notin history /\ h \notin history
    BY <1>1, <1>6, <1>7, <2>4 DEF OncePerUser
  <2> QED
    BY <2>1, <2>2, <2>3, <2>4
<1>10. ASSUME NEW u
       PROVE  MatchesOf(H, u) = MatchesOf(history, u) \cup MatchesOf(rows, u)
  <2>1. ASSUME NEW m \in MatchesOf(H, u)
        PROVE  m \in MatchesOf(history, u) \/ m \in MatchesOf(rows, u)
    BY <1>6, <1>7 DEF MatchesOf
  <2>2. ASSUME NEW m \in MatchesOf(rows, u)
        PROVE  m \in MatchesOf(H, u)
    BY <1>3, <1>4, <1>7 DEF MatchesOf
  <2>3. MatchesOf(history, u) \subseteq MatchesOf(H, u)
    BY <1>3 DEF MatchesOf
  <2> QED
    BY <2>1, <2>2, <2>3
<1>11. \A r \in NewPoints(rows) : \E h \in H : h.user = r.user /\ h.after = r.after
  BY <1>7
<1> QED
  BY <1>0, <1>8, <1>9, <1>10, <1>11

\* The rating of a player after a counting was written.
StandingAfter(rows, u) ==
  IF \E r \in NewPoints(rows) : r.user = u
  THEN [rating |-> (CHOOSE r \in NewPoints(rows) : r.user = u).after, played |-> standing[u].played + 1]
  ELSE standing[u]

LEMMA StandingWritten ==
  ASSUME RatingsInv, NEW job, Sane(job), job.kind # "NONE", NEW rows, Written(job, rows),
         Len(job.read) = Len(games[job.match].seats),
         NEW u \in Users, NEW s, s = StandingAfter(rows, u)
  PROVE  /\ s \in Standing /\ Belongs(s.rating, More(rows), u)
         /\ ~recount.lost \/ MatchesOf(More(rows), u) = {} =>
              s.played = Cardinality(MatchesOf(More(rows), u))
<1>0. PICK H : H = More(rows)
  OBVIOUS
<1> DEFINE m == job.match
           M == MatchesOf(history, u)
<1>1. m \in MatchIds /\ \A i \in DOMAIN job.read : /\ job.read[i] \in Standing
                                                   /\ Fits(job.read[i].rating, MatchesOf(history, games[m].seats[i]))
  BY DEF Sane
<1>2. /\ MatchesOf(H, u) = M \cup MatchesOf(rows, u)
      /\ \A r \in NewPoints(rows) : \E h \in H : h.user = r.user /\ h.after = r.after
  <2>1. Tables
    BY DEF RatingsInv
  <2> QED
    BY <1>0, <1>1, <2>1, HistoryWritten
<1>3. /\ standing[u] \in Standing /\ Belongs(standing[u].rating, history, u)
      /\ standing[u].played \in Nat
      /\ ~recount.lost \/ M = {} => standing[u].played = Cardinality(M)
  BY DEF RatingsInv, Standings, Standing
<1>4. /\ NewPoints(rows) \subseteq rows
      /\ \A r \in rows : r \in NewPoints(rows) <=> ~\E h \in history : h.match = r.match /\ h.user = r.user
  BY DEF NewPoints
<1>5. /\ \A r \in rows : /\ r.match = m /\ r.seat \in DOMAIN job.read
                         /\ r.after = Recalculate(job.read[r.seat], m)
                         /\ r.user = games[m].seats[r.seat]
  BY DEF Written, Results, Truthful
<1>6. CASE \E r \in NewPoints(rows) : r.user = u
  <2>1. PICK r : r = CHOOSE q \in NewPoints(rows) : q.user = u
    OBVIOUS
  <2>2. r \in NewPoints(rows) /\ r.user = u /\ r \in rows
    BY <1>4, <1>6, <2>1
  <2>3. s = [rating |-> r.after, played |-> standing[u].played + 1]
    BY <1>6, <2>1 DEF StandingAfter
  <2>4. m \notin M
    BY <1>4, <1>5, <2>2 DEF MatchesOf
  <2>5. MatchesOf(H, u) = M \cup {m}
    <3>1. MatchesOf(rows, u) = {m}
      BY <1>1, <1>5, <2>2 DEF MatchesOf
    <3> QED
      BY <1>2, <3>1
  <2>6. PICK p \in Standing : p = job.read[r.seat] /\ Fits(p.rating, M)
    BY <1>1, <1>5, <2>2
  <2>7. r.after \in Seq(Entry) /\ Fits(r.after, M \cup {m})
    BY <1>1, <1>5, <2>2, <2>4, <2>6, FitsOneMore
  <2>8. s.rating = r.after /\ s.played = standing[u].played + 1 /\ s \in Standing
    BY <1>3, <2>3, <2>7 DEF Standing
  <2>9. Belongs(s.rating, H, u)
    BY <1>2, <2>2, <2>5, <2>7, <2>8 DEF Belongs
  <2>10. Cardinality(M \cup {m}) = Cardinality(M) + 1
    BY <2>4, MatchesAreCounted
  <2> QED
    BY <1>0, <1>3, <2>5, <2>8, <2>9, <2>10
<1>7. CASE ~\E r \in NewPoints(rows) : r.user = u
  <2>1. MatchesOf(H, u) = M
    <3>1. MatchesOf(rows, u) \subseteq M
      BY <1>4, <1>7 DEF MatchesOf
    <3> QED
      BY <1>2, <3>1
  <2>2. history \subseteq H /\ s = standing[u]
    BY <1>0, <1>7 DEF More, StandingAfter
  <2>3. Belongs(standing[u].rating, H, u)
    BY <1>3, <2>1, <2>2 DEF Belongs
  <2> QED
    BY <1>0, <1>3, <2>1, <2>2, <2>3
<1> QED
  BY <1>0, <1>6, <1>7

\* The transaction of a counting.
LEMMA WriteKeeps ==
  ASSUME RatingsInv, NEW j \in Calls, WriteCount(j)
  PROVE  RatingsInv'
<1>1. PICK job : job = jobs[j]
  OBVIOUS
<1>2. PICK rows : rows = RowsOf(job)
  OBVIOUS
<1>3. /\ job.kind # "NONE" /\ Len(job.read) = Len(games[job.match].seats)
      /\ outcomes' = WrittenOver(outcomes, rows) /\ history' = More(rows)
      /\ standing' = [u \in Users |-> StandingAfter(rows, u)]
      /\ recount' = [recount EXCEPT !.overtaken = @ \/ recount.running]
      /\ jobs' = [jobs EXCEPT ![j] = NoJob] /\ games' = games
  BY <1>1, <1>2 DEF WriteCount, Moves, WrittenOver, More, StandingAfter
<1>4. Sane(job) /\ games \in [MatchIds -> Game]
  BY <1>1 DEF RatingsInv, Jobs, Tables
<1>5. /\ job.match \in MatchIds /\ games[job.match] \in Game
  BY <1>3, <1>4 DEF Sane
<1>6. Written(job, rows)
  BY <1>2, <1>3, <1>4, RowsAreWritten
<1>7. rows # {}
  <2>1. 1 \in DOMAIN games[job.match].seats
    <3>1. games[job.match].seats \in LineUps
      BY <1>5 DEF Game
    <3>2. Len(games[job.match].seats) \in 2..8
      BY <3>1, RatingsAssumption
    <3> QED
      BY <1>5, <3>2, GamesAreSane
  <2> QED
    BY <1>2, <2>1 DEF RowsOf
<1>8. /\ Results(outcomes') /\ Whole(outcomes')
      /\ \A u : MatchesOf(outcomes', u) = MatchesOf(outcomes, u) \cup MatchesOf(rows, u)
  <2>1. Results(outcomes) /\ Whole(outcomes)
    BY DEF RatingsInv, Tables
  <2> QED
    BY <1>3, <1>5, <1>6, <1>7, <2>1, ResultsWritten
<1>9. /\ history' \subseteq Point /\ OncePerUser(history')
      /\ \A u : MatchesOf(history', u) = MatchesOf(history, u) \cup MatchesOf(rows, u)
  <2>1. Tables
    BY DEF RatingsInv
  <2> QED
    BY <1>3, <1>5, <1>6, <2>1, HistoryWritten
<1>10. Tables'
  <2>1. Results(outcomes)' /\ Whole(outcomes)'
    BY <1>3, <1>8 DEF Results, Whole, Truthful
  <2> QED
    BY <1>3, <1>4, <1>8, <1>9, <2>1 DEF RatingsInv, Tables
<1>11. /\ recount'.lost = recount.lost /\ recount'.running = recount.running
       /\ recount'.overtaken = (recount.overtaken \/ recount.running)
       /\ recount'.loaded = recount.loaded /\ recount'.rows = recount.rows
       /\ recount'.left = recount.left /\ recount'.standing = recount.standing
       /\ recount' \in RecountType
  BY <1>3 DEF RatingsInv, Recomputation, RecountType
<1>12. Standings'
  <2>1. ASSUME NEW u \in Users, NEW s, s = standing'[u]
        PROVE  /\ s \in Standing /\ Belongs(s.rating, history', u)
               /\ ~recount.lost \/ MatchesOf(history', u) = {} =>
                    s.played = Cardinality(MatchesOf(history', u))
    <3>1. s = StandingAfter(rows, u)
      BY <1>3, <2>1
    <3> QED
      BY <1>3, <1>4, <1>6, <3>1, StandingWritten
  <2> QED
    BY <1>3, <1>11, <2>1 DEF Standings
<1>13. Jobs'
  <2>1. /\ NoJob = [kind |-> NoJob.kind, match |-> NoJob.match, read |-> NoJob.read]
        /\ Sane(NoJob)
    BY DEF NoJob, Sane
  <2> QED
    BY <1>3, <1>4, <1>9, <2>1, JobGoesOn DEF RatingsInv
<1>14. Recomputation'
  <2> SUFFICES ASSUME recount.running
               PROVE  LoadedOK' /\ AnewOK'
    BY <1>11 DEF Recomputation
  <2>1. LoadedOK /\ AnewOK
    BY DEF RatingsInv, Recomputation
  <2>2. LoadedOK'
    <3>1. Results(recount.loaded)' /\ Whole(recount.loaded)'
      BY <1>3, <1>11, <2>1 DEF LoadedOK, Results, Whole, Truthful
    <3>2. \A u \in Users : MatchesOf(recount'.loaded, u) \subseteq MatchesOf(history', u)
      BY <1>9, <1>11, <2>1 DEF LoadedOK
    <3>3. recount'.overtaken
      BY <1>11
    <3> QED
      BY <3>1, <3>2, <3>3 DEF LoadedOK
  <2>3. AnewOK'
    BY <1>3, <1>11, <2>1 DEF AnewOK, Results, Truthful
  <2> QED
    BY <2>2, <2>3
<1> QED
  BY <1>10, <1>12, <1>13, <1>14 DEF RatingsInv

-----------------------------------------------------------------------------
\* Recomputation.

\* All that was counted is loaded.
LEMMA LoadKeeps ==
  ASSUME RatingsInv, Load
  PROVE  RatingsInv'
<1>1. PICK loaded : loaded = {o \in outcomes : Recounted(o.match)}
  OBVIOUS
<1>2. /\ recount' = [NoRecount EXCEPT !.running = TRUE, !.loaded = loaded,
                       !.left = {o.match : o \in loaded}, !.lost = recount.lost]
      /\ UNCHANGED <<games, outcomes, history, standing, jobs>>
  BY <1>1 DEF Load
<1>3. /\ recount'.running /\ recount'.loaded = loaded /\ recount'.left = {o.match : o \in loaded}
      /\ recount'.rows = {} /\ recount'.standing = [u \in Users |-> NotPlayed]
      /\ recount'.overtaken = FALSE /\ recount'.lost = recount.lost
  BY <1>2 DEF NoRecount
<1>4. Tables' /\ Standings' /\ Jobs'
  BY <1>2, <1>3, TablesStay, StandingsStay, JobsStay DEF RatingsInv
<1>5. Results(outcomes) /\ Whole(outcomes) /\ \A u \in Users : MatchesOf(history, u) = MatchesOf(outcomes, u)
  BY DEF RatingsInv, Tables
<1>6. Results(loaded) /\ Whole(loaded)
  <2>1. Results(loaded)
    BY <1>1, <1>5 DEF Results, OncePerUser
  <2>2. Whole(loaded)
    BY <1>1, <1>5 DEF Whole
  <2> QED
    BY <2>1, <2>2
<1>7. \A u \in Users : MatchesOf(loaded, u) = MatchesOf(history, u)
  <2> TAKE u \in Users
  <2>1. MatchesOf(loaded, u) \subseteq MatchesOf(outcomes, u)
    BY <1>1 DEF MatchesOf
  <2>2. ASSUME NEW m \in MatchesOf(history, u)
        PROVE  m \in MatchesOf(loaded, u)
    <3>1. m \in MatchIds /\ Recounted(m)
      BY DEF MatchesOf, Recounted, Counted
    <3>2. PICK o \in outcomes : o.match = m /\ o.user = u
      BY <1>5, <2>2 DEF MatchesOf
    <3>3. o \in loaded
      BY <1>1, <3>1, <3>2
    <3> QED
      BY <3>1, <3>2, <3>3 DEF MatchesOf
  <2> QED
    BY <1>5, <2>1, <2>2
<1>8. LoadedOK'
  <2>1. Results(recount.loaded)' /\ Whole(recount.loaded)'
    BY <1>2, <1>3, <1>6 DEF Results, Whole, Truthful
  <2> QED
    BY <1>2, <1>3, <1>7, <2>1 DEF LoadedOK
<1>9. AnewOK'
  <2>1. Results(recount.rows)'
    BY <1>3 DEF Results, OncePerUser
  <2>2. \A u \in Users : MatchesOf({}, u) = {} /\ MatchesOf(loaded, u) \ {o.match : o \in loaded} = {}
    BY DEF MatchesOf
  <2>3. \A u \in Users : recount'.standing[u].rating = << >> /\ recount'.standing[u].played = 0
    BY <1>3 DEF NotPlayed
  <2>4. Fits(<< >>, {}) /\ Cardinality({}) = 0
    BY FS_EmptySet DEF Fits
  <2> QED
    BY <1>3, <2>1, <2>2, <2>3, <2>4 DEF AnewOK, Belongs
<1>10. recount' \in RecountType
  <2>1. loaded \subseteq Row /\ {o.match : o \in loaded} \subseteq MatchIds
    BY <1>6 DEF Results, Row
  <2>2. [u \in Users |-> NotPlayed] \in [Users -> Standing]
    BY DEF NotPlayed, Standing
  <2>3. recount.lost \in BOOLEAN
    BY DEF RatingsInv, Recomputation, RecountType
  <2> QED
    BY <1>2, <2>1, <2>2, <2>3 DEF RecountType, NoRecount
<1> QED
  BY <1>4, <1>8, <1>9, <1>10 DEF RatingsInv, Recomputation

\* The rows of a match, and these made anew.
OfMatch(S, m) == {o \in S : o.match = m}

Anew(rows, m, now) ==
  {[r EXCEPT !.before = now[r.user].rating, !.after = Recalculate(now[r.user], m),
             !.place = PlacesAnew(rows)[r.seat]] : r \in rows}

LEMMA AnewIsTruthful ==
  ASSUME games \in [MatchIds -> Game], NEW S, Results(S), Whole(S), NEW m \in MatchIds,
         NEW rows, rows = OfMatch(S, m),
         NEW now \in [Users -> Standing]
  PROVE  /\ Results(Anew(rows, m, now))
         /\ \A a \in Anew(rows, m, now) : a.match = m /\ a.after = Recalculate(now[a.user], m)
         /\ \A u : (\E a \in Anew(rows, m, now) : a.user = u) <=> (\E r \in rows : r.user = u)
<1> DEFINE new(r) == [r EXCEPT !.before = now[r.user].rating, !.after = Recalculate(now[r.user], m),
                               !.place = PlacesAnew(rows)[r.seat]]
<1>1. PICK A : A = Anew(rows, m, now)
  OBVIOUS
<1>2. A = {new(r) : r \in rows}
  BY <1>1 DEF Anew
<1>3. ASSUME NEW r \in rows, NEW a, a = new(r)
      PROVE  /\ a \in Row /\ a.match = m /\ r.match = m /\ a.user = r.user /\ Truthful(a)
             /\ a.after = Recalculate(now[a.user], m)
  <2>1. r \in Row /\ r.match = m /\ Truthful(r) /\ r.user \in Users
    BY DEF Results, Row, OfMatch
  <2>2. now[r.user] \in Standing
    BY <2>1
  <2>3. now[r.user].rating \in Seq(Entry) /\ Recalculate(now[r.user], m) \in Seq(Entry)
    BY <2>2, RecalculateIsRating DEF Standing
  <2>4. PlacesAnew(rows)[r.seat] = Placed(games[m])[r.seat]
    BY PlacesAreFoundAgain DEF OfMatch
  <2>5. PlacesAnew(rows)[r.seat] = r.place
    BY <2>1, <2>4 DEF Truthful
  <2>6. r.place \in Nat
    BY <2>1 DEF Row
  <2>7. /\ a \in Row /\ a.match = r.match /\ a.user = r.user /\ a.seat = r.seat /\ a.code = r.code
        /\ a.loss = r.loss /\ a.place = r.place /\ a.after = Recalculate(now[r.user], m)
    BY <1>3, <2>1, <2>3, <2>5, <2>6 DEF Row
  <2> QED
    BY <2>1, <2>7 DEF Truthful
<1> HIDE DEF new
<1>4. \A a \in A : \E r \in rows : a = new(r)
  BY <1>2
<1>5. OncePerUser(A)
  <2> SUFFICES ASSUME NEW a \in A, NEW b \in A, a.user = b.user
               PROVE  a = b
    BY DEF OncePerUser
  <2>1. PICK r \in rows : a = new(r)
    BY <1>4
  <2>2. PICK q \in rows : b = new(q)
    BY <1>4
  <2>3. r.user = q.user /\ r.match = q.match
    BY <1>3, <2>1, <2>2
  <2>4. r = q
    BY <2>3 DEF Results, OncePerUser, OfMatch
  <2> QED
    BY <2>1, <2>2, <2>4
<1>6. Results(A)
  BY <1>3, <1>4, <1>5 DEF Results
<1>7. \A a \in A : a.match = m /\ a.after = Recalculate(now[a.user], m)
  BY <1>3, <1>4
<1>8. ASSUME NEW u
      PROVE  (\E a \in A : a.user = u) <=> (\E r \in rows : r.user = u)
  <2>1. ASSUME NEW r \in rows, r.user = u
        PROVE  \E a \in A : a.user = u
    <3>1. new(r) \in A /\ new(r).user = u
      BY <1>2, <1>3, <2>1
    <3> QED
      BY <3>1
  <2> QED
    BY <1>3, <1>4, <2>1
<1> QED
  BY <1>1, <1>6, <1>7, <1>8

\* A match is replayed.
LEMMA ReplayKeeps ==
  ASSUME RatingsInv, NEW m \in MatchIds, Replay(m)
  PROVE  RatingsInv'
<1>1. PICK rows : rows = OfMatch(recount.loaded, m)
  OBVIOUS
<1>2. PICK now : now = recount.standing
  OBVIOUS
<1>3. PICK R : R = recount.rows
  OBVIOUS
<1>4. PICK A : A = Anew(rows, m, now)
  OBVIOUS
<1> DEFINE plays(u) == \E r \in rows : r.user = u
           next(u) == IF plays(u) THEN [rating |-> Recalculate(now[u], m), played |-> now[u].played + 1]
                      ELSE now[u]
<1>5. /\ recount.running /\ m \in recount.left
      /\ recount' = [recount EXCEPT !.left = @ \ {m}, !.rows = @ \cup A,
                                    !.standing = [u \in Users |-> next(u)]]
      /\ UNCHANGED <<games, outcomes, history, standing, jobs>>
  BY <1>1, <1>2, <1>4 DEF Replay, Anew, OfMatch
<1>6. recount \in RecountType /\ LoadedOK /\ AnewOK /\ games \in [MatchIds -> Game]
  BY <1>5 DEF RatingsInv, Recomputation, Tables
<1> HIDE DEF next
<1>7. /\ recount'.loaded = recount.loaded
      /\ recount'.left = recount.left \ {m} /\ recount'.rows = R \cup A
      /\ recount'.standing = [u \in Users |-> next(u)]
      /\ recount'.overtaken = recount.overtaken /\ recount'.lost = recount.lost
  BY <1>3, <1>5, <1>6 DEF RecountType
<1>8. now \in [Users -> Standing] /\ R \subseteq Row
  BY <1>2, <1>3, <1>6 DEF RecountType
<1>9. /\ Results(A)
      /\ \A a \in A : a.match = m /\ a.after = Recalculate(now[a.user], m)
      /\ \A u : (\E a \in A : a.user = u) <=> plays(u)
  <2>1. Results(recount.loaded) /\ Whole(recount.loaded)
    BY <1>6 DEF LoadedOK
  <2>2. /\ Results(Anew(rows, m, now))
        /\ \A a \in Anew(rows, m, now) : a.match = m /\ a.after = Recalculate(now[a.user], m)
        /\ \A u : (\E a \in Anew(rows, m, now) : a.user = u) <=> (\E r \in rows : r.user = u)
    BY <1>1, <1>6, <1>8, <2>1, AnewIsTruthful
  <2> QED
    BY <1>4, <2>2
<1>10. /\ Results(R)
       /\ \A u \in Users : /\ MatchesOf(R, u) = MatchesOf(recount.loaded, u) \ recount.left
                           /\ Belongs(now[u].rating, R, u)
                           /\ now[u].played = Cardinality(MatchesOf(R, u))
  BY <1>2, <1>3, <1>6 DEF AnewOK
<1>11. \A u \in Users : m \notin MatchesOf(R, u)
  BY <1>5, <1>10
<1>12. Results(R \cup A)
  <2>1. ASSUME NEW a \in A, NEW r \in R, a.match = r.match, a.user = r.user
        PROVE  FALSE
    <3>1. r.user \in Users /\ r.match = m
      BY <1>8, <1>9, <2>1 DEF Row
    <3>2. m \in MatchesOf(R, r.user)
      BY <3>1 DEF MatchesOf
    <3> QED
      BY <1>11, <3>1, <3>2
  <2>2. OncePerUser(R \cup A)
    BY <1>9, <1>10, <2>1 DEF OncePerUser, Results
  <2> QED
    BY <1>9, <1>10, <2>2 DEF Results
<1>13. ASSUME NEW u \in Users
       PROVE  /\ MatchesOf(R \cup A, u) = IF plays(u) THEN MatchesOf(R, u) \cup {m} ELSE MatchesOf(R, u)
              /\ plays(u) <=> m \in MatchesOf(recount.loaded, u)
  <2>1. MatchesOf(R \cup A, u) = MatchesOf(R, u) \cup MatchesOf(A, u)
    BY DEF MatchesOf
  <2>2. MatchesOf(A, u) = IF plays(u) THEN {m} ELSE {}
    <3> HIDE DEF plays
    <3> QED
      BY <1>9 DEF MatchesOf
  <2>3. plays(u) <=> m \in MatchesOf(recount.loaded, u)
    BY <1>1 DEF MatchesOf, OfMatch
  <2> QED
    BY <2>1, <2>2, <2>3
<1> HIDE DEF plays
<1>14. ASSUME NEW u \in Users, NEW s, s = next(u)
       PROVE  /\ s \in Standing /\ Belongs(s.rating, R \cup A, u)
              /\ s.played = Cardinality(MatchesOf(R \cup A, u))
              /\ MatchesOf(R \cup A, u) = MatchesOf(recount.loaded, u) \ (recount.left \ {m})
  <2>1. now[u] \in Standing /\ Belongs(now[u].rating, R, u) /\ now[u].played = Cardinality(MatchesOf(R, u))
        /\ now[u].rating \in Seq(Entry) /\ now[u].played \in Nat
    BY <1>8, <1>10 DEF Standing
  <2>2. CASE plays(u)
    <3>1. s = [rating |-> Recalculate(now[u], m), played |-> now[u].played + 1]
      BY <1>14, <2>2 DEF next
    <3>2. MatchesOf(R \cup A, u) = MatchesOf(R, u) \cup {m} /\ m \notin MatchesOf(R, u)
      BY <1>11, <1>13, <2>2
    <3>3. Recalculate(now[u], m) \in Seq(Entry) /\ Fits(Recalculate(now[u], m), MatchesOf(R, u) \cup {m})
      BY <2>1, <3>2, FitsOneMore DEF Belongs
    <3>4. s \in Standing /\ s.rating = Recalculate(now[u], m) /\ s.played = now[u].played + 1
      BY <2>1, <3>1, <3>3 DEF Standing
    <3>5. PICK a \in A : a.user = u
      BY <1>9, <2>2
    <3>6. a \in R \cup A /\ a.after = s.rating
      BY <1>9, <3>4, <3>5
    <3>7. Belongs(s.rating, R \cup A, u)
      BY <3>2, <3>3, <3>4, <3>5, <3>6 DEF Belongs
    <3>8. s.played = Cardinality(MatchesOf(R \cup A, u))
      <4>1. Cardinality(MatchesOf(R, u) \cup {m}) = Cardinality(MatchesOf(R, u)) + 1
        BY <3>2, MatchesAreCounted
      <4> QED
        BY <2>1, <3>2, <3>4, <4>1
    <3>9. MatchesOf(R \cup A, u) = MatchesOf(recount.loaded, u) \ (recount.left \ {m})
      BY <1>10, <1>13, <2>2, <3>2
    <3> QED
      BY <3>4, <3>7, <3>8, <3>9
  <2>3. CASE ~plays(u)
    <3>1. s = now[u] /\ MatchesOf(R \cup A, u) = MatchesOf(R, u)
      BY <1>13, <1>14, <2>3 DEF next
    <3>2. Belongs(s.rating, R \cup A, u)
      BY <2>1, <3>1 DEF Belongs
    <3>3. MatchesOf(R \cup A, u) = MatchesOf(recount.loaded, u) \ (recount.left \ {m})
      BY <1>10, <1>13, <2>3, <3>1
    <3> QED
      BY <2>1, <3>1, <3>2, <3>3
  <2> QED
    BY <2>2, <2>3
<1>15. AnewOK'
  <2>1. Results(recount.rows)'
    BY <1>5, <1>7, <1>12 DEF Results, Truthful
  <2>2. \A u \in Users : recount'.standing[u] = next(u)
    BY <1>7
  <2>3. ASSUME NEW u \in Users
        PROVE  /\ MatchesOf(recount'.rows, u) = MatchesOf(recount'.loaded, u) \ recount'.left
               /\ Belongs(recount'.standing[u].rating, recount'.rows, u)
               /\ recount'.standing[u].played = Cardinality(MatchesOf(recount'.rows, u))
    BY <1>7, <1>14, <2>2
  <2> QED
    BY <2>1, <2>3 DEF AnewOK
<1>16. LoadedOK'
  <2>1. Results(recount.loaded)' /\ Whole(recount.loaded)'
    BY <1>5, <1>6, <1>7 DEF LoadedOK, Results, Whole, Truthful
  <2> QED
    BY <1>5, <1>6, <1>7, <2>1 DEF LoadedOK
<1>17. recount' \in RecountType
  <2>1. [u \in Users |-> next(u)] \in [Users -> Standing]
    BY <1>14
  <2>2. R \cup A \subseteq Row
    BY <1>12 DEF Results
  <2> QED
    BY <1>3, <1>5, <1>6, <2>1, <2>2 DEF RecountType
<1>18. Tables' /\ Standings' /\ Jobs'
  BY <1>5, <1>7, TablesStay, StandingsStay, JobsStay DEF RatingsInv
<1> QED
  BY <1>15, <1>16, <1>17, <1>18 DEF RatingsInv, Recomputation

\* A row or a point is rewritten if there is a row anew of its match and player.
Known(R, s) == \E r \in R : r.match = s.match /\ r.user = s.user

RowFor(R, s) == CHOOSE r \in R : r.match = s.match /\ r.user = s.user

Renewed(R, o) == IF Known(R, o) THEN RowFor(R, o) ELSE o

Corrected(R, h) ==
  IF Known(R, h)
  THEN [h EXCEPT !.before = RowFor(R, h).before, !.after = RowFor(R, h).after, !.place = RowFor(R, h).place]
  ELSE h

\* All of them.
AllRenewed(R, S)   == {Renewed(R, o) : o \in S}
AllCorrected(R, S) == {Corrected(R, h) : h \in S}

\* There is at most one such row.
LEMMA RowIsFound ==
  ASSUME NEW R, Results(R), NEW s, Known(R, s)
  PROVE  /\ RowFor(R, s) \in R /\ RowFor(R, s) \in Row /\ Truthful(RowFor(R, s))
         /\ RowFor(R, s).match = s.match /\ RowFor(R, s).user = s.user
         /\ \A r \in R : r.match = s.match /\ r.user = s.user => RowFor(R, s) = r
<1>1. /\ RowFor(R, s) \in R /\ RowFor(R, s).match = s.match /\ RowFor(R, s).user = s.user
  BY DEF Known, RowFor
<1> QED
  BY <1>1 DEF Results, OncePerUser

\* Two rows of a match and a player are of the same seat and tell of the same place.
LEMMA SameSeatSamePlace ==
  ASSUME games \in [MatchIds -> Game], NEW o \in Row, NEW r \in Row, Truthful(o), Truthful(r),
         o.match = r.match, o.user = r.user
  PROVE  o.seat = r.seat /\ o.place = r.place
<1>1. games[o.match] \in Game
  BY DEF Row
<1>2. \A i, j \in DOMAIN games[o.match].seats :
        games[o.match].seats[i] = games[o.match].seats[j] => i = j
  BY <1>1, GamesAreSane
<1> QED
  BY <1>2 DEF Truthful

\* The results rewritten are the results again, with the same places.
LEMMA ResultsRenewed ==
  ASSUME games \in [MatchIds -> Game], NEW S, Results(S), Whole(S), NEW R, Results(R),
         NEW T, T = AllRenewed(R, S)
  PROVE  /\ Results(T) /\ Whole(T)
         /\ \A u : MatchesOf(T, u) = MatchesOf(S, u)
         /\ {[match |-> o.match, user |-> o.user, place |-> o.place] : o \in S}
            = {[match |-> o.match, user |-> o.user, place |-> o.place] : o \in T}
<1>1. ASSUME NEW o \in S, NEW t, t = Renewed(R, o)
      PROVE  /\ t \in Row /\ Truthful(t) /\ t.match = o.match /\ t.user = o.user
             /\ t.seat = o.seat /\ t.place = o.place
  <2>1. o \in Row /\ Truthful(o)
    BY DEF Results
  <2>2. CASE Known(R, o)
    <3>1. t = RowFor(R, o)
      BY <1>1, <2>2 DEF Renewed
    <3>2. t \in Row /\ Truthful(t) /\ t.match = o.match /\ t.user = o.user
      BY <2>2, <3>1, RowIsFound
    <3> QED
      BY <2>1, <3>2, SameSeatSamePlace
  <2>3. CASE ~Known(R, o)
    BY <1>1, <2>1, <2>3 DEF Renewed
  <2> QED
    BY <2>2, <2>3
<1>2. /\ \A t \in T : \E o \in S : t = Renewed(R, o)
      /\ \A o \in S : Renewed(R, o) \in T
  BY DEF AllRenewed
<1>3. OncePerUser(T)
  <2> SUFFICES ASSUME NEW s \in T, NEW t \in T, s.match = t.match, s.user = t.user
               PROVE  s = t
    BY DEF OncePerUser
  <2>1. PICK o \in S : s = Renewed(R, o)
    BY <1>2
  <2>2. PICK p \in S : t = Renewed(R, p)
    BY <1>2
  <2>3. o.match = p.match /\ o.user = p.user
    BY <1>1, <2>1, <2>2
  <2>4. o = p
    BY <2>3 DEF Results, OncePerUser
  <2> QED
    BY <2>1, <2>2, <2>4
<1>4. Results(T)
  BY <1>1, <1>2, <1>3 DEF Results
<1>5. Whole(T)
  <2> SUFFICES ASSUME NEW t \in T, NEW i \in DOMAIN games[t.match].seats
               PROVE  \E q \in T : q.match = t.match /\ q.seat = i
    BY DEF Whole
  <2>1. PICK o \in S : t = Renewed(R, o)
    BY <1>2
  <2>2. o.match = t.match
    BY <1>1, <2>1
  <2>3. PICK p \in S : p.match = o.match /\ p.seat = i
    BY <2>2 DEF Whole
  <2>4. Renewed(R, p) \in T /\ Renewed(R, p).match = t.match /\ Renewed(R, p).seat = i
    BY <1>1, <1>2, <2>2, <2>3
  <2> QED
    BY <2>4
<1>6. ASSUME NEW u
      PROVE  MatchesOf(T, u) = MatchesOf(S, u)
  <2>1. MatchesOf(T, u) \subseteq MatchesOf(S, u)
    BY <1>1, <1>2 DEF MatchesOf
  <2>2. ASSUME NEW m \in MatchesOf(S, u)
        PROVE  m \in MatchesOf(T, u)
    <3>1. m \in MatchIds
      BY DEF MatchesOf
    <3>2. PICK o \in S : o.match = m /\ o.user = u
      BY DEF MatchesOf
    <3>3. Renewed(R, o) \in T /\ Renewed(R, o).match = m /\ Renewed(R, o).user = u
      BY <1>1, <1>2, <3>2
    <3> QED
      BY <3>1, <3>3 DEF MatchesOf
  <2> QED
    BY <2>1, <2>2
<1>7. {[match |-> o.match, user |-> o.user, place |-> o.place] : o \in S}
      = {[match |-> o.match, user |-> o.user, place |-> o.place] : o \in T}
  <2> DEFINE seen(o) == [match |-> o.match, user |-> o.user, place |-> o.place]
  <2>1. \A o \in S : seen(Renewed(R, o)) = seen(o)
    BY <1>1
  <2> HIDE DEF seen
  <2>2. {seen(o) : o \in S} = {seen(o) : o \in T}
    BY <1>2, <2>1
  <2> QED
    BY <2>2 DEF seen
<1> QED
  BY <1>4, <1>5, <1>6, <1>7

\* The history rewritten has the same points, with other ratings.
LEMMA HistoryCorrected ==
  ASSUME NEW S, S \subseteq Point, OncePerUser(S), NEW R, Results(R),
         NEW T, T = AllCorrected(R, S)
  PROVE  /\ T \subseteq Point /\ OncePerUser(T)
         /\ \A u : MatchesOf(T, u) = MatchesOf(S, u)
         /\ \A h \in S : ~Known(R, h) => h \in T
         /\ \A h \in S, r \in R : r.match = h.match /\ r.user = h.user =>
              \E t \in T : t.user = r.user /\ t.after = r.after
<1>1. ASSUME NEW h \in S, NEW t, t = Corrected(R, h)
      PROVE  /\ t \in Point /\ t.match = h.match /\ t.user = h.user
             /\ ~Known(R, h) => t = h
             /\ \A r \in R : r.match = h.match /\ r.user = h.user => t.after = r.after
  <2>1. h \in Point
    OBVIOUS
  <2>2. CASE Known(R, h)
    <3>1. PICK r : r = RowFor(R, h)
      OBVIOUS
    <3>2. /\ r \in Row /\ \A q \in R : q.match = h.match /\ q.user = h.user => r = q
      BY <2>2, <3>1, RowIsFound
    <3>3. r.before \in Seq(Entry) /\ r.after \in Seq(Entry) /\ r.place \in Nat
      BY <3>2 DEF Row
    <3>4. t = [h EXCEPT !.before = r.before, !.after = r.after, !.place = r.place]
      BY <1>1, <2>2, <3>1 DEF Corrected
    <3>5. t \in Point /\ t.match = h.match /\ t.user = h.user /\ t.after = r.after
      BY <2>1, <3>3, <3>4 DEF Point
    <3> QED
      BY <2>2, <3>2, <3>5
  <2>3. CASE ~Known(R, h)
    BY <1>1, <2>1, <2>3 DEF Corrected, Known
  <2> QED
    BY <2>2, <2>3
<1>2. /\ \A t \in T : \E h \in S : t = Corrected(R, h)
      /\ \A h \in S : Corrected(R, h) \in T
  BY DEF AllCorrected
<1>3. T \subseteq Point
  BY <1>1, <1>2
<1>4. OncePerUser(T)
  <2> SUFFICES ASSUME NEW s \in T, NEW t \in T, s.match = t.match, s.user = t.user
               PROVE  s = t
    BY DEF OncePerUser
  <2>1. PICK g \in S : s = Corrected(R, g)
    BY <1>2
  <2>2. PICK h \in S : t = Corrected(R, h)
    BY <1>2
  <2>3. g.match = h.match /\ g.user = h.user
    BY <1>1, <2>1, <2>2
  <2>4. g = h
    BY <2>3 DEF OncePerUser
  <2> QED
    BY <2>1, <2>2, <2>4
<1>5. ASSUME NEW u
      PROVE  MatchesOf(T, u) = MatchesOf(S, u)
  <2>1. MatchesOf(T, u) \subseteq MatchesOf(S, u)
    BY <1>1, <1>2 DEF MatchesOf
  <2>2. ASSUME NEW m \in MatchesOf(S, u)
        PROVE  m \in MatchesOf(T, u)
    <3>1. m \in MatchIds
      BY DEF MatchesOf
    <3>2. PICK h \in S : h.match = m /\ h.user = u
      BY DEF MatchesOf
    <3>3. Corrected(R, h) \in T /\ Corrected(R, h).match = m /\ Corrected(R, h).user = u
      BY <1>1, <1>2, <3>2
    <3> QED
      BY <3>1, <3>3 DEF MatchesOf
  <2> QED
    BY <2>1, <2>2
<1>6. \A h \in S : ~Known(R, h) => h \in T
  BY <1>1, <1>2
<1>7. ASSUME NEW h \in S, NEW r \in R, r.match = h.match, r.user = h.user
      PROVE  \E t \in T : t.user = r.user /\ t.after = r.after
  <2>1. Corrected(R, h) \in T /\ Corrected(R, h).user = r.user /\ Corrected(R, h).after = r.after
    BY <1>1, <1>2, <1>7
  <2> QED
    BY <2>1
<1> QED
  BY <1>3, <1>4, <1>5, <1>6, <1>7

\* What is written at the end of a recomputation.
LEMMA RewriteWrites ==
  ASSUME Rewrite
  PROVE  /\ recount.running /\ recount.left = {}
         /\ outcomes' = AllRenewed(recount.rows, outcomes)
         /\ history' = AllCorrected(recount.rows, history)
         /\ standing' = [u \in Users |-> IF recount.standing[u].played = 0 THEN standing[u]
                                         ELSE recount.standing[u]]
         /\ recount'.lost = recount.overtaken /\ ~recount'.running
         /\ recount' = [NoRecount EXCEPT !.lost = recount.overtaken]
         /\ UNCHANGED <<games, jobs>>
<1>1. outcomes' = AllRenewed(recount.rows, outcomes)
  BY DEF Rewrite, AllRenewed, Renewed, Known, RowFor
<1>2. history' = AllCorrected(recount.rows, history)
  BY DEF Rewrite, AllCorrected, Corrected, Known, RowFor
<1>3. /\ recount.running /\ recount.left = {}
      /\ standing' = [u \in Users |-> IF recount.standing[u].played = 0 THEN standing[u]
                                      ELSE recount.standing[u]]
      /\ recount' = [NoRecount EXCEPT !.lost = recount.overtaken]
      /\ UNCHANGED <<games, jobs>>
  BY DEF Rewrite
<1>4. recount'.lost = recount.overtaken /\ ~recount'.running
  BY <1>3 DEF NoRecount
<1> QED
  BY <1>1, <1>2, <1>3, <1>4

\* The rating of a player after a recomputation: the one made anew, or the old one of a player
\* no match of whom was loaded.
LEMMA StandingRewritten ==
  ASSUME RatingsInv, Rewrite, NEW u \in Users, NEW s, s = standing'[u]
  PROVE  /\ s \in Standing /\ Belongs(s.rating, history', u)
         /\ ~recount.overtaken \/ MatchesOf(history', u) = {} =>
              s.played = Cardinality(MatchesOf(history', u))
<1> DEFINE M == MatchesOf(history, u)
           now == recount.standing[u]
<1>1. PICK R : R = recount.rows
  OBVIOUS
<1>2. PICK H : H = history'
  OBVIOUS
<1>3. /\ recount.running /\ recount.left = {} /\ H = AllCorrected(R, history)
      /\ s = IF now.played = 0 THEN standing[u] ELSE now
  BY <1>1, <1>2, RewriteWrites
<1>4. recount \in RecountType /\ LoadedOK /\ AnewOK
  BY <1>3 DEF RatingsInv, Recomputation
<1>5. /\ Results(R) /\ MatchesOf(R, u) = MatchesOf(recount.loaded, u)
      /\ Belongs(now.rating, R, u) /\ now.played = Cardinality(MatchesOf(R, u))
      /\ MatchesOf(R, u) \subseteq M
      /\ ~recount.overtaken => M = MatchesOf(R, u)
  BY <1>1, <1>3, <1>4 DEF AnewOK, LoadedOK
<1>6. history \subseteq Point /\ OncePerUser(history)
  BY DEF RatingsInv, Tables
<1>7. /\ MatchesOf(H, u) = M
      /\ \A h \in history : ~Known(R, h) => h \in H
      /\ \A h \in history, r \in R : r.match = h.match /\ r.user = h.user =>
           \E t \in H : t.user = r.user /\ t.after = r.after
  BY <1>3, <1>5, <1>6, HistoryCorrected
<1>8. now \in Standing
  BY <1>4 DEF RecountType
<1>9. /\ standing[u] \in Standing /\ Belongs(standing[u].rating, history, u)
      /\ M = {} => standing[u].played = Cardinality(M)
  BY DEF RatingsInv, Standings
<1>10. CASE now.played = 0
  <2>1. s = standing[u]
    BY <1>3, <1>10
  <2>2. MatchesOf(R, u) = {}
    BY <1>5, <1>10, MatchesAreCounted
  <2>3. ASSUME M # {}
        PROVE  \E h \in H : h.user = u /\ h.after = s.rating
    <3>1. PICK h \in history : h.user = u /\ h.after = s.rating
      BY <1>9, <2>1, <2>3 DEF Belongs
    <3>2. ~Known(R, h)
      <4>1. h.match \in MatchIds
        BY <1>6 DEF Point
      <4> QED
        BY <2>2, <3>1, <4>1 DEF Known, MatchesOf
    <3> QED
      BY <1>7, <3>1, <3>2
  <2>4. Belongs(s.rating, H, u)
    BY <1>7, <1>9, <2>1, <2>3 DEF Belongs
  <2> QED
    BY <1>2, <1>5, <1>7, <1>9, <2>1, <2>2, <2>4
<1>11. CASE now.played # 0
  <2>1. s = now
    BY <1>3, <1>11
  <2>2. MatchesOf(R, u) # {} /\ M # {}
    BY <1>5, <1>11, MatchesAreCounted
  <2>3. PICK r \in R : r.user = u /\ r.after = s.rating
    BY <1>5, <2>1, <2>2 DEF Belongs
  <2>4. r.match \in M
    <3>1. r.match \in MatchIds
      BY <1>5 DEF Results, Row
    <3>2. r.match \in MatchesOf(R, u)
      BY <2>3, <3>1 DEF MatchesOf
    <3> QED
      BY <1>5, <3>2
  <2>5. PICK h \in history : h.match = r.match /\ h.user = u
    BY <2>4 DEF MatchesOf
  <2>6. \E t \in H : t.user = u /\ t.after = s.rating
    BY <1>7, <2>3, <2>5
  <2>7. Fits(s.rating, M)
    BY <1>5, <2>1, FitsMore DEF Belongs
  <2>8. Belongs(s.rating, H, u)
    BY <1>7, <2>6, <2>7 DEF Belongs
  <2> QED
    BY <1>2, <1>5, <1>7, <1>8, <2>1, <2>2, <2>8
<1> QED
  BY <1>8, <1>10, <1>11 DEF Standing

\* What nobody recomputes.
LEMMA NoRecountIsFine ==
  ASSUME NEW lost \in BOOLEAN, recount' = [NoRecount EXCEPT !.lost = lost]
  PROVE  Recomputation' /\ recount'.lost = lost
<1>1. [u \in Users |-> NotPlayed] \in [Users -> Standing]
  BY DEF NotPlayed, Standing
<1> QED
  BY <1>1 DEF Recomputation, RecountType, NoRecount

\* The end of a recomputation.
LEMMA RewriteKeeps ==
  ASSUME RatingsInv, Rewrite
  PROVE  RatingsInv'
<1>1. PICK R : R = recount.rows
  OBVIOUS
<1>2. /\ recount.running /\ outcomes' = AllRenewed(R, outcomes) /\ history' = AllCorrected(R, history)
      /\ standing' = [u \in Users |-> IF recount.standing[u].played = 0 THEN standing[u]
                                      ELSE recount.standing[u]]
      /\ recount' = [NoRecount EXCEPT !.lost = recount.overtaken]
      /\ recount'.lost = recount.overtaken /\ games' = games /\ jobs' = jobs
  BY <1>1, RewriteWrites
<1>3. Results(R) /\ recount.overtaken \in BOOLEAN
  BY <1>1, <1>2 DEF RatingsInv, Recomputation, AnewOK, RecountType
<1>4. /\ games \in [MatchIds -> Game] /\ Results(outcomes) /\ Whole(outcomes)
      /\ history \subseteq Point /\ OncePerUser(history)
      /\ \A u \in Users : MatchesOf(history, u) = MatchesOf(outcomes, u)
  BY DEF RatingsInv, Tables
<1>5. /\ Results(outcomes') /\ Whole(outcomes') /\ \A u : MatchesOf(outcomes', u) = MatchesOf(outcomes, u)
  BY <1>2, <1>3, <1>4, ResultsRenewed
<1>6. /\ history' \subseteq Point /\ OncePerUser(history')
      /\ \A u : MatchesOf(history', u) = MatchesOf(history, u)
  BY <1>2, <1>3, <1>4, HistoryCorrected
<1>7. Tables'
  <2>1. Results(outcomes)' /\ Whole(outcomes)'
    BY <1>2, <1>5 DEF Results, Whole, Truthful
  <2> QED
    BY <1>2, <1>4, <1>5, <1>6, <2>1 DEF Tables
<1>8. Standings'
  BY <1>2, StandingRewritten DEF Standings
<1>9. Jobs'
  BY <1>2, <1>4, <1>6, JobsGoOn DEF RatingsInv, Jobs
<1>10. Recomputation'
  BY <1>2, <1>3, NoRecountIsFine
<1> QED
  BY <1>7, <1>8, <1>9, <1>10 DEF RatingsInv

\* Nothing comes of a recomputation that fails.
LEMMA FailRecountKeeps ==
  ASSUME RatingsInv, FailRecount
  PROVE  RatingsInv'
<1>1. recount.lost \in BOOLEAN /\ recount' = [NoRecount EXCEPT !.lost = recount.lost]
      /\ UNCHANGED <<games, outcomes, history, standing, jobs>>
  BY DEF FailRecount, RatingsInv, Recomputation, RecountType
<1>2. Recomputation' /\ recount'.lost = recount.lost
  BY <1>1, NoRecountIsFine
<1> QED
  BY <1>1, <1>2, TablesStay, StandingsStay, JobsStay DEF RatingsInv

\* Every step keeps the invariant.
LEMMA RatingsStepKeeps ==
  ASSUME RatingsInv, [RatingsNext]_ratingVars
  PROVE  RatingsInv'
<1>1. ASSUME NEW j \in Calls, NEW m \in MatchIds, BeginCount(j, m)
      PROVE  RatingsInv'
  BY <1>1, BeginKeeps
<1>2. ASSUME NEW j \in Calls, ReadRating(j) \/ WriteCount(j) \/ FailCount(j)
      PROVE  RatingsInv'
  BY <1>2, ReadKeeps, WriteKeeps, FailKeeps
<1>3. ASSUME NEW m \in MatchIds, Abort(m) \/ Replay(m)
      PROVE  RatingsInv'
  BY <1>3, AbortKeeps, ReplayKeeps
<1>4. CASE Load \/ Rewrite \/ FailRecount
  BY <1>4, LoadKeeps, RewriteKeeps, FailRecountKeeps
<1>5. CASE UNCHANGED ratingVars
  BY <1>5, TablesStay, StandingsStay, RecomputationStays, JobsStay DEF RatingsInv, ratingVars
<1> QED
  BY <1>1, <1>2, <1>3, <1>4, <1>5 DEF RatingsNext

(***************************************************************************)
(* The invariant of the results: rows, points and ratings belong together, *)
(* whoever counts, imports, fails or recomputes at the same time.          *)
(***************************************************************************)
THEOREM RatingsInvariant == RatingsSpec => []RatingsInv
BY RatingsBegin, RatingsStepKeeps, PTL DEF RatingsSpec

(***************************************************************************)
(* A match is counted for a player once, for any number of players,        *)
(* matches, countings at the same time and recomputations.                 *)
(***************************************************************************)
THEOREM CountedOnceAlways == RatingsSpec => []CountedOnce
<1>1. RatingsInv => CountedOnce
  BY CountedOnceFollows
<1> QED
  BY <1>1, RatingsInvariant, PTL

\* The end of a recomputation leaves the places and, if it knew all, the numbers of matches.
LEMMA RecountKeeps ==
  ASSUME RatingsInv, RatingsInv', [RatingsNext]_ratingVars, recount.running, ~recount'.running
  PROVE  /\ {[match |-> o.match, user |-> o.user, place |-> o.place] : o \in outcomes}
            = {[match |-> o.match, user |-> o.user, place |-> o.place] : o \in outcomes'}
         /\ ~recount.lost /\ ~recount'.lost => \A u \in Users : standing'[u].played = standing[u].played
<1>1. Rewrite \/ FailRecount
  <2>1. ASSUME NEW j \in Calls, NEW m \in MatchIds, BeginCount(j, m)
        PROVE  FALSE
    BY <2>1 DEF BeginCount
  <2>2. ASSUME NEW j \in Calls, ReadRating(j) \/ FailCount(j)
        PROVE  FALSE
    BY <2>2 DEF ReadRating, FailCount
  <2>3. ASSUME NEW j \in Calls, WriteCount(j)
        PROVE  FALSE
    <3>1. recount' = [recount EXCEPT !.overtaken = @ \/ recount.running]
      BY <2>3 DEF WriteCount
    <3> QED
      BY <3>1 DEF RatingsInv, Recomputation, RecountType
  <2>4. ASSUME NEW m \in MatchIds, Abort(m)
        PROVE  FALSE
    BY <2>4 DEF Abort
  <2>5. ASSUME NEW m \in MatchIds, Replay(m)
        PROVE  FALSE
    BY <2>5 DEF Replay, RatingsInv, Recomputation, RecountType
  <2>6. ~Load /\ ~UNCHANGED ratingVars
    BY DEF Load, ratingVars
  <2> QED
    BY <2>1, <2>2, <2>3, <2>4, <2>5, <2>6 DEF RatingsNext
<1>2. CASE Rewrite
  <2>1. /\ outcomes' = AllRenewed(recount.rows, outcomes) /\ history' = AllCorrected(recount.rows, history)
    BY <1>2, RewriteWrites
  <2>2. /\ games \in [MatchIds -> Game] /\ Results(outcomes) /\ Whole(outcomes) /\ Results(recount.rows)
        /\ history \subseteq Point /\ OncePerUser(history)
    BY DEF RatingsInv, Tables, Recomputation, AnewOK
  <2>3. {[match |-> o.match, user |-> o.user, place |-> o.place] : o \in outcomes}
        = {[match |-> o.match, user |-> o.user, place |-> o.place] : o \in outcomes'}
    BY <2>1, <2>2, ResultsRenewed
  <2>4. \A u : MatchesOf(history', u) = MatchesOf(history, u)
    BY <2>1, <2>2, HistoryCorrected
  <2>5. ASSUME ~recount.lost, ~recount'.lost, NEW u \in Users
        PROVE  standing'[u].played = standing[u].played
    BY <2>4, <2>5 DEF RatingsInv, Standings
  <2> QED
    BY <2>3, <2>5
<1>3. CASE FailRecount
  BY <1>3 DEF FailRecount
<1> QED
  BY <1>1, <1>2, <1>3

(***************************************************************************)
(* A recomputation gives every player the place he was given, from what    *)
(* was written of the match, and counts as many matches as were counted.   *)
(***************************************************************************)
THEOREM RecountKeepsPlacesAlways == RatingsSpec => RecountKeepsPlaces
<1> DEFINE Kept ==
      recount.running /\ ~recount'.running =>
        /\ {[match |-> o.match, user |-> o.user, place |-> o.place] : o \in outcomes}
           = {[match |-> o.match, user |-> o.user, place |-> o.place] : o \in outcomes'}
        /\ ~recount.lost /\ ~recount'.lost => \A u \in Users : standing'[u].played = standing[u].played
<1>1. RatingsInv /\ RatingsInv' /\ [RatingsNext]_ratingVars => [Kept]_ratingVars
  BY RecountKeeps
<1>2. RecountKeepsPlaces <=> [][Kept]_ratingVars
  BY DEF RecountKeepsPlaces
<1> HIDE DEF Kept
<1> QED
  BY <1>1, <1>2, RatingsInvariant, PTL DEF RatingsSpec
=============================================================================
