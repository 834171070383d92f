----------------------------- MODULE SignInProofs -----------------------------
(***************************************************************************)
(* Proofs about what signing in to the developer console is made of, for   *)
(* any handlers, limits, times, tabs and addresses: the codes (SignIn, the *)
(* instance Codes), the sessions (Sessions, the instance Accounts) and the *)
(* pages in the browser (ConsoleClient).  Last come the properties of      *)
(* MCSignIn, where the three are side by side.                             *)
(***************************************************************************)
EXTENDS MCSignIn, FiniteSetTheorems, WellFoundedInduction, TLAPS

-----------------------------------------------------------------------------
(***************************************************************************)
(* Numbers and sets.                                                       *)
(***************************************************************************)
LEMMA GreatestOf ==
    ASSUME NEW n \in Nat, NEW S, S \subseteq 1 .. n, S # {}
    PROVE  \E c \in S : \A d \in S : d <= c
<1> DEFINE Less == OpToRel(<, Nat)
           T == {n - c : c \in S}
<1>1. IsWellFoundedOn(Less, Nat)
  BY NatLessThanWellFounded
<1>2. \A i, j \in Nat : i < j => <<i, j>> \in Less
  BY Zenon DEF OpToRel
<1> HIDE DEF Less
<1>3. \A c \in S : c \in Nat /\ n - c \in Nat
  OBVIOUS
<1>4. T \subseteq Nat /\ T # {}
  BY <1>3
<1>5. PICK x \in T : \A y \in T : ~(<<y, x>> \in Less)
  <2> HIDE DEF T
  <2>1. QED
    BY <1>1, <1>4, WFMin
<1>6. ASSUME NEW y \in T PROVE x <= y
  <2>1. x \in Nat /\ y \in Nat /\ ~(<<y, x>> \in Less)
    BY <1>4, <1>5
  <2>2. QED
    BY <1>2, <2>1
<1>7. PICK c \in S : x = n - c
  OBVIOUS
<1>8. ASSUME NEW d \in S PROVE d <= c
  <2>1. n - c <= n - d
    BY <1>6, <1>7
  <2>2. QED
    BY <1>3, <2>1
<1>9. QED
  BY <1>8

\* Two sets that differ in h at most.
One(b) == IF b THEN 1 ELSE 0

LEMMA DifferInOne ==
    ASSUME NEW A, IsFiniteSet(A), NEW B, NEW h, A \ {h} = B \ {h}
    PROVE  /\ IsFiniteSet(B) /\ Cardinality(A) \in Nat /\ Cardinality(B) \in Nat
           /\ Cardinality(B) = Cardinality(A) - One(h \in A) + One(h \in B)
<1> DEFINE C == A \ {h}
<1>1. IsFiniteSet(C) /\ h \notin C /\ Cardinality(C) \in Nat
  BY FS_RemoveElement, FS_CardinalityType
<1>2. IsFiniteSet(C \cup {h}) /\ Cardinality(C \cup {h}) = Cardinality(C) + 1
  BY <1>1, FS_AddElement
<1>3. /\ A = IF h \in A THEN C \cup {h} ELSE C
      /\ B = IF h \in B THEN C \cup {h} ELSE C
  OBVIOUS
<1> HIDE DEF C
<1>4. Cardinality(A) = Cardinality(C) + One(h \in A)
  BY <1>1, <1>2, <1>3 DEF One
<1>5. Cardinality(B) = Cardinality(C) + One(h \in B) /\ IsFiniteSet(B)
  BY <1>1, <1>2, <1>3 DEF One
<1>6. One(h \in A) \in 0 .. 1 /\ One(h \in B) \in 0 .. 1
  BY DEF One
<1>7. QED
  BY <1>1, <1>4, <1>5, <1>6

-----------------------------------------------------------------------------
(***************************************************************************)
(* Who is at work on code c: handlers that have read it with attempts to   *)
(* spare, handlers about to count an attempt, handlers about to sign in.   *)
(***************************************************************************)
CodeIsGuess(t, c) ==
    t.do = "verify" /\ t.code = c /\ t.row.attempts < MaxAttempts
CodeIsBump(t, c) == t.do = "bump" /\ t.code = c
CodeIsLogin(t, c) == t.do = "login" /\ t.code = c

CodeGuessing(c) == {h \in Handlers : CodeIsGuess(codeTask[h], c)}
CodeBumping(c) == {h \in Handlers : CodeIsBump(codeTask[h], c)}
CodeEntering(c) == {h \in Handlers : CodeIsLogin(codeTask[h], c)}

\* TypeOK, but that no count of guesses is negative.
CodeTypes ==
    /\ codeClock \in Codes!Times
    /\ issued \in 0 .. MaxCodes
    /\ DOMAIN codes \subseteq 1 .. issued
    /\ codes \in [DOMAIN codes -> Codes!Codes]
    /\ codeTask \in [Handlers -> Codes!Tasks \cup {Codes!Rest}]
    /\ codePurge \in {Codes!NotRunning} \cup Codes!Times
    /\ wrong \in [Codes!CodeIds -> Int]
    /\ signed \in [Codes!CodeIds -> Nat]

\* No handler is at work on a code that was not issued.
CodeWorking == {"verify", "bump", "consume", "login"}
CodeTaskInv == \A h \in Handlers : codeTask[h].do \in CodeWorking => codeTask[h].code <= issued

(***************************************************************************)
(* What a code has refused was counted or is about to be, so those who     *)
(* read it while it has attempts to spare are few enough.                  *)
(***************************************************************************)
CodeGuessInv(c) ==
    /\ c > issued => wrong[c] = 0
    /\ Cardinality(CodeBumping(c)) <= wrong[c]
    /\ c \in DOMAIN codes =>
          wrong[c] = codes[c].attempts + Cardinality(CodeBumping(c))
    /\ wrong[c] + Cardinality(CodeGuessing(c)) <=
          MaxAttempts - 1 + Cardinality(Handlers)

\* Only who consumed a code enters with it.
CodeLoginInv(c) ==
    /\ signed[c] + Cardinality(CodeEntering(c)) <= 1
    /\ c > issued => signed[c] = 0
    /\ c \in DOMAIN codes /\ ~codes[c].consumed =>
          signed[c] + Cardinality(CodeEntering(c)) = 0

CodeInv ==
    /\ CodeTypes
    /\ CodeTaskInv
    /\ \A c \in Codes!CodeIds : CodeGuessInv(c) /\ CodeLoginInv(c)

CodeAssumptions ==
    Codes!HandlersAssumption /\ Codes!LimitsAssumption /\ Codes!TimesAssumption /\ Codes!BoundsAssumption

\* The instance brings the operators of FiniteSets along: they are the same.
LEMMA CodeSets ==
    ASSUME NEW S
    PROVE  /\ Codes!Cardinality(S) = Cardinality(S)
           /\ Codes!IsFiniteSet(S) <=> IsFiniteSet(S)
<1>1. Codes!Cardinality(S) = Cardinality(S)
  BY DEF Codes!Cardinality, Cardinality
<1>2. Codes!IsFiniteSet(S) <=> IsFiniteSet(S)
  BY DEF Codes!IsFiniteSet, IsFiniteSet
<1>3. QED
  BY <1>1, <1>2

LEMMA CodeNumberShape ==
    ASSUME CodeAssumptions, CodeTypes
    PROVE  /\ codeClock \in Nat /\ issued \in Nat /\ MaxAttempts \in Nat
           /\ MaxAttempts >= 1 /\ MaxCodes \in Nat /\ CodeMaxClock \in Nat
           /\ CodeTTL \in Nat /\ IsFiniteSet(Handlers)
           /\ Cardinality(Handlers) \in Nat /\ Cardinality(Handlers) >= 1
           /\ \A c \in Codes!CodeIds : c \in Nat /\ wrong[c] \in Int /\ signed[c] \in Nat
           /\ \A t \in Codes!Times : t \in Nat
<1>1. /\ IsFiniteSet(Handlers) /\ Handlers # {}
      /\ Cardinality(Handlers) \in Nat /\ Cardinality(Handlers) # 0
  BY FS_CardinalityType, FS_EmptySet, CodeSets
     DEF CodeAssumptions, Codes!HandlersAssumption
<1>2. QED
  BY <1>1 DEF CodeAssumptions, Codes!LimitsAssumption, Codes!TimesAssumption,
         Codes!BoundsAssumption,
              CodeTypes, Codes!Times, Codes!CodeIds

\* What a handler holds, by what it does next.
LEMMA CodeTaskShape ==
    ASSUME CodeTypes, NEW h \in Handlers, codeTask[h] # Codes!Rest
    PROVE  /\ codeTask[h].at \in Codes!Times
           /\ codeTask[h].do \in {"ask", "count", "store"} \cup CodeWorking
           /\ codeTask[h].do \in {"ask", "count", "store"} =>
                 codeTask[h] = [do |-> codeTask[h].do, at |-> codeTask[h].at]
           /\ codeTask[h].do \in CodeWorking => codeTask[h].code \in Codes!CodeIds
           /\ codeTask[h].do = "verify" => codeTask[h].row \in Codes!Codes
           /\ codeTask[h].do \in {"bump", "consume", "login"} =>
                 codeTask[h] = [do |-> codeTask[h].do, at |-> codeTask[h].at,
                            code |-> codeTask[h].code]
<1>1. codeTask[h] \in Codes!Tasks
  BY DEF CodeTypes
<1>2. QED
  BY <1>1 DEF Codes!Tasks, CodeWorking

LEMMA CodeRestShape ==
    /\ Codes!Rest.do = "rest"
    /\ \A c : ~CodeIsGuess(Codes!Rest, c) /\ ~CodeIsBump(Codes!Rest, c) /\ ~CodeIsLogin(Codes!Rest, c)
BY DEF Codes!Rest, CodeIsGuess, CodeIsBump, CodeIsLogin

\* A handler goes on to task t, and nobody else moves.
LEMMA CodeCounts ==
    ASSUME CodeAssumptions, CodeTypes, NEW h \in Handlers, NEW t, Codes!Goto(h, t),
           NEW c
    PROVE  /\ Cardinality(CodeGuessing(c)) \in Nat /\ Cardinality(CodeBumping(c)) \in Nat
           /\ Cardinality(CodeEntering(c)) \in Nat
           /\ Cardinality(CodeGuessing(c)') \in Nat /\ Cardinality(CodeBumping(c)') \in Nat
           /\ Cardinality(CodeEntering(c)') \in Nat
           /\ Cardinality(CodeGuessing(c)') = Cardinality(CodeGuessing(c))
                 - One(CodeIsGuess(codeTask[h], c)) + One(CodeIsGuess(t, c))
           /\ Cardinality(CodeBumping(c)') = Cardinality(CodeBumping(c))
                 - One(CodeIsBump(codeTask[h], c)) + One(CodeIsBump(t, c))
           /\ Cardinality(CodeEntering(c)') = Cardinality(CodeEntering(c))
                 - One(CodeIsLogin(codeTask[h], c)) + One(CodeIsLogin(t, c))
<1>1. codeTask' = [codeTask EXCEPT ![h] = t] /\ codeTask'[h] = t
      /\ \A k \in Handlers : k # h => codeTask'[k] = codeTask[k]
  BY DEF Codes!Goto, CodeTypes
<1>2. /\ IsFiniteSet(CodeGuessing(c)) /\ IsFiniteSet(CodeBumping(c))
      /\ IsFiniteSet(CodeEntering(c))
  BY CodeNumberShape, FS_Subset DEF CodeGuessing, CodeBumping, CodeEntering
<1>3. /\ CodeGuessing(c) \ {h} = CodeGuessing(c)' \ {h}
      /\ h \in CodeGuessing(c) <=> CodeIsGuess(codeTask[h], c)
      /\ h \in CodeGuessing(c)' <=> CodeIsGuess(t, c)
  BY <1>1 DEF CodeGuessing, CodeIsGuess
<1>4. /\ CodeBumping(c) \ {h} = CodeBumping(c)' \ {h}
      /\ h \in CodeBumping(c) <=> CodeIsBump(codeTask[h], c)
      /\ h \in CodeBumping(c)' <=> CodeIsBump(t, c)
  BY <1>1 DEF CodeBumping, CodeIsBump
<1>5. /\ CodeEntering(c) \ {h} = CodeEntering(c)' \ {h}
      /\ h \in CodeEntering(c) <=> CodeIsLogin(codeTask[h], c)
      /\ h \in CodeEntering(c)' <=> CodeIsLogin(t, c)
  BY <1>1 DEF CodeEntering, CodeIsLogin
<1>6. /\ Cardinality(CodeGuessing(c)) \in Nat /\ Cardinality(CodeGuessing(c)') \in Nat
      /\ Cardinality(CodeGuessing(c)') = Cardinality(CodeGuessing(c))
            - One(h \in CodeGuessing(c)) + One(h \in CodeGuessing(c)')
  BY <1>2, <1>3, DifferInOne
<1>7. /\ Cardinality(CodeBumping(c)) \in Nat /\ Cardinality(CodeBumping(c)') \in Nat
      /\ Cardinality(CodeBumping(c)') = Cardinality(CodeBumping(c))
            - One(h \in CodeBumping(c)) + One(h \in CodeBumping(c)')
  BY <1>2, <1>4, DifferInOne
<1>8. /\ Cardinality(CodeEntering(c)) \in Nat /\ Cardinality(CodeEntering(c)') \in Nat
      /\ Cardinality(CodeEntering(c)') = Cardinality(CodeEntering(c))
            - One(h \in CodeEntering(c)) + One(h \in CodeEntering(c)')
  BY <1>2, <1>5, DifferInOne
<1>9. QED
  BY <1>3, <1>4, <1>5, <1>6, <1>7, <1>8 DEF One

LEMMA CodeInvInit == ASSUME CodeAssumptions PROVE Codes!Init => CodeInv
<1> SUFFICES ASSUME Codes!Init PROVE CodeInv
  OBVIOUS
<1>1. CodeTypes
  BY DEF Codes!Init, CodeTypes, Codes!Times, CodeAssumptions,
         Codes!BoundsAssumption
<1>2. \A h \in Handlers : codeTask[h] = Codes!Rest
  BY DEF Codes!Init
<1>3. CodeTaskInv
  BY <1>2, CodeRestShape DEF CodeTaskInv, CodeWorking
<1>4. ASSUME NEW c \in Codes!CodeIds PROVE CodeGuessInv(c) /\ CodeLoginInv(c)
  <2>1. CodeGuessing(c) = {} /\ CodeBumping(c) = {} /\ CodeEntering(c) = {}
    BY <1>2, CodeRestShape DEF CodeGuessing, CodeBumping, CodeEntering
  <2>2. Cardinality({}) = 0
    BY FS_EmptySet
  <2>3. wrong[c] = 0 /\ signed[c] = 0 /\ c \notin DOMAIN codes
    BY DEF Codes!Init
  <2>4. QED
    BY <1>1, <2>1, <2>2, <2>3, CodeNumberShape DEF CodeGuessInv, CodeLoginInv
<1>5. QED
  BY <1>1, <1>3, <1>4 DEF CodeInv

-----------------------------------------------------------------------------
(***************************************************************************)
(* Inv, step by step.                                                      *)
(***************************************************************************)
\* A handler that takes a task at a code that was issued.
LEMMA CodeTaskTaken ==
    ASSUME CodeAssumptions, CodeInv, NEW h \in Handlers, NEW t, Codes!Goto(h, t),
           issued' \in Int, issued <= issued',
           t.do \in CodeWorking => t.code <= issued'
    PROVE  CodeTaskInv'
<1>1. codeTask'[h] = t /\ \A k \in Handlers : k # h => codeTask'[k] = codeTask[k]
  BY DEF Codes!Goto, CodeInv, CodeTypes
<1>2. ASSUME NEW k \in Handlers, codeTask'[k].do \in CodeWorking
      PROVE  codeTask'[k].code <= issued'
  <2>1. CASE k = h
    BY <1>1, <1>2, <2>1
  <2>2. CASE k # h
    <3>1. codeTask[k].do \in CodeWorking /\ codeTask'[k].code = codeTask[k].code
      BY <1>1, <1>2, <2>2
    <3>2. codeTask[k] # Codes!Rest
      BY <3>1, CodeRestShape DEF CodeWorking
    <3>3. codeTask[k].code \in Nat /\ issued \in Nat
      BY <3>1, <3>2, CodeTaskShape, CodeNumberShape DEF CodeInv
    <3>4. QED
      BY <3>1, <3>3 DEF CodeInv, CodeTaskInv
  <2>3. QED
    BY <2>1, <2>2
<1>3. QED
  BY <1>2 DEF CodeTaskInv

\* The counts of handlers as they are used below.
LEMMA CodeInvCounts ==
    ASSUME CodeAssumptions, CodeInv, NEW c \in Codes!CodeIds
    PROVE  /\ Cardinality(CodeGuessing(c)) \in Nat /\ Cardinality(CodeBumping(c)) \in Nat
           /\ Cardinality(CodeEntering(c)) \in Nat
           /\ Cardinality(CodeGuessing(c)) <= Cardinality(Handlers)
<1>1. CodeGuessing(c) \subseteq Handlers /\ CodeBumping(c) \subseteq Handlers
      /\ CodeEntering(c) \subseteq Handlers /\ IsFiniteSet(Handlers)
  BY CodeNumberShape DEF CodeInv, CodeGuessing, CodeBumping, CodeEntering
<1>2. QED
  BY <1>1, FS_Subset, FS_CardinalityType

\* A handler goes on with something that is neither a guess nor a login.
LEMMA CodeHandlerQuiet ==
    ASSUME CodeAssumptions, CodeInv, NEW h \in Handlers, NEW t \in Codes!Tasks \cup {Codes!Rest},
           Codes!Goto(h, t), UNCHANGED <<codeClock, codes, issued, codePurge, wrong, signed>>,
           codeTask[h].do # "bump",
           t.do \notin {"verify", "bump", "login"},
           t.do = "consume" => t.code <= issued
    PROVE  CodeInv'
<1>1. CodeTypes'
  BY DEF CodeInv, CodeTypes, Codes!Goto
<1>2. CodeTaskInv'
  <2>1. issued' \in Int /\ issued <= issued'
    BY CodeNumberShape DEF CodeInv
  <2>2. QED
    BY <2>1, CodeTaskTaken DEF CodeWorking
<1>3. ASSUME NEW c \in Codes!CodeIds PROVE (CodeGuessInv(c) /\ CodeLoginInv(c))'
  <2>1. /\ ~CodeIsGuess(t, c) /\ ~CodeIsBump(t, c) /\ ~CodeIsLogin(t, c)
        /\ ~CodeIsBump(codeTask[h], c)
    BY DEF CodeIsGuess, CodeIsBump, CodeIsLogin
  <2>2. /\ Cardinality(CodeBumping(c)') = Cardinality(CodeBumping(c))
        /\ Cardinality(CodeGuessing(c)') <= Cardinality(CodeGuessing(c))
        /\ Cardinality(CodeEntering(c)') <= Cardinality(CodeEntering(c))
        /\ Cardinality(CodeGuessing(c)') \in Nat /\ Cardinality(CodeEntering(c)') \in Nat
    BY <2>1, CodeCounts DEF One, CodeInv
  <2>3. QED
    BY <1>3, <2>2, CodeInvCounts, CodeNumberShape
       DEF CodeInv, CodeGuessInv, CodeLoginInv
<1>4. QED
  BY <1>1, <1>2, <1>3 DEF CodeInv

\* Nobody moves; codes are at most taken away.
LEMMA CodeHandlersRest ==
    ASSUME CodeAssumptions, CodeInv, UNCHANGED <<issued, codeTask, wrong, signed>>,
           CodeTypes',
           DOMAIN codes' \subseteq DOMAIN codes,
           \A c \in DOMAIN codes' : codes'[c] = codes[c]
    PROVE  CodeInv'
<1>1. CodeTaskInv'
  BY DEF CodeInv, CodeTaskInv
<1>2. ASSUME NEW c \in Codes!CodeIds PROVE (CodeGuessInv(c) /\ CodeLoginInv(c))'
  BY <1>2 DEF CodeInv, CodeGuessInv, CodeLoginInv, CodeGuessing, CodeBumping,
         CodeEntering
<1>3. QED
  BY <1>1, <1>2 DEF CodeInv

LEMMA CodeRequestCodeStep ==
    ASSUME CodeAssumptions, CodeInv, NEW h \in Handlers,
           Codes!Ask(h) \/ Codes!ReadLast(h) \/ Codes!CountCodes(h)
    PROVE  CodeInv'
<1>1. PICK t : Codes!Goto(h, t) /\ t \in Codes!Tasks \cup {Codes!Rest}
               /\ codeTask[h].do # "bump"
               /\ t.do \notin {"verify", "bump", "login", "consume"}
  <2>1. codeClock \in Codes!Times
    BY DEF CodeInv, CodeTypes
  <2>2. CASE Codes!Ask(h)
    <3>1. [do |-> "ask", at |-> codeClock] \in Codes!Tasks
      BY <2>1 DEF Codes!Tasks
    <3>2. QED
      BY <2>2, <3>1, CodeRestShape DEF Codes!Ask
  <2>3. CASE Codes!ReadLast(h)
    <3>1. codeTask[h].do = "ask" /\ codeTask[h] # Codes!Rest
      BY <2>3, CodeRestShape DEF Codes!ReadLast
    <3>2. codeTask[h] = [do |-> "ask", at |-> codeTask[h].at] /\ codeTask[h].at \in Codes!Times
      BY <3>1, CodeTaskShape DEF CodeInv
    <3>3. [codeTask[h] EXCEPT !.do = "count"] = [do |-> "count", at |-> codeTask[h].at]
      BY <3>2
    <3>4. [do |-> "count", at |-> codeTask[h].at] \in Codes!Tasks
      BY <3>2 DEF Codes!Tasks
    <3>5. Codes!Goto(h, Codes!Rest) \/ Codes!Goto(h, [do |-> "count", at |-> codeTask[h].at])
      BY <2>3, <3>3 DEF Codes!ReadLast
    <3>6. QED
      BY <3>1, <3>4, <3>5, CodeRestShape
  <2>4. CASE Codes!CountCodes(h)
    <3>1. [do |-> "store", at |-> codeClock] \in Codes!Tasks
      BY <2>1 DEF Codes!Tasks
    <3>2. codeTask[h].do = "count"
          /\ (Codes!Goto(h, Codes!Rest) \/ Codes!Goto(h, [do |-> "store", at |-> codeClock]))
      BY <2>4 DEF Codes!CountCodes
    <3>3. QED
      BY <3>1, <3>2, CodeRestShape
  <2>5. QED
    BY <2>2, <2>3, <2>4
<1>2. UNCHANGED <<codeClock, codes, issued, codePurge, wrong, signed>>
  BY DEF Codes!Ask, Codes!ReadLast, Codes!CountCodes, Codes!tables,
         Codes!guesses
<1>3. QED
  BY <1>1, <1>2, CodeHandlerQuiet

LEMMA CodeCreateOTPStep ==
    ASSUME CodeAssumptions, CodeInv, NEW h \in Handlers, Codes!CreateOTP(h)
    PROVE  CodeInv'
<1> DEFINE n == issued + 1
           row == [created |-> codeClock, expires |-> codeTask[h].at + CodeTTL,
                   attempts |-> 0, consumed |-> FALSE]
<1>1. /\ codeTask[h].do = "store" /\ issued < MaxCodes /\ issued' = n
      /\ codes' = Codes!Put(codes, n, row) /\ Codes!Goto(h, Codes!Rest)
      /\ UNCHANGED <<codeClock, codePurge, wrong, signed>>
  BY DEF Codes!CreateOTP, Codes!guesses
<1>2. n \in Codes!CodeIds /\ n \in Nat /\ n \notin DOMAIN codes /\ issued \in Nat
  BY <1>1, CodeNumberShape DEF CodeInv, CodeTypes, Codes!CodeIds
<1>3. row \in Codes!Codes
  <2>1. codeTask[h] # Codes!Rest
    BY <1>1, CodeRestShape
  <2>2. codeTask[h].at \in Nat /\ CodeTTL \in Nat
    BY <2>1, CodeTaskShape, CodeNumberShape DEF CodeInv
  <2>3. QED
    BY <2>2 DEF Codes!Codes, CodeInv, CodeTypes
<1>4. /\ DOMAIN codes' = DOMAIN codes \cup {n} /\ codes'[n] = row
      /\ \A c \in DOMAIN codes : codes'[c] = codes[c]
      /\ codes' = [c \in DOMAIN codes' |-> codes'[c]]
  BY <1>1, <1>2 DEF Codes!Put
<1> HIDE DEF row
<1>5. CodeTypes'
  <2>1. issued' \in 0 .. MaxCodes /\ DOMAIN codes' \subseteq 1 .. issued'
    BY <1>1, <1>2, <1>4 DEF CodeInv, CodeTypes, Codes!CodeIds
  <2>2. codes' \in [DOMAIN codes' -> Codes!Codes]
    BY <1>3, <1>4 DEF CodeInv, CodeTypes
  <2>3. QED
    BY <1>1, <2>1, <2>2 DEF CodeInv, CodeTypes, Codes!Goto
<1>6. CodeTaskInv'
  BY <1>1, <1>2, CodeTaskTaken, CodeRestShape DEF CodeWorking
<1>7. ASSUME NEW c \in Codes!CodeIds PROVE (CodeGuessInv(c) /\ CodeLoginInv(c))'
  <2>1. /\ ~CodeIsBump(codeTask[h], c) /\ ~CodeIsGuess(codeTask[h], c) /\ ~CodeIsLogin(codeTask[h], c)
    BY <1>1 DEF CodeIsBump, CodeIsGuess, CodeIsLogin
  <2>2. /\ Cardinality(CodeBumping(c)') = Cardinality(CodeBumping(c))
        /\ Cardinality(CodeGuessing(c)') = Cardinality(CodeGuessing(c))
        /\ Cardinality(CodeEntering(c)') = Cardinality(CodeEntering(c))
    BY <1>1, <2>1, CodeRestShape, CodeCounts DEF One, CodeInv
  <2>3. c \in Nat /\ wrong[c] \in Int /\ signed[c] \in Nat
    BY CodeNumberShape DEF CodeInv
  <2>4. CASE c # n
    <3>1. /\ c \in DOMAIN codes' <=> c \in DOMAIN codes
          /\ c \in DOMAIN codes => codes'[c] = codes[c]
          /\ c > issued' => c > issued
      BY <1>1, <1>2, <1>4, <2>3, <2>4
    <3>2. QED
      BY <1>1, <1>7, <2>2, <3>1 DEF CodeInv, CodeGuessInv, CodeLoginInv
  <2>5. CASE c = n
    <3>1. c > issued /\ ~(c > issued')
      BY <1>1, <1>2, <2>5
    <3>2. wrong[c] = 0 /\ signed[c] = 0
      BY <1>7, <3>1 DEF CodeInv, CodeGuessInv, CodeLoginInv
    <3>3. Cardinality(CodeBumping(c)) = 0
      BY <1>7, <3>2, CodeInvCounts DEF CodeInv, CodeGuessInv
    <3>4. Cardinality(CodeEntering(c)) = 0
      <4>1. ASSUME NEW k \in Handlers PROVE ~CodeIsLogin(codeTask[k], c)
        <5>1. CASE codeTask[k].do = "login"
          <6>1. codeTask[k] # Codes!Rest /\ codeTask[k].do \in CodeWorking
            BY <5>1, CodeRestShape DEF CodeWorking
          <6>2. codeTask[k].code <= issued /\ codeTask[k].code \in Nat
            BY <6>1, CodeTaskShape, CodeNumberShape DEF CodeInv, CodeTaskInv
          <6>3. QED
            BY <1>2, <3>1, <6>2 DEF CodeIsLogin
        <5>2. QED
          BY <5>1 DEF CodeIsLogin
      <4>2. CodeEntering(c) = {}
        BY <4>1 DEF CodeEntering
      <4>3. QED
        BY <4>2, FS_EmptySet
    <3>5. codes'[c].attempts = 0 /\ wrong'[c] = wrong[c] /\ signed'[c] = signed[c]
      BY <1>1, <1>4, <2>5 DEF row
    <3>6. QED
      BY <1>7, <2>2, <3>1, <3>2, <3>3, <3>4, <3>5
         DEF CodeInv, CodeGuessInv, CodeLoginInv
  <2>6. QED
    BY <2>4, <2>5
<1>8. QED
  BY <1>5, <1>6, <1>7 DEF CodeInv

LEMMA CodeLatestShape ==
    ASSUME CodeAssumptions, CodeTypes, DOMAIN codes # {}
    PROVE  /\ Codes!Latest \in DOMAIN codes /\ Codes!Latest \in Codes!CodeIds /\ Codes!Latest <= issued
           /\ codes[Codes!Latest] \in Codes!Codes
<1>1. \E c \in DOMAIN codes : \A d \in DOMAIN codes : d <= c
  BY CodeNumberShape, GreatestOf DEF CodeTypes
<1>2. Codes!Latest \in DOMAIN codes
  BY <1>1 DEF Codes!Latest
<1>3. QED
  BY <1>2, CodeNumberShape DEF CodeTypes, Codes!CodeIds

\* A code that is read with attempts to spare has refused few guesses.
LEMMA CodeLatestOTPStep ==
    ASSUME CodeAssumptions, CodeInv, NEW h \in Handlers, Codes!LatestOTP(h)
    PROVE  CodeInv'
<1> DEFINE l == Codes!Latest
           t == [do |-> "verify", at |-> codeClock, code |-> l, row |-> codes[l]]
<1>1. /\ codeTask[h] = Codes!Rest /\ Codes!Goto(h, t)
      /\ UNCHANGED <<codeClock, codes, issued, codePurge, wrong, signed>>
  BY DEF Codes!LatestOTP, Codes!tables, Codes!guesses
<1>2. l \in DOMAIN codes /\ l \in Codes!CodeIds /\ l <= issued /\ codes[l] \in Codes!Codes
  BY CodeLatestShape DEF Codes!LatestOTP, CodeInv
<1> HIDE DEF l
<1>3. t \in Codes!Tasks
  BY <1>2 DEF Codes!Tasks, CodeInv, CodeTypes
<1>4. CodeTypes'
  BY <1>1, <1>3 DEF CodeInv, CodeTypes, Codes!Goto
<1>5. CodeTaskInv'
  BY <1>1, <1>2, CodeTaskTaken, CodeNumberShape DEF CodeInv
<1>6. ASSUME NEW c \in Codes!CodeIds PROVE (CodeGuessInv(c) /\ CodeLoginInv(c))'
  <2>1. /\ ~CodeIsBump(codeTask[h], c) /\ ~CodeIsGuess(codeTask[h], c) /\ ~CodeIsLogin(codeTask[h], c)
        /\ ~CodeIsBump(t, c) /\ ~CodeIsLogin(t, c)
        /\ CodeIsGuess(t, c) <=> c = l /\ codes[l].attempts < MaxAttempts
    BY <1>1, CodeRestShape DEF CodeIsBump, CodeIsGuess, CodeIsLogin
  <2>2. /\ Cardinality(CodeBumping(c)') = Cardinality(CodeBumping(c))
        /\ Cardinality(CodeEntering(c)') = Cardinality(CodeEntering(c))
        /\ Cardinality(CodeGuessing(c)') =
              Cardinality(CodeGuessing(c)) + One(CodeIsGuess(t, c))
    BY <1>1, <2>1, CodeCounts DEF One, CodeInv
  <2>3. CodeLoginInv(c)'
    BY <1>1, <1>6, <2>2 DEF CodeInv, CodeLoginInv
  <2>4. CASE ~CodeIsGuess(t, c)
    <3>1. Cardinality(CodeGuessing(c)') = Cardinality(CodeGuessing(c))
      BY <1>6, <2>2, <2>4, CodeInvCounts DEF One
    <3>2. QED
      BY <1>1, <1>6, <2>2, <2>3, <3>1 DEF CodeInv, CodeGuessInv
  <2>5. CASE CodeIsGuess(t, c)
    \* the handlers that guess or count are different ones, and all of them
    <3>1. c \in DOMAIN codes /\ codes[c].attempts < MaxAttempts
          /\ codes[c].attempts \in Nat
      BY <1>2, <2>1, <2>5 DEF Codes!Codes
    <3>2. wrong[c] = codes[c].attempts + Cardinality(CodeBumping(c))
      BY <1>6, <3>1 DEF CodeInv, CodeGuessInv
    <3>3. Cardinality(CodeBumping(c)') + Cardinality(CodeGuessing(c)')
             <= Cardinality(Handlers)
      <4>1. /\ CodeBumping(c)' \subseteq Handlers /\ CodeGuessing(c)' \subseteq Handlers
            /\ CodeBumping(c)' \cap CodeGuessing(c)' = {}
        BY DEF CodeBumping, CodeGuessing, CodeIsBump, CodeIsGuess
      <4>2. /\ IsFiniteSet(CodeBumping(c)') /\ IsFiniteSet(CodeGuessing(c)')
            /\ IsFiniteSet(Handlers)
        BY <4>1, FS_Subset, CodeNumberShape DEF CodeInv
      <4>3. Cardinality(CodeBumping(c)' \cup CodeGuessing(c)') =
               Cardinality(CodeBumping(c)') + Cardinality(CodeGuessing(c)')
                  - Cardinality(CodeBumping(c)' \cap CodeGuessing(c)')
        BY <4>2, FS_Union
      <4>4. Cardinality(CodeBumping(c)' \cup CodeGuessing(c)') <= Cardinality(Handlers)
        BY <4>1, <4>2, FS_Subset
      <4>5. Cardinality(CodeBumping(c)' \cap CodeGuessing(c)') = 0
        BY <4>1, FS_EmptySet
      <4>6. Cardinality(CodeBumping(c)') \in Nat /\ Cardinality(CodeGuessing(c)') \in Nat
        BY <4>2, FS_CardinalityType
      <4>7. QED
        BY <4>3, <4>4, <4>5, <4>6
    <3>4. wrong[c] + Cardinality(CodeGuessing(c)') <=
             MaxAttempts - 1 + Cardinality(Handlers)
      <4>1. Cardinality(CodeGuessing(c)') \in Nat
        BY <1>1, CodeCounts DEF CodeInv
      <4>2. QED
        BY <1>6, <2>2, <3>1, <3>2, <3>3, <4>1, CodeInvCounts,
           CodeNumberShape DEF CodeInv
    <3>5. QED
      BY <1>1, <1>6, <2>2, <2>3, <3>4 DEF CodeInv, CodeGuessInv
  <2>6. QED
    BY <2>4, <2>5
<1>7. QED
  BY <1>4, <1>5, <1>6 DEF CodeInv

LEMMA CodeCodeWrongStep ==
    ASSUME CodeAssumptions, CodeInv, NEW h \in Handlers, Codes!CodeWrong(h)
    PROVE  CodeInv'
<1> DEFINE l == codeTask[h].code
           t == [do |-> "bump", at |-> codeTask[h].at, code |-> l]
<1>1. /\ codeTask[h].do = "verify" /\ Codes!Usable(codeTask[h].row) /\ Codes!Goto(h, t)
      /\ wrong' = [wrong EXCEPT ![l] = @ + 1]
      /\ UNCHANGED <<codeClock, codes, issued, codePurge, signed>>
  BY DEF Codes!CodeWrong, Codes!tables
<1>2. /\ codeTask[h] # Codes!Rest /\ l \in Codes!CodeIds /\ l <= issued
      /\ codeTask[h].at \in Codes!Times
  BY <1>1, CodeRestShape, CodeTaskShape DEF CodeInv, CodeTaskInv, CodeWorking
<1>3. t \in Codes!Tasks
  BY <1>2 DEF Codes!Tasks
<1>4. CodeTypes'
  BY <1>1, <1>2, <1>3 DEF CodeInv, CodeTypes, Codes!Goto
<1>5. CodeTaskInv'
  BY <1>1, <1>2, CodeTaskTaken, CodeNumberShape DEF CodeInv
<1>6. ASSUME NEW c \in Codes!CodeIds PROVE (CodeGuessInv(c) /\ CodeLoginInv(c))'
  <2>1. /\ ~CodeIsBump(codeTask[h], c) /\ ~CodeIsLogin(codeTask[h], c)
        /\ ~CodeIsGuess(t, c) /\ ~CodeIsLogin(t, c)
        /\ CodeIsBump(t, c) <=> c = l
        /\ CodeIsGuess(codeTask[h], c) <=> c = l
    BY <1>1 DEF CodeIsBump, CodeIsGuess, CodeIsLogin, Codes!Usable
  <2>2. /\ Cardinality(CodeBumping(c)') = Cardinality(CodeBumping(c)) + One(c = l)
        /\ Cardinality(CodeEntering(c)') = Cardinality(CodeEntering(c))
        /\ Cardinality(CodeGuessing(c)') = Cardinality(CodeGuessing(c)) - One(c = l)
    BY <1>1, <2>1, CodeCounts DEF One, CodeInv
  <2>3. CodeLoginInv(c)'
    BY <1>1, <1>6, <2>2 DEF CodeInv, CodeLoginInv
  <2>4. wrong'[c] = wrong[c] + One(c = l)
    BY <1>1, <1>6, CodeNumberShape DEF One, CodeInv, CodeTypes
  <2>5. /\ One(c = l) \in 0 .. 1 /\ wrong[c] \in Int
        /\ c = l => ~(c > issued)
    BY <1>2, <1>6, CodeNumberShape DEF One, CodeInv
  <2>6. c \in DOMAIN codes => codes[c].attempts \in Nat
    BY DEF CodeInv, CodeTypes, Codes!Codes
  <2>7. CodeGuessInv(c)'
    <3>1. c > issued => One(c = l) = 0
      BY <2>5 DEF One
    <3>2. CodeGuessInv(c)
      BY <1>6 DEF CodeInv
    <3>3. QED
      BY <1>1, <1>6, <2>2, <2>4, <2>5, <2>6, <3>1, <3>2, CodeInvCounts,
         CodeNumberShape
         DEF CodeInv, CodeGuessInv
  <2>8. QED
    BY <2>3, <2>7
<1>7. QED
  BY <1>4, <1>5, <1>6 DEF CodeInv

\* The attempt is counted, or it could not be and is forgotten.
LEMMA CodeBumpStep ==
    ASSUME CodeAssumptions, CodeInv, NEW h \in Handlers, codeTask[h].do = "bump",
           Codes!BumpOTPAttempts(h) \/ Codes!Fails(h)
    PROVE  CodeInv'
<1> DEFINE l == codeTask[h].code
<1>1. /\ Codes!Goto(h, Codes!Rest) /\ UNCHANGED <<codeClock, issued, codePurge, signed>>
      /\ \/ /\ wrong' = wrong
            /\ codes' = IF l \in DOMAIN codes
                        THEN [codes EXCEPT ![l].attempts = @ + 1] ELSE codes
         \/ codes' = codes /\ wrong' = [wrong EXCEPT ![l] = @ - 1]
  BY DEF Codes!BumpOTPAttempts, Codes!Fails, Codes!tables, Codes!guesses
<1>2. codeTask[h] # Codes!Rest /\ l \in Codes!CodeIds
  BY CodeRestShape, CodeTaskShape DEF CodeInv, CodeWorking
<1>3. /\ DOMAIN codes' = DOMAIN codes
      /\ \A c \in DOMAIN codes :
            codes[c] \in Codes!Codes /\ codes[c].attempts \in Nat
  BY <1>1 DEF CodeInv, CodeTypes, Codes!Codes
<1>4. \A c \in DOMAIN codes :
         /\ codes'[c] \in Codes!Codes /\ codes'[c].consumed = codes[c].consumed
         /\ codes'[c].attempts = codes[c].attempts
               + One(c = l /\ wrong' = wrong /\ codes' # codes)
  <2>1. ASSUME NEW c \in DOMAIN codes, codes'[c] = codes[c],
               ~(c = l /\ codes' # codes)
        PROVE  codes'[c].attempts = codes[c].attempts + One(FALSE)
    BY <1>3, <2>1 DEF One
  <2>2. ASSUME l \in DOMAIN codes,
               codes' = [codes EXCEPT ![l].attempts = @ + 1]
        PROVE  /\ codes'[l] = [codes[l] EXCEPT !.attempts = @ + 1]
               /\ codes'[l] \in Codes!Codes
               /\ codes'[l].consumed = codes[l].consumed
               /\ codes'[l].attempts = codes[l].attempts + 1
               /\ codes' # codes
               /\ \A c \in DOMAIN codes : c # l => codes'[c] = codes[c]
    <3>1. codes'[l] = [codes[l] EXCEPT !.attempts = @ + 1]
      BY <2>2 DEF CodeInv, CodeTypes
    <3>2. codes[l] \in Codes!Codes /\ codes[l].attempts \in Nat
      BY <1>3, <2>2
    <3>3. codes'[l].attempts = codes[l].attempts + 1
          /\ codes'[l].consumed = codes[l].consumed /\ codes'[l] \in Codes!Codes
      BY <3>1, <3>2 DEF Codes!Codes
    <3>4. codes' # codes
      BY <3>2, <3>3
    <3>5. QED
      BY <2>2, <3>1, <3>3, <3>4 DEF CodeInv, CodeTypes
  <2>3. CASE codes' = codes
    BY <1>3, <2>3 DEF One
  <2>4. CASE codes' # codes
    <3>1. /\ l \in DOMAIN codes /\ wrong' = wrong
          /\ codes' = [codes EXCEPT ![l].attempts = @ + 1]
      BY <1>1, <2>4
    <3>2. QED
      BY <1>3, <2>2, <2>4, <3>1 DEF One
  <2>5. QED
    BY <2>3, <2>4
<1>5. codes' \in [DOMAIN codes' -> Codes!Codes]
  BY <1>1, <1>3, <1>4 DEF CodeInv, CodeTypes
<1>6. CodeTypes'
  BY <1>1, <1>2, <1>3, <1>5 DEF CodeInv, CodeTypes, Codes!Goto
<1>7. CodeTaskInv'
  BY <1>1, CodeTaskTaken, CodeRestShape, CodeNumberShape
     DEF CodeInv, CodeWorking
<1>8. ASSUME NEW c \in Codes!CodeIds PROVE (CodeGuessInv(c) /\ CodeLoginInv(c))'
  <2>1. /\ ~CodeIsGuess(codeTask[h], c) /\ ~CodeIsLogin(codeTask[h], c)
        /\ CodeIsBump(codeTask[h], c) <=> c = l
    BY DEF CodeIsBump, CodeIsGuess, CodeIsLogin
  <2>2. /\ Cardinality(CodeBumping(c)') = Cardinality(CodeBumping(c)) - One(c = l)
        /\ Cardinality(CodeEntering(c)') = Cardinality(CodeEntering(c))
        /\ Cardinality(CodeGuessing(c)') = Cardinality(CodeGuessing(c))
        /\ Cardinality(CodeBumping(c)') \in Nat
    BY <1>1, <2>1, CodeRestShape, CodeCounts DEF One, CodeInv
  <2>3. CodeLoginInv(c)'
    BY <1>1, <1>3, <1>4, <1>8, <2>2 DEF CodeInv, CodeLoginInv
  <2>4. CodeGuessInv(c) /\ wrong[c] \in Int
    BY <1>8, CodeNumberShape DEF CodeInv
  <2>5. One(c = l) \in 0 .. 1
    BY DEF One
  <2>6. CASE wrong' = wrong
    <3>1. c \in DOMAIN codes =>
             codes'[c].attempts = codes[c].attempts + One(c = l)
      <4>1. ASSUME c \in DOMAIN codes, c = l
            PROVE  codes' # codes
        <5>1. CASE codes' = [codes EXCEPT ![l].attempts = @ + 1]
          <6>1. codes'[l].attempts = codes[l].attempts + 1
            BY <4>1, <5>1, <1>3 DEF CodeInv, CodeTypes, Codes!Codes
          <6>2. QED
            BY <1>3, <4>1, <6>1
        <5>2. CASE wrong' = [wrong EXCEPT ![l] = @ - 1]
          <6>1. wrong'[l] = wrong[l] - 1
            BY <1>2, <5>2 DEF CodeInv, CodeTypes
          <6>2. QED
            BY <2>4, <2>6, <4>1, <6>1
        <5>3. QED
          BY <1>1, <4>1, <5>1, <5>2
      <4>2. QED
        BY <1>4, <2>6, <4>1 DEF One
    <3>2. QED
      BY <1>1, <1>3, <1>8, <2>2, <2>3, <2>4, <2>5, <2>6, <3>1, CodeInvCounts
         DEF CodeGuessInv
  <2>7. CASE wrong' # wrong
    <3>1. codes' = codes /\ wrong' = [wrong EXCEPT ![l] = @ - 1]
      BY <1>1, <2>7
    <3>2. wrong'[c] = wrong[c] - One(c = l)
      BY <1>8, <2>4, <3>1 DEF One, CodeInv, CodeTypes
    <3>3. Cardinality(CodeBumping(c)) <= wrong[c]
      BY <2>4 DEF CodeGuessInv
    <3>4. c > issued => c # l
      BY <1>2, <1>8, CodeNumberShape DEF CodeInv, CodeTaskInv, CodeWorking
    <3>5. \/ c # l /\ One(c = l) = 0
          \/ c = l /\ One(c = l) = 1
      BY DEF One
    <3>6. QED
      BY <1>1, <1>3, <1>8, <2>2, <2>3, <2>4, <3>1, <3>2, <3>3, <3>4, <3>5,
         CodeInvCounts, CodeNumberShape DEF CodeGuessInv, CodeInv
  <2>8. QED
    BY <2>6, <2>7
<1>9. QED
  BY <1>6, <1>7, <1>8 DEF CodeInv

\* The code is refused, or is right, or its handler ends before a change.
LEMMA CodeQuietVerifyStep ==
    ASSUME CodeAssumptions, CodeInv, NEW h \in Handlers,
           \/ Codes!CodeRefused(h) \/ Codes!CodeRight(h)
           \/ Codes!Fails(h) /\ codeTask[h].do # "bump"
    PROVE  CodeInv'
<1>1. UNCHANGED <<codeClock, codes, issued, codePurge, wrong, signed>>
  BY DEF Codes!CodeRefused, Codes!CodeRight, Codes!Fails, Codes!tables,
         Codes!guesses
<1>2. codeTask[h].do # "bump"
  BY DEF Codes!CodeRefused, Codes!CodeRight
<1>3. CASE Codes!Goto(h, Codes!Rest)
  BY <1>1, <1>2, <1>3, CodeHandlerQuiet, CodeRestShape
<1>4. CASE Codes!CodeRight(h)
  <2> DEFINE t == [do |-> "consume", at |-> codeTask[h].at, code |-> codeTask[h].code]
  <2>1. codeTask[h].do = "verify" /\ Codes!Goto(h, t)
    BY <1>4 DEF Codes!CodeRight
  <2>2. codeTask[h] # Codes!Rest /\ codeTask[h].code \in Codes!CodeIds /\ codeTask[h].at \in Codes!Times
        /\ codeTask[h].code <= issued
    BY <2>1, CodeRestShape, CodeTaskShape DEF CodeInv, CodeTaskInv, CodeWorking
  <2>3. t \in Codes!Tasks
    BY <2>2 DEF Codes!Tasks
  <2>4. t.do = "consume" /\ t.code <= issued
    BY <2>2
  <2> HIDE DEF t
  <2>5. QED
    BY <1>1, <1>2, <2>1, <2>3, <2>4, CodeHandlerQuiet
<1>5. QED
  BY <1>3, <1>4 DEF Codes!CodeRefused, Codes!Fails

\* Of all handlers with a right code, one changes the row.
LEMMA CodeConsumeOTPStep ==
    ASSUME CodeAssumptions, CodeInv, NEW h \in Handlers, Codes!ConsumeOTP(h)
    PROVE  CodeInv'
<1> DEFINE l == codeTask[h].code
           t == [codeTask[h] EXCEPT !.do = "login"]
<1>1. codeTask[h].do = "consume"
      /\ UNCHANGED <<codeClock, issued, codePurge, wrong, signed>>
  BY DEF Codes!ConsumeOTP, Codes!guesses
<1>2. CASE ~Codes!Consumable(l)
  <2>1. Codes!Goto(h, Codes!Rest) /\ UNCHANGED codes
    BY <1>2 DEF Codes!ConsumeOTP
  <2>2. QED
    BY <1>1, <2>1, CodeHandlerQuiet, CodeRestShape
<1>3. CASE Codes!Consumable(l)
  <2>1. /\ l \in DOMAIN codes /\ ~codes[l].consumed
        /\ codes' = [codes EXCEPT ![l].consumed = TRUE] /\ Codes!Goto(h, t)
    BY <1>3 DEF Codes!ConsumeOTP, Codes!Consumable
  <2>2. /\ codeTask[h] # Codes!Rest /\ l \in Codes!CodeIds /\ l <= issued
        /\ codeTask[h] = [do |-> "consume", at |-> codeTask[h].at, code |-> l]
        /\ codeTask[h].at \in Codes!Times
    BY <1>1, CodeRestShape, CodeTaskShape DEF CodeInv, CodeTaskInv, CodeWorking
  <2>3. t = [do |-> "login", at |-> codeTask[h].at, code |-> l]
    BY <2>2
  <2>4. t \in Codes!Tasks /\ t.do = "login" /\ t.code = l
    BY <2>2, <2>3 DEF Codes!Tasks
  <2> HIDE DEF t
  <2>5. /\ DOMAIN codes' = DOMAIN codes
        /\ codes'[l] = [codes[l] EXCEPT !.consumed = TRUE]
        /\ \A c \in DOMAIN codes : c # l => codes'[c] = codes[c]
    BY <2>1 DEF CodeInv, CodeTypes
  <2>6. codes[l] \in Codes!Codes
    BY <2>1 DEF CodeInv, CodeTypes
  <2>7. /\ codes'[l] \in Codes!Codes /\ codes'[l].consumed
        /\ codes'[l].attempts = codes[l].attempts
    BY <2>5, <2>6 DEF Codes!Codes
  <2>8. codes' \in [DOMAIN codes' -> Codes!Codes]
    BY <2>1, <2>5, <2>7 DEF CodeInv, CodeTypes
  <2>9. CodeTypes'
    BY <1>1, <2>1, <2>4, <2>5, <2>8 DEF CodeInv, CodeTypes, Codes!Goto
  <2>10. CodeTaskInv'
    BY <1>1, <2>1, <2>2, <2>4, CodeTaskTaken, CodeNumberShape DEF CodeInv
  <2>11. ASSUME NEW c \in Codes!CodeIds PROVE (CodeGuessInv(c) /\ CodeLoginInv(c))'
    <3>1. /\ ~CodeIsBump(codeTask[h], c) /\ ~CodeIsGuess(codeTask[h], c) /\ ~CodeIsLogin(codeTask[h], c)
          /\ ~CodeIsBump(t, c) /\ ~CodeIsGuess(t, c)
          /\ CodeIsLogin(t, c) <=> c = l
      BY <1>1, <2>4 DEF CodeIsBump, CodeIsGuess, CodeIsLogin
    <3>2. /\ Cardinality(CodeBumping(c)') = Cardinality(CodeBumping(c))
          /\ Cardinality(CodeGuessing(c)') = Cardinality(CodeGuessing(c))
          /\ Cardinality(CodeEntering(c)') = Cardinality(CodeEntering(c)) + One(c = l)
      BY <2>1, <3>1, CodeCounts DEF One, CodeInv
    <3>3. CodeGuessInv(c)'
      <4>1. c \in DOMAIN codes => codes'[c].attempts = codes[c].attempts
        BY <2>5, <2>7
      <4>2. CodeGuessInv(c)
        BY <2>11 DEF CodeInv
      <4>3. QED
        BY <1>1, <2>5, <3>2, <4>1, <4>2 DEF CodeGuessInv
    <3>4. CASE c # l
      <4>1. Cardinality(CodeEntering(c)') = Cardinality(CodeEntering(c))
        BY <2>11, <3>2, <3>4, CodeInvCounts DEF One
      <4>2. QED
        BY <1>1, <2>5, <2>11, <3>3, <3>4, <4>1 DEF CodeInv, CodeLoginInv
    <3>5. CASE c = l
      <4>1. signed[c] + Cardinality(CodeEntering(c)) = 0
        BY <2>1, <2>11, <3>5 DEF CodeInv, CodeLoginInv
      <4>2. ~(c > issued) /\ signed[c] \in Nat
        BY <2>2, <3>5, CodeNumberShape DEF CodeInv
      <4>3. signed[c] + Cardinality(CodeEntering(c)') = 1
        BY <2>11, <3>2, <3>5, <4>1, <4>2, CodeInvCounts DEF One
      <4>4. QED
        BY <1>1, <2>7, <3>3, <3>5, <4>2, <4>3 DEF CodeLoginInv
    <3>6. QED
      BY <3>4, <3>5
  <2>12. QED
    BY <2>9, <2>10, <2>11 DEF CodeInv
<1>4. QED
  BY <1>2, <1>3

LEMMA CodeCreateSessionStep ==
    ASSUME CodeAssumptions, CodeInv, NEW h \in Handlers, Codes!CreateSession(h)
    PROVE  CodeInv'
<1> DEFINE l == codeTask[h].code
<1>1. /\ codeTask[h].do = "login" /\ Codes!Goto(h, Codes!Rest)
      /\ signed' = [signed EXCEPT ![l] = @ + 1]
      /\ UNCHANGED <<codeClock, codes, issued, codePurge, wrong>>
  BY DEF Codes!CreateSession, Codes!tables
<1>2. codeTask[h] # Codes!Rest /\ l \in Codes!CodeIds /\ l <= issued
  BY <1>1, CodeRestShape, CodeTaskShape DEF CodeInv, CodeTaskInv, CodeWorking
<1>3. CodeTypes'
  BY <1>1, <1>2 DEF CodeInv, CodeTypes, Codes!Goto
<1>4. CodeTaskInv'
  BY <1>1, CodeTaskTaken, CodeRestShape, CodeNumberShape
     DEF CodeInv, CodeWorking
<1>5. ASSUME NEW c \in Codes!CodeIds PROVE (CodeGuessInv(c) /\ CodeLoginInv(c))'
  <2>1. /\ ~CodeIsBump(codeTask[h], c) /\ ~CodeIsGuess(codeTask[h], c)
        /\ CodeIsLogin(codeTask[h], c) <=> c = l
    BY <1>1 DEF CodeIsBump, CodeIsGuess, CodeIsLogin
  <2>2. /\ Cardinality(CodeBumping(c)') = Cardinality(CodeBumping(c))
        /\ Cardinality(CodeGuessing(c)') = Cardinality(CodeGuessing(c))
        /\ Cardinality(CodeEntering(c)') = Cardinality(CodeEntering(c)) - One(c = l)
        /\ Cardinality(CodeEntering(c)') \in Nat
    BY <1>1, <2>1, CodeRestShape, CodeCounts DEF One, CodeInv
  <2>3. CodeGuessInv(c)'
    BY <1>1, <1>5, <2>2 DEF CodeInv, CodeGuessInv
  <2>4. signed'[c] = signed[c] + One(c = l) /\ signed[c] \in Nat
    BY <1>1, <1>5, CodeNumberShape DEF One, CodeInv, CodeTypes
  <2>5. \/ c # l /\ One(c = l) = 0
        \/ c = l /\ One(c = l) = 1 /\ ~(c > issued)
    BY <1>2, CodeNumberShape DEF One, CodeInv
  <2>6. CodeLoginInv(c)
    BY <1>5 DEF CodeInv
  <2>7. CodeLoginInv(c)'
    BY <1>1, <1>5, <2>2, <2>4, <2>5, <2>6, CodeInvCounts DEF CodeLoginInv
  <2>8. QED
    BY <2>3, <2>7
<1>6. QED
  BY <1>3, <1>4, <1>5 DEF CodeInv

LEMMA CodeClockStep ==
    ASSUME CodeAssumptions, CodeInv,
           \/ Codes!Tick \/ Codes!PurgeExpired \/ Codes!PurgeCodes \/ Codes!PurgeFails \/ UNCHANGED Codes!vars
    PROVE  CodeInv'
<1>1. /\ DOMAIN codes' \subseteq DOMAIN codes
      /\ \A c \in DOMAIN codes' : codes'[c] = codes[c]
      /\ codes' = [c \in DOMAIN codes' |-> codes'[c]]
      /\ UNCHANGED <<issued, codeTask, wrong, signed>>
  BY DEF Codes!Tick, Codes!PurgeExpired, Codes!PurgeCodes, Codes!PurgeFails,
         Codes!vars, Codes!tables, Codes!guesses,
         Codes!Without, CodeInv, CodeTypes
<1>2. codeClock' \in Codes!Times
  BY DEF Codes!Tick, Codes!PurgeExpired, Codes!PurgeCodes, Codes!PurgeFails,
         Codes!vars, CodeInv, CodeTypes, Codes!Times,
         CodeAssumptions, Codes!BoundsAssumption
<1>3. codePurge' \in {Codes!NotRunning} \cup Codes!Times
  BY DEF Codes!Tick, Codes!PurgeExpired, Codes!PurgeCodes, Codes!PurgeFails,
         Codes!vars, CodeInv, CodeTypes
<1>4. codes' \in [DOMAIN codes' -> Codes!Codes]
  BY <1>1 DEF CodeInv, CodeTypes
<1>5. CodeTypes'
  BY <1>1, <1>2, <1>3, <1>4 DEF CodeInv, CodeTypes
<1>6. QED
  BY <1>1, <1>5, CodeHandlersRest

LEMMA CodeInvStep == ASSUME CodeAssumptions PROVE CodeInv /\ [Codes!Next]_Codes!vars => CodeInv'
<1> SUFFICES ASSUME CodeInv, [Codes!Next]_Codes!vars PROVE CodeInv'
  OBVIOUS
<1>1. ASSUME NEW h \in Handlers, Codes!RequestCode(h) PROVE CodeInv'
  BY <1>1, CodeRequestCodeStep, CodeCreateOTPStep DEF Codes!RequestCode
<1>2. ASSUME NEW h \in Handlers, Codes!Verify(h) PROVE CodeInv'
  <2>1. CASE Codes!LatestOTP(h)
    BY <2>1, CodeLatestOTPStep
  <2>2. CASE Codes!CodeRefused(h) \/ Codes!CodeRight(h)
    BY <2>2, CodeQuietVerifyStep
  <2>3. CASE Codes!CodeWrong(h)
    BY <2>3, CodeCodeWrongStep
  <2>4. CASE Codes!BumpOTPAttempts(h)
    BY <2>4, CodeBumpStep DEF Codes!BumpOTPAttempts
  <2>5. CASE Codes!ConsumeOTP(h)
    BY <2>5, CodeConsumeOTPStep
  <2>6. CASE Codes!CreateSession(h)
    BY <2>6, CodeCreateSessionStep
  <2>7. QED
    BY <1>2, <2>1, <2>2, <2>3, <2>4, <2>5, <2>6 DEF Codes!Verify
<1>3. ASSUME NEW h \in Handlers, Codes!Fails(h) PROVE CodeInv'
  BY <1>3, CodeBumpStep, CodeQuietVerifyStep
<1>4. CASE \/ Codes!Tick \/ Codes!PurgeExpired \/ Codes!PurgeCodes \/ Codes!PurgeFails
           \/ UNCHANGED Codes!vars
  BY <1>4, CodeClockStep
<1>5. QED
  BY <1>1, <1>2, <1>3, <1>4 DEF Codes!Next

-----------------------------------------------------------------------------
(***************************************************************************)
(* The tables, and what every handler has read of them, have their types;  *)
(* and no statement that fails takes back a guess that was not made.       *)
(***************************************************************************)
THEOREM CodeTypeCorrect == ASSUME CodeAssumptions PROVE Codes!Spec => []Codes!TypeOK
<1>1. ASSUME CodeInv PROVE Codes!TypeOK
  <2>1. ASSUME NEW c \in Codes!CodeIds PROVE wrong[c] \in Nat
    <3>1. wrong[c] \in Int /\ Cardinality(CodeBumping(c)) \in Nat
          /\ Cardinality(CodeBumping(c)) <= wrong[c]
      BY <1>1, <2>1, CodeInvCounts, CodeNumberShape DEF CodeInv, CodeGuessInv
    <3>2. QED
      BY <3>1
  <2>2. wrong \in [Codes!CodeIds -> Nat]
    BY <1>1, <2>1 DEF CodeInv, CodeTypes
  <2>3. QED
    BY <1>1, <2>2 DEF CodeInv, CodeTypes, Codes!TypeOK
<1>2. QED
  BY <1>1, CodeInvInit, CodeInvStep, PTL DEF Codes!Spec

(***************************************************************************)
(* checkOTP reads the attempts, compares and counts them in three          *)
(* statements: however requests overlap, a code is guessed wrong fewer     *)
(* times than MaxAttempts and the handlers there are.                      *)
(***************************************************************************)
THEOREM CodeGuessesCorrect == ASSUME CodeAssumptions PROVE Codes!Spec => []Codes!GuessesBounded
<1>1. ASSUME CodeInv PROVE Codes!GuessesBounded
  <2>1. ASSUME NEW c \in Codes!CodeIds
        PROVE  wrong[c] <= MaxAttempts - 1 + Cardinality(Handlers)
    <3>1. wrong[c] + Cardinality(CodeGuessing(c)) <=
             MaxAttempts - 1 + Cardinality(Handlers)
      BY <1>1, <2>1 DEF CodeInv, CodeGuessInv
    <3>2. QED
      BY <1>1, <2>1, <3>1, CodeInvCounts, CodeNumberShape DEF CodeInv
  <2>2. QED
    BY <2>1, CodeSets DEF Codes!GuessesBounded
<1>2. QED
  BY <1>1, CodeInvInit, CodeInvStep, PTL DEF Codes!Spec

(***************************************************************************)
(* ConsumeOTP is one conditional UPDATE: a code makes one session at most, *)
(* for any number of requests that bring it at the same time.              *)
(***************************************************************************)
THEOREM CodeSessionCorrect == ASSUME CodeAssumptions PROVE Codes!Spec => []Codes!OneSessionPerCode
<1>1. ASSUME CodeInv PROVE Codes!OneSessionPerCode
  <2>1. ASSUME NEW c \in Codes!CodeIds PROVE signed[c] <= 1
    <3>1. signed[c] + Cardinality(CodeEntering(c)) <= 1
      BY <1>1, <2>1 DEF CodeInv, CodeLoginInv
    <3>2. QED
      BY <1>1, <2>1, <3>1, CodeInvCounts, CodeNumberShape DEF CodeInv
  <2>2. QED
    BY <2>1 DEF Codes!OneSessionPerCode
<1>2. QED
  BY <1>1, CodeInvInit, CodeInvStep, PTL DEF Codes!Spec
-----------------------------------------------------------------------------
(***************************************************************************)
(* Codes by e-mail.  Who has counted and not stored yet takes its room at  *)
(* once: the codes of the Window that ends now, with the handlers about to *)
(* store one, are bounded, and so no Window that has ended holds more.     *)
(***************************************************************************)
CodeStoring == {h \in Handlers : codeTask[h].do = "store"}
CodeMade(t) == {c \in DOMAIN codes : codes[c].created \in (t - Window) .. t}
CodeMost == PerWindow + Cardinality(Handlers) - 1

CodeWindowInv ==
    /\ \A h \in Handlers : codeTask[h] # Codes!Rest => codeTask[h].at <= codeClock
    /\ \A c \in DOMAIN codes : codes[c].created <= codeClock
    /\ \A t \in Codes!Times : t <= codeClock => Cardinality(CodeMade(t)) <= CodeMost
    /\ Cardinality(Codes!Recent(codeClock)) + Cardinality(CodeStoring) <= CodeMost

LEMMA CodeWindowNumbers ==
    ASSUME CodeAssumptions, CodeTypes
    PROVE  /\ Window \in Nat /\ PerWindow \in Nat /\ PerWindow >= 1 /\ CodeMost \in Nat
           /\ \A c \in DOMAIN codes : codes[c].created \in Nat
           /\ IsFiniteSet(DOMAIN codes) /\ IsFiniteSet(CodeStoring)
           /\ Cardinality(CodeStoring) \in Nat
           /\ Cardinality(CodeStoring) <= Cardinality(Handlers)
           /\ \A t : /\ IsFiniteSet(CodeMade(t)) /\ Cardinality(CodeMade(t)) \in Nat
                     /\ IsFiniteSet(Codes!Recent(t)) /\ Cardinality(Codes!Recent(t)) \in Nat
<1>1. /\ Window \in Nat /\ PerWindow \in Nat /\ PerWindow >= 1 /\ CodeMost \in Nat
  BY CodeNumberShape DEF CodeAssumptions, Codes!TimesAssumption,
         Codes!LimitsAssumption, CodeMost
<1>2. \A c \in DOMAIN codes : codes[c].created \in Nat
  BY CodeNumberShape DEF CodeTypes, Codes!Codes
<1>3. IsFiniteSet(1 .. issued)
  BY CodeNumberShape, FS_Interval
<1>4. IsFiniteSet(DOMAIN codes)
  BY <1>3, FS_Subset DEF CodeTypes
<1>5. CodeStoring \subseteq Handlers /\ \A t : /\ CodeMade(t) \subseteq DOMAIN codes
                                          /\ Codes!Recent(t) \subseteq DOMAIN codes
  BY DEF CodeStoring, CodeMade, Codes!Recent
<1>6. /\ IsFiniteSet(CodeStoring) /\ Cardinality(CodeStoring) \in Nat
      /\ Cardinality(CodeStoring) <= Cardinality(Handlers)
  BY <1>5, CodeNumberShape, FS_Subset, FS_CardinalityType
<1>7. QED
  BY <1>1, <1>2, <1>4, <1>5, <1>6, FS_Subset, FS_CardinalityType

LEMMA CodeWindowInit == ASSUME CodeAssumptions PROVE Codes!Init => CodeWindowInv
<1> SUFFICES ASSUME Codes!Init PROVE CodeWindowInv
  OBVIOUS
<1>1. CodeTypes
  BY CodeInvInit DEF CodeInv
<1>2. CodeStoring = {} /\ \A t : CodeMade(t) = {} /\ Codes!Recent(t) = {}
  BY CodeRestShape DEF Codes!Init, CodeStoring, CodeMade, Codes!Recent
<1>3. QED
  BY <1>1, <1>2, FS_EmptySet, CodeWindowNumbers DEF Codes!Init, CodeWindowInv

\* Time passes at most, and no code and nobody who may store one is added.
LEMMA CodeNoNewCode ==
    ASSUME CodeAssumptions, CodeInv, CodeTypes', CodeWindowInv,
           codeClock' = codeClock \/ codeClock' = codeClock + 1,
           DOMAIN codes' \subseteq DOMAIN codes,
           \A c \in DOMAIN codes' : codes'[c].created = codes[c].created,
           CodeStoring' \subseteq CodeStoring,
           \A h \in Handlers : codeTask'[h] # Codes!Rest => codeTask'[h].at <= codeClock'
    PROVE  CodeWindowInv'
<1>1. codeClock \in Nat /\ codeClock' \in Nat /\ codeClock <= codeClock'
  BY CodeNumberShape DEF CodeInv
<1>2. \A c \in DOMAIN codes' : codes'[c].created <= codeClock'
  BY <1>1, CodeWindowNumbers DEF CodeWindowInv, CodeInv
<1>3. Codes!Recent(codeClock)' \subseteq Codes!Recent(codeClock)
  BY <1>1, CodeWindowNumbers DEF Codes!Recent, CodeInv
<1>4. Cardinality(Codes!Recent(codeClock)') + Cardinality(CodeStoring') <= CodeMost
  <2>1. /\ Cardinality(Codes!Recent(codeClock)') <= Cardinality(Codes!Recent(codeClock))
        /\ Cardinality(CodeStoring') <= Cardinality(CodeStoring)
        /\ Cardinality(Codes!Recent(codeClock)') \in Nat /\ Cardinality(CodeStoring') \in Nat
    BY <1>3, CodeWindowNumbers, FS_Subset, FS_CardinalityType DEF CodeInv
  <2>2. QED
    BY <2>1, CodeWindowNumbers DEF CodeWindowInv, CodeInv
<1>5. ASSUME NEW t \in Codes!Times, t <= codeClock' PROVE Cardinality(CodeMade(t)') <= CodeMost
  <2>1. t \in Nat
    BY CodeNumberShape DEF CodeInv
  <2>2. CASE t <= codeClock
    <3>1. CodeMade(t)' \subseteq CodeMade(t)
      BY DEF CodeMade
    <3>2. Cardinality(CodeMade(t)') <= Cardinality(CodeMade(t))
          /\ Cardinality(CodeMade(t)') \in Nat
      BY <3>1, CodeWindowNumbers, FS_Subset, FS_CardinalityType DEF CodeInv
    <3>3. QED
      BY <1>5, <2>2, <3>2, CodeWindowNumbers DEF CodeWindowInv, CodeInv
  <2>3. CASE ~(t <= codeClock)
    <3>1. t = codeClock'
      BY <1>1, <1>5, <2>1, <2>3
    <3>2. CodeMade(t)' \subseteq Codes!Recent(codeClock)'
      BY <2>1, <3>1, CodeWindowNumbers DEF CodeMade, Codes!Recent, CodeInv
    <3>3. Cardinality(CodeMade(t)') <= Cardinality(Codes!Recent(codeClock)')
          /\ Cardinality(CodeMade(t)') \in Nat /\ Cardinality(Codes!Recent(codeClock)') \in Nat
          /\ Cardinality(CodeStoring') \in Nat
      BY <1>3, <3>2, CodeWindowNumbers, FS_Subset, FS_CardinalityType
         DEF CodeInv
    <3>4. QED
      BY <1>4, <3>3, CodeWindowNumbers DEF CodeInv
  <2>4. QED
    BY <2>2, <2>3
<1>6. CodeMost' = CodeMost
  BY DEF CodeMost
<1>7. QED
  BY <1>2, <1>4, <1>5, <1>6 DEF CodeWindowInv

\* Whoever counts sees the whole Window, and the others at work with it.
LEMMA CodeCountWindow ==
    ASSUME CodeAssumptions, CodeInv, CodeTypes', CodeWindowInv,
           NEW h \in Handlers, Codes!CountCodes(h)
    PROVE  CodeWindowInv'
<1>1. codeTask[h].do = "count" /\ UNCHANGED <<codeClock, codes>>
  BY DEF Codes!CountCodes, Codes!tables
<1>2. codeTask[h] # Codes!Rest /\ codeTask[h].at \in Nat /\ codeTask[h].at <= codeClock /\ codeClock \in Nat
  BY <1>1, CodeRestShape, CodeTaskShape, CodeNumberShape
     DEF CodeInv, CodeWindowInv
<1>3. CASE Codes!QuotaUsedUp(codeTask[h].at)
  <2>1. Codes!Goto(h, Codes!Rest)
    BY <1>3 DEF Codes!CountCodes
  <2>2. CodeStoring' \subseteq CodeStoring
        /\ \A k \in Handlers : codeTask'[k] # Codes!Rest => codeTask'[k].at <= codeClock'
    BY <1>1, <2>1, CodeRestShape
       DEF Codes!Goto, CodeStoring, CodeInv, CodeTypes, CodeWindowInv
  <2>3. QED
    BY <1>1, <2>2, CodeNoNewCode
<1>4. CASE ~Codes!QuotaUsedUp(codeTask[h].at)
  <2> DEFINE t == [do |-> "store", at |-> codeClock]
  <2>1. codeTask' = [codeTask EXCEPT ![h] = t] /\ codeTask'[h] = t
        /\ \A k \in Handlers : k # h => codeTask'[k] = codeTask[k]
    BY <1>4 DEF Codes!CountCodes, Codes!Goto, CodeInv, CodeTypes
  <2>2. \A k \in Handlers : codeTask'[k] # Codes!Rest => codeTask'[k].at <= codeClock'
    BY <1>1, <1>2, <2>1 DEF CodeWindowInv
  <2>3. Codes!Recent(codeClock)' \subseteq Codes!Recent(codeTask[h].at)
    BY <1>1, <1>2, CodeWindowNumbers DEF Codes!Recent, CodeInv
  <2>4. /\ Cardinality(Codes!Recent(codeClock)') <= Cardinality(Codes!Recent(codeTask[h].at))
        /\ Cardinality(Codes!Recent(codeClock)') \in Nat
        /\ Cardinality(Codes!Recent(codeTask[h].at)) \in Nat
    BY <2>3, CodeWindowNumbers, FS_Subset, FS_CardinalityType DEF CodeInv
  <2>5. ~(Cardinality(Codes!Recent(codeTask[h].at)) >= PerWindow)
    BY <1>4, CodeSets DEF Codes!QuotaUsedUp
  <2>6. CodeStoring' \subseteq Handlers
    BY DEF CodeStoring
  <2>7. Cardinality(CodeStoring') <= Cardinality(Handlers)
        /\ Cardinality(CodeStoring') \in Nat
    BY <2>6, CodeNumberShape, FS_Subset, FS_CardinalityType DEF CodeInv
  <2>8. Cardinality(Codes!Recent(codeClock)') + Cardinality(CodeStoring') <= CodeMost
    BY <2>4, <2>5, <2>7, CodeWindowNumbers, CodeNumberShape
       DEF CodeMost, CodeInv
  <2>9. \A u : CodeMade(u)' = CodeMade(u)
    BY <1>1 DEF CodeMade
  <2>10. CodeMost' = CodeMost
    BY DEF CodeMost
  <2>11. QED
    BY <1>1, <2>2, <2>8, <2>9, <2>10 DEF CodeWindowInv
<1>5. QED
  BY <1>3, <1>4

\* The new code takes the room of the handler that stores it.
LEMMA CodeStoreWindow ==
    ASSUME CodeAssumptions, CodeInv, CodeTypes', CodeWindowInv,
           NEW h \in Handlers, Codes!CreateOTP(h)
    PROVE  CodeWindowInv'
<1> DEFINE n == issued'
<1>1. /\ codeTask[h].do = "store" /\ n = issued + 1 /\ codeClock' = codeClock
      /\ codeTask' = [codeTask EXCEPT ![h] = Codes!Rest]
  BY DEF Codes!CreateOTP, Codes!Goto
<1>2. n \notin DOMAIN codes /\ codeClock \in Nat /\ codeClock \in Codes!Times
  BY <1>1, CodeNumberShape DEF CodeInv, CodeTypes
<1>3. /\ DOMAIN codes' = DOMAIN codes \cup {n} /\ codes'[n].created = codeClock
      /\ \A c \in DOMAIN codes : codes'[c] = codes[c]
  BY <1>2 DEF Codes!CreateOTP, Codes!Put
<1>4. codeTask'[h] = Codes!Rest /\ \A k \in Handlers : k # h => codeTask'[k] = codeTask[k]
  BY <1>1 DEF CodeInv, CodeTypes
<1>5. /\ \A k \in Handlers : codeTask'[k] # Codes!Rest => codeTask'[k].at <= codeClock'
      /\ \A c \in DOMAIN codes' : codes'[c].created <= codeClock'
  BY <1>1, <1>2, <1>3, <1>4 DEF CodeWindowInv
<1>6. h \in CodeStoring /\ CodeStoring' = CodeStoring \ {h}
  BY <1>1, <1>4, CodeRestShape DEF CodeStoring
<1>7. Codes!Recent(codeClock)' = Codes!Recent(codeClock) \cup {n} /\ n \notin Codes!Recent(codeClock)
  BY <1>1, <1>2, <1>3, CodeWindowNumbers DEF Codes!Recent, CodeInv
<1>8. /\ Cardinality(Codes!Recent(codeClock)') = Cardinality(Codes!Recent(codeClock)) + 1
      /\ Cardinality(CodeStoring') = Cardinality(CodeStoring) - 1
      /\ Cardinality(Codes!Recent(codeClock)') \in Nat /\ Cardinality(CodeStoring') \in Nat
  BY <1>6, <1>7, CodeWindowNumbers, FS_AddElement, FS_RemoveElement,
     FS_CardinalityType DEF CodeInv
<1>9. Cardinality(Codes!Recent(codeClock)') + Cardinality(CodeStoring') <= CodeMost
  BY <1>8, CodeWindowNumbers DEF CodeWindowInv, CodeInv
<1>10. ASSUME NEW t \in Codes!Times, t <= codeClock PROVE Cardinality(CodeMade(t)') <= CodeMost
  <2>1. t \in Nat
    BY CodeNumberShape DEF CodeInv
  <2>2. CASE t # codeClock
    <3>1. CodeMade(t)' = CodeMade(t)
      BY <1>2, <1>3, <1>10, <2>1, <2>2 DEF CodeMade
    <3>2. QED
      BY <1>10, <3>1 DEF CodeWindowInv
  <2>3. CASE t = codeClock
    <3>1. CodeMade(t)' \subseteq Codes!Recent(codeClock)'
      BY <1>1, <1>2, <1>3, <2>3, CodeWindowNumbers
         DEF CodeMade, Codes!Recent, CodeInv
    <3>2. IsFiniteSet(Codes!Recent(codeClock)')
      BY <1>7, CodeWindowNumbers, FS_AddElement DEF CodeInv
    <3>3. Cardinality(CodeMade(t)') <= Cardinality(Codes!Recent(codeClock)')
          /\ Cardinality(CodeMade(t)') \in Nat
      BY <3>1, <3>2, FS_Subset, FS_CardinalityType
    <3>4. QED
      BY <1>8, <1>9, <3>3, CodeWindowNumbers DEF CodeInv
  <2>4. QED
    BY <2>2, <2>3
<1>11. CodeMost' = CodeMost
  BY DEF CodeMost
<1>12. QED
  BY <1>1, <1>5, <1>9, <1>10, <1>11 DEF CodeWindowInv

\* Everything else a handler does.
LEMMA CodeOtherWindow ==
    ASSUME CodeAssumptions, CodeInv, CodeTypes', CodeWindowInv, NEW h \in Handlers,
           Codes!Ask(h) \/ Codes!ReadLast(h) \/ Codes!Verify(h) \/ Codes!Fails(h)
    PROVE  CodeWindowInv'
<1>1. codeClock' = codeClock /\ DOMAIN codes' = DOMAIN codes
      /\ \A c \in DOMAIN codes : codes'[c].created = codes[c].created
  <2>1. \A c \in DOMAIN codes : codes[c] \in Codes!Codes
    BY DEF CodeInv, CodeTypes
  <2>2. CASE Codes!BumpOTPAttempts(h)
    <3> DEFINE l == codeTask[h].code
    <3>1. codeClock' = codeClock /\ \/ codes' = codes
                                    \/ codes' = [codes EXCEPT ![l].attempts = @ + 1]
      BY <2>2 DEF Codes!BumpOTPAttempts
    <3> HIDE DEF l
    <3>2. QED
      BY <2>1, <3>1 DEF Codes!Codes
  <2>3. CASE Codes!ConsumeOTP(h)
    <3> DEFINE l == codeTask[h].code
    <3>1. codeClock' = codeClock /\ \/ codes' = codes
                                    \/ codes' = [codes EXCEPT ![l].consumed = TRUE]
      BY <2>3 DEF Codes!ConsumeOTP
    <3> HIDE DEF l
    <3>2. QED
      BY <2>1, <3>1 DEF Codes!Codes
  <2>4. CASE \/ Codes!Ask(h) \/ Codes!ReadLast(h) \/ Codes!LatestOTP(h) \/ Codes!CodeRefused(h)
             \/ Codes!CodeWrong(h) \/ Codes!CodeRight(h) \/ Codes!CreateSession(h) \/ Codes!Fails(h)
    BY <2>4 DEF Codes!Ask, Codes!ReadLast, Codes!LatestOTP, Codes!CodeRefused,
           Codes!CodeWrong, Codes!CodeRight,
                Codes!CreateSession, Codes!Fails, Codes!tables
  <2>5. QED
    BY <2>2, <2>3, <2>4 DEF Codes!Verify
<1>2. PICK t : /\ codeTask' = [codeTask EXCEPT ![h] = t] /\ t.do # "store"
               /\ \/ t = Codes!Rest \/ t.at = codeClock
                  \/ codeTask[h] # Codes!Rest /\ t.at = codeTask[h].at
  <2>1. CASE Codes!Ask(h) \/ Codes!LatestOTP(h)
    <3> DEFINE a == [do |-> "ask", at |-> codeClock]
               v == [do |-> "verify", at |-> codeClock, code |-> Codes!Latest,
                     row |-> codes[Codes!Latest]]
    <3>1. Codes!Goto(h, a) \/ Codes!Goto(h, v)
      BY <2>1 DEF Codes!Ask, Codes!LatestOTP
    <3>2. a.do # "store" /\ a.at = codeClock /\ v.do # "store" /\ v.at = codeClock
      OBVIOUS
    <3> HIDE DEF a, v
    <3>3. QED
      BY <3>1, <3>2 DEF Codes!Goto
  <2>2. CASE Codes!ReadLast(h)
    <3>1. codeTask[h].do = "ask" /\ codeTask[h] # Codes!Rest
      BY <2>2, CodeRestShape DEF Codes!ReadLast
    <3>2. codeTask[h] = [do |-> "ask", at |-> codeTask[h].at]
      BY <3>1, CodeTaskShape DEF CodeInv
    <3>3. [codeTask[h] EXCEPT !.do = "count"] = [do |-> "count", at |-> codeTask[h].at]
      BY <3>2
    <3>4. Codes!Goto(h, Codes!Rest) \/ Codes!Goto(h, [do |-> "count", at |-> codeTask[h].at])
      BY <2>2, <3>3 DEF Codes!ReadLast
    <3>5. QED
      BY <3>1, <3>4, CodeRestShape DEF Codes!Goto
  <2>3. CASE Codes!CodeWrong(h) \/ Codes!CodeRight(h)
    BY <2>3, CodeRestShape DEF Codes!CodeWrong, Codes!CodeRight, Codes!Goto
  <2>4. CASE Codes!ConsumeOTP(h)
    <3>1. codeTask[h].do = "consume" /\ codeTask[h] # Codes!Rest
      BY <2>4, CodeRestShape DEF Codes!ConsumeOTP
    <3>2. codeTask[h] = [do |-> "consume", at |-> codeTask[h].at, code |-> codeTask[h].code]
      BY <3>1, CodeTaskShape DEF CodeInv
    <3>3. [codeTask[h] EXCEPT !.do = "login"] =
             [do |-> "login", at |-> codeTask[h].at, code |-> codeTask[h].code]
      BY <3>2
    <3>4. \/ Codes!Goto(h, Codes!Rest)
          \/ Codes!Goto(h, [do |-> "login", at |-> codeTask[h].at, code |-> codeTask[h].code])
      BY <2>4, <3>3 DEF Codes!ConsumeOTP
    <3>5. QED
      BY <3>1, <3>4, CodeRestShape DEF Codes!Goto
  <2>5. CASE Codes!CodeRefused(h) \/ Codes!BumpOTPAttempts(h) \/ Codes!CreateSession(h) \/ Codes!Fails(h)
    BY <2>5, CodeRestShape DEF Codes!CodeRefused, Codes!BumpOTPAttempts,
           Codes!CreateSession, Codes!Fails, Codes!Goto
  <2>6. QED
    BY <2>1, <2>2, <2>3, <2>4, <2>5 DEF Codes!Verify
<1>3. codeTask'[h] = t /\ \A k \in Handlers : k # h => codeTask'[k] = codeTask[k]
  BY <1>2 DEF CodeInv, CodeTypes
<1>4. CodeStoring' \subseteq CodeStoring
  BY <1>2, <1>3 DEF CodeStoring
<1>5. ASSUME NEW k \in Handlers, codeTask'[k] # Codes!Rest PROVE codeTask'[k].at <= codeClock'
  <2>1. codeClock \in Nat
    BY CodeNumberShape DEF CodeInv
  <2>2. CASE k = h
    BY <1>1, <1>2, <1>3, <1>5, <2>1, <2>2 DEF CodeWindowInv
  <2>3. CASE k # h
    BY <1>1, <1>3, <1>5, <2>3 DEF CodeWindowInv
  <2>4. QED
    BY <2>2, <2>3
<1>6. QED
  BY <1>1, <1>4, <1>5, CodeNoNewCode

LEMMA CodeWindowStep ==
    ASSUME CodeAssumptions PROVE CodeInv /\ CodeWindowInv /\ [Codes!Next]_Codes!vars => CodeWindowInv'
<1> SUFFICES ASSUME CodeInv, CodeWindowInv, [Codes!Next]_Codes!vars PROVE CodeWindowInv'
  OBVIOUS
<1>1. CodeTypes'
  BY CodeInvStep DEF CodeInv
<1>2. CASE \/ Codes!Tick \/ Codes!PurgeExpired \/ Codes!PurgeCodes \/ Codes!PurgeFails \/ UNCHANGED Codes!vars
  <2>1. /\ DOMAIN codes' \subseteq DOMAIN codes
        /\ \A c \in DOMAIN codes' : codes'[c] = codes[c]
        /\ UNCHANGED codeTask /\ (codeClock' = codeClock \/ codeClock' = codeClock + 1)
    BY <1>2 DEF Codes!Tick, Codes!PurgeExpired, Codes!PurgeCodes,
           Codes!PurgeFails, Codes!vars, Codes!tables,
                Codes!guesses, Codes!Without
  <2>2. \A h \in Handlers : codeTask'[h] # Codes!Rest => codeTask'[h].at <= codeClock'
    <3>1. codeClock \in Nat /\ codeClock <= codeClock'
      BY <2>1, CodeNumberShape DEF CodeInv
    <3>2. ASSUME NEW h \in Handlers, codeTask[h] # Codes!Rest
          PROVE  codeTask[h].at \in Nat /\ codeTask[h].at <= codeClock
      BY <3>2, CodeTaskShape, CodeNumberShape DEF CodeWindowInv, CodeInv
    <3>3. QED
      BY <2>1, <3>1, <3>2
  <2>3. CodeStoring' \subseteq CodeStoring
    BY <2>1 DEF CodeStoring
  <2>4. QED
    BY <1>1, <2>1, <2>2, <2>3, CodeNoNewCode
<1>3. ASSUME NEW h \in Handlers, Codes!RequestCode(h) \/ Codes!Verify(h) \/ Codes!Fails(h)
      PROVE  CodeWindowInv'
  BY <1>1, <1>3, CodeCountWindow, CodeStoreWindow, CodeOtherWindow
     DEF Codes!RequestCode
<1>4. QED
  BY <1>2, <1>3 DEF Codes!Next

(***************************************************************************)
(* otpQuotaOK counts, and CreateOTP stores without looking again: in no    *)
(* Window are there more codes than PerWindow and the other handlers, for  *)
(* any limits, lags and numbers of handlers.                               *)
(***************************************************************************)
THEOREM CodeCodesCorrect == ASSUME CodeAssumptions PROVE Codes!Spec => []Codes!CodesBounded
<1>1. ASSUME CodeInv, CodeWindowInv PROVE Codes!CodesBounded
  <2>1. ASSUME NEW c \in DOMAIN codes
        PROVE  Cardinality(CodeMade(codes[c].created)) <= CodeMost
    BY <1>1, <2>1 DEF CodeInv, CodeTypes, Codes!Codes, CodeWindowInv
  <2>2. QED
    BY <2>1, CodeSets DEF Codes!CodesBounded, CodeMade, CodeMost
<1>2. QED
  BY <1>1, CodeInvInit, CodeInvStep, CodeWindowInit, CodeWindowStep, PTL
     DEF Codes!Spec

-----------------------------------------------------------------------------
(***************************************************************************)
(* A request under way is at most MaxLag old and about a session that was  *)
(* made.                                                                   *)
(***************************************************************************)
AccountRecent(x) ==
    x # Accounts!Rest => /\ x.at <= clock /\ clock <= x.at + MaxLag
                         /\ x.token <= made

AccountLagInv == \A h \in Handlers : AccountRecent(task[h])

AccountStateInv == Accounts!TypeOK /\ AccountLagInv

(***************************************************************************)
(* Shapes.                                                                 *)
(***************************************************************************)
LEMMA AccountRowShape == Accounts!NoRow \notin Accounts!Sessions
BY DEF Accounts!NoRow, Accounts!Sessions

LEMMA AccountNumberShape ==
    ASSUME Accounts!TimesAssumption, Accounts!BoundsAssumption, Accounts!TypeOK
    PROVE  /\ clock \in Nat /\ made \in Nat /\ made <= MaxLogins
           /\ MaxLogins \in Nat /\ MaxClock \in Nat /\ clock <= MaxClock
           /\ Absolute \in Nat /\ IdleLimit \in Nat /\ TouchEvery \in Nat
           /\ PurgeIdle \in Nat /\ MaxLag \in Nat
           /\ IdleLimit <= PurgeIdle /\ 2 * MaxLag <= TouchEvery
BY DEF Accounts!TypeOK, Accounts!Times, Accounts!TimesAssumption,
       Accounts!BoundsAssumption

LEMMA AccountTaskShape ==
    ASSUME Accounts!TypeOK, NEW h \in Handlers, task[h] # Accounts!Rest
    PROVE  /\ task[h] \in Accounts!Tasks
           /\ task[h].at \in Accounts!Times /\ task[h].token \in Accounts!Tokens
           /\ task[h].do \in {"session", "end", "touch", "serve"}
<1>1. task[h] \in Accounts!Tasks
  BY DEF Accounts!TypeOK
<1>2. QED
  BY <1>1 DEF Accounts!Tasks

LEMMA AccountReadShape ==
    ASSUME Accounts!TypeOK, NEW h \in Handlers, task[h].do = "session"
    PROVE  /\ task[h] # Accounts!Rest
           /\ task[h].row \in Accounts!Sessions \cup {Accounts!NoRow}
<1>1. task[h] # Accounts!Rest
  BY DEF Accounts!Rest
<1>2. task[h] \in Accounts!Tasks
  BY <1>1, AccountTaskShape
<1>3. QED
  BY <1>1, <1>2 DEF Accounts!Tasks

\* A row that is in the table.
LEMMA AccountTableShape ==
    ASSUME Accounts!TypeOK, NEW t \in DOMAIN sessions
    PROVE  /\ sessions[t] \in Accounts!Sessions
           /\ sessions[t].expires \in Nat /\ sessions[t].lastSeen \in Accounts!Times
           /\ sessions[t] # Accounts!NoRow
           /\ t \in 1 .. made
<1>1. sessions[t] \in Accounts!Sessions /\ t \in 1 .. made
  BY DEF Accounts!TypeOK
<1>2. QED
  BY <1>1, AccountRowShape DEF Accounts!Sessions

\* A token that was made is a token.
LEMMA AccountMadeShape ==
    ASSUME Accounts!TimesAssumption, Accounts!BoundsAssumption, Accounts!TypeOK, NEW t \in 1 .. made
    PROVE  /\ t \in Accounts!Tokens /\ t \in Nat
           /\ used[t] \in Accounts!Times /\ until[t] \in Nat
<1>1. t \in Accounts!Tokens /\ t \in Nat
  BY AccountNumberShape DEF Accounts!Tokens
<1>2. QED
  BY <1>1 DEF Accounts!TypeOK

-----------------------------------------------------------------------------
(***************************************************************************)
(* What the steps do to the table.                                         *)
(***************************************************************************)
LEMMA AccountWithoutShape ==
    ASSUME NEW K, sessions' = Accounts!Without(sessions, K)
    PROVE  /\ DOMAIN sessions' = DOMAIN sessions \ K
           /\ \A t \in DOMAIN sessions' : sessions'[t] = sessions[t]
BY DEF Accounts!Without

LEMMA AccountLoginShape ==
    ASSUME Accounts!TimesAssumption, Accounts!BoundsAssumption, Accounts!TypeOK,
           NEW h \in Handlers, Accounts!Login(h)
    PROVE  /\ made' = made + 1 /\ made' \in Accounts!Tokens
           /\ DOMAIN sessions' = DOMAIN sessions \cup {made'}
           /\ \A t \in DOMAIN sessions : sessions'[t] = sessions[t]
           /\ sessions'[made'].lastSeen = clock
           /\ sessions'[made'].expires = until'[made']
           /\ sessions'[made'] \in Accounts!Sessions
           /\ until' \in [Accounts!Tokens -> Nat] /\ used' \in [Accounts!Tokens -> Accounts!Times]
           /\ used'[made'] = clock
           /\ \A t \in 1 .. made : used'[t] = used[t] /\ until'[t] = until[t]
<1>1. made' = made + 1 /\ made' \in Accounts!Tokens /\ made' \notin 1 .. made
  BY AccountNumberShape DEF Accounts!Login, Accounts!Tokens
<1>2. PICK read \in Accounts!Times :
        /\ sessions' = Accounts!Put(sessions, made', [expires |-> read + Absolute,
                                             lastSeen |-> clock])
        /\ until' = [until EXCEPT ![made'] = read + Absolute]
  BY DEF Accounts!Login
<1>3. read + Absolute \in Nat
  BY AccountNumberShape DEF Accounts!Times
<1>4. [expires |-> read + Absolute, lastSeen |-> clock] \in Accounts!Sessions
  BY <1>3 DEF Accounts!Sessions, Accounts!TypeOK
<1>5. until' \in [Accounts!Tokens -> Nat] /\ until'[made'] = read + Absolute
      /\ \A t \in 1 .. made : until'[t] = until[t]
  BY <1>1, <1>2, <1>3, AccountMadeShape DEF Accounts!TypeOK
<1>6. used' \in [Accounts!Tokens -> Accounts!Times] /\ used'[made'] = clock
      /\ \A t \in 1 .. made : used'[t] = used[t]
  BY <1>1, AccountMadeShape DEF Accounts!TypeOK, Accounts!Login
<1>7. /\ DOMAIN sessions' = DOMAIN sessions \cup {made'}
      /\ sessions'[made'] = [expires |-> read + Absolute, lastSeen |-> clock]
      /\ \A t \in DOMAIN sessions : t # made' => sessions'[t] = sessions[t]
  BY <1>2 DEF Accounts!Put
<1>8. \A t \in DOMAIN sessions : t # made'
  BY <1>1 DEF Accounts!TypeOK
<1>9. QED
  BY <1>1, <1>4, <1>5, <1>6, <1>7, <1>8

LEMMA AccountTouchShape ==
    ASSUME Accounts!TypeOK, NEW h \in Handlers, Accounts!TouchSession(h)
    PROVE  /\ DOMAIN sessions' = DOMAIN sessions
           /\ \A t \in DOMAIN sessions :
                 /\ sessions'[t].expires = sessions[t].expires
                 /\ t = task[h].token => sessions'[t].lastSeen = task[h].at
                 /\ t # task[h].token => sessions'[t] = sessions[t]
                 /\ sessions'[t] \in Accounts!Sessions
<1> DEFINE u == task[h].token
           at == task[h].at
<1>1. task[h] # Accounts!Rest
  BY DEF Accounts!TouchSession, Accounts!Rest
<1>2. at \in Accounts!Times
  BY <1>1, AccountTaskShape
<1>3. CASE u \notin DOMAIN sessions
  BY <1>3, AccountTableShape DEF Accounts!TouchSession, Accounts!Touched
<1>4. CASE u \in DOMAIN sessions
  <2>1. sessions' = [sessions EXCEPT ![u].lastSeen = at]
    BY <1>4 DEF Accounts!TouchSession, Accounts!Touched
  <2>2. sessions'[u] = [sessions[u] EXCEPT !.lastSeen = at]
    BY <1>4, <2>1
  <2>3. sessions[u] \in Accounts!Sessions
    BY <1>4, AccountTableShape
  <2>4. /\ sessions'[u] \in Accounts!Sessions /\ sessions'[u].lastSeen = at
        /\ sessions'[u].expires = sessions[u].expires
    BY <1>2, <2>2, <2>3 DEF Accounts!Sessions
  <2>5. QED
    BY <2>1, <2>4, AccountTableShape
<1>5. QED
  BY <1>3, <1>4

\* A request goes on to its next step.
LEMMA AccountGotoShape ==
    ASSUME Accounts!TypeOK, AccountLagInv, NEW h \in Handlers,
           NEW x \in Accounts!Tasks \cup {Accounts!Rest}, AccountRecent(x),
           Accounts!Goto(h, x), clock' = clock, made' = made
    PROVE  /\ task' \in [Handlers -> Accounts!Tasks \cup {Accounts!Rest}]
           /\ AccountLagInv'
           /\ task'[h] = x
           /\ \A g \in Handlers : g # h => task'[g] = task[g]
<1>1. task' = [task EXCEPT ![h] = x] /\ task \in [Handlers -> Accounts!Tasks \cup {Accounts!Rest}]
  BY DEF Accounts!Goto, Accounts!TypeOK
<1>2. /\ task' \in [Handlers -> Accounts!Tasks \cup {Accounts!Rest}] /\ task'[h] = x
      /\ \A g \in Handlers : g # h => task'[g] = task[g]
  BY <1>1
<1>3. \A g \in Handlers : AccountRecent(task[g])'
  BY <1>2 DEF AccountLagInv, AccountRecent
<1>4. QED
  BY <1>2, <1>3 DEF AccountLagInv

-----------------------------------------------------------------------------
(***************************************************************************)
(* Type correctness.                                                       *)
(***************************************************************************)
LEMMA AccountStateInit ==
    ASSUME Accounts!TimesAssumption, Accounts!BoundsAssumption, Accounts!Init
    PROVE  AccountStateInv
<1>1. 0 \in Accounts!Times /\ MaxLogins \in Nat
  BY DEF Accounts!Times, Accounts!BoundsAssumption
<1>2. sessions \in [DOMAIN sessions -> Accounts!Sessions] /\ DOMAIN sessions = {}
  BY DEF Accounts!Init
<1>3. QED
  BY <1>1, <1>2 DEF Accounts!Init, AccountStateInv, Accounts!TypeOK,
         AccountLagInv, AccountRecent

\* A step of a request that leaves the table alone.
LEMMA AccountTaskStepType ==
    ASSUME Accounts!TypeOK, AccountLagInv, NEW h \in Handlers,
           NEW x \in Accounts!Tasks \cup {Accounts!Rest}, AccountRecent(x), Accounts!Goto(h, x),
           UNCHANGED <<clock, Accounts!table, purge, until>>,
           used' \in [Accounts!Tokens -> Accounts!Times],
           loggedOut' \subseteq 1 .. made, lax' \subseteq 1 .. made
    PROVE  AccountStateInv'
<1>1. clock' = clock /\ made' = made /\ sessions' = sessions
      /\ purge' = purge /\ until' = until
  BY DEF Accounts!table
<1>2. task' \in [Handlers -> Accounts!Tasks \cup {Accounts!Rest}] /\ AccountLagInv'
  BY <1>1, AccountGotoShape
<1>3. QED
  BY <1>1, <1>2 DEF AccountStateInv, Accounts!TypeOK

\* A step that deletes rows.
LEMMA AccountDeleteType ==
    ASSUME Accounts!TypeOK, AccountLagInv, NEW K, sessions' = Accounts!Without(sessions, K),
           UNCHANGED <<clock, made, used, until, lax>>,
           loggedOut' \subseteq 1 .. made,
           task' \in [Handlers -> Accounts!Tasks \cup {Accounts!Rest}], AccountLagInv',
           purge' \in {Accounts!NotRunning} \cup Accounts!Times
    PROVE  AccountStateInv'
<1>1. /\ DOMAIN sessions' \subseteq DOMAIN sessions
      /\ \A t \in DOMAIN sessions' : sessions'[t] = sessions[t]
      /\ sessions' = [t \in DOMAIN sessions' |-> sessions'[t]]
  BY AccountWithoutShape DEF Accounts!Without
<1>2. \A t \in DOMAIN sessions' :
        sessions'[t] \in Accounts!Sessions /\ sessions'[t].lastSeen <= clock
  BY <1>1 DEF Accounts!TypeOK
<1>3. sessions' \in [DOMAIN sessions' -> Accounts!Sessions]
  BY <1>1, <1>2
<1>4. QED
  BY <1>1, <1>2, <1>3 DEF AccountStateInv, Accounts!TypeOK

LEMMA AccountRestTask == Accounts!Rest \in Accounts!Tasks \cup {Accounts!Rest} /\ AccountRecent(Accounts!Rest)
BY DEF AccountRecent

LEMMA AccountTickType ==
    ASSUME Accounts!TimesAssumption, Accounts!BoundsAssumption, AccountStateInv, Accounts!Tick
    PROVE  AccountStateInv'
<1>1. clock' = clock + 1 /\ clock' \in Accounts!Times
  BY DEF Accounts!Tick, AccountStateInv, Accounts!TypeOK, Accounts!Times,
         Accounts!BoundsAssumption
<1>2. ASSUME NEW t \in DOMAIN sessions
      PROVE  sessions[t].lastSeen <= clock'
  BY <1>1, AccountTableShape
     DEF AccountStateInv, Accounts!TypeOK, Accounts!Times
<1>3. ASSUME NEW h \in Handlers PROVE AccountRecent(task[h])'
  <2>1. task' = task /\ made' = made
    BY DEF Accounts!Tick, Accounts!table
  <2>2. CASE task[h] # Accounts!Rest
    <3>1. clock < task[h].at + MaxLag /\ task[h].at <= clock
          /\ task[h].token <= made
      BY <2>2 DEF Accounts!Tick, AccountStateInv, AccountLagInv, AccountRecent
    <3>2. task[h].at \in Accounts!Times
      BY <2>2, AccountTaskShape DEF AccountStateInv
    <3>3. QED
      BY <1>1, <2>1, <3>1, <3>2, AccountNumberShape
         DEF AccountRecent, AccountStateInv, Accounts!Times
  <2>3. QED
    BY <2>1, <2>2 DEF AccountRecent
<1>4. QED
  BY <1>1, <1>2, <1>3 DEF Accounts!Tick, AccountStateInv, Accounts!TypeOK,
         AccountLagInv, Accounts!table, Accounts!uses

LEMMA AccountLoginType ==
    ASSUME Accounts!TimesAssumption, Accounts!BoundsAssumption, AccountStateInv,
           NEW h \in Handlers, Accounts!Login(h)
    PROVE  AccountStateInv'
<1> USE DEF AccountStateInv
<1>1. /\ made' = made + 1 /\ made' \in 0 .. MaxLogins /\ made \in Nat
      /\ 1 .. made \subseteq 1 .. made' /\ made' \in 1 .. made'
  BY AccountLoginShape, AccountNumberShape DEF Accounts!Tokens
<1>2. /\ DOMAIN sessions' \subseteq 1 .. made'
      /\ \A t \in DOMAIN sessions' :
            sessions'[t] \in Accounts!Sessions /\ sessions'[t].lastSeen <= clock
  <2>1. ASSUME NEW t \in DOMAIN sessions
        PROVE  t \in 1 .. made' /\ sessions'[t] \in Accounts!Sessions
               /\ sessions'[t].lastSeen <= clock
    BY <1>1, AccountTableShape, AccountLoginShape DEF Accounts!TypeOK
  <2>2. /\ DOMAIN sessions' = DOMAIN sessions \cup {made'}
        /\ sessions'[made'] \in Accounts!Sessions /\ sessions'[made'].lastSeen = clock
    BY AccountLoginShape
  <2>3. clock <= clock
    BY AccountNumberShape
  <2>4. QED
    BY <1>1, <2>1, <2>2, <2>3
<1>3. sessions' \in [DOMAIN sessions' -> Accounts!Sessions]
  <2>1. sessions' = [t \in DOMAIN sessions' |-> sessions'[t]]
    BY DEF Accounts!Login, Accounts!Put
  <2>2. QED
    BY <1>2, <2>1
<1>4. used' \in [Accounts!Tokens -> Accounts!Times] /\ until' \in [Accounts!Tokens -> Nat]
  BY AccountLoginShape
<1>5. UNCHANGED <<clock, task, purge, loggedOut, lax>>
  BY DEF Accounts!Login
<1>6. ASSUME NEW g \in Handlers PROVE AccountRecent(task[g])'
  <2>1. CASE task[g] # Accounts!Rest
    <3>1. task[g].token \in Nat
      BY <2>1, AccountTaskShape DEF Accounts!Tokens
    <3>2. QED
      BY <1>1, <1>5, <3>1 DEF AccountLagInv, AccountRecent
  <2>2. QED
    BY <1>5, <2>1 DEF AccountRecent
<1>7. QED
  BY <1>1, <1>2, <1>3, <1>4, <1>5, <1>6 DEF Accounts!TypeOK, AccountLagInv

\* The task of a step that goes on with the same token.
LEMMA AccountNextTask ==
    ASSUME Accounts!TimesAssumption, Accounts!BoundsAssumption, AccountStateInv,
           NEW h \in Handlers, task[h] # Accounts!Rest, NEW d \in {"end", "touch", "serve"}
    PROVE  /\ [do |-> d, at |-> task[h].at, token |-> task[h].token] \in Accounts!Tasks
           /\ AccountRecent([do |-> d, at |-> task[h].at, token |-> task[h].token])
           /\ [do |-> d, at |-> clock, token |-> task[h].token] \in Accounts!Tasks
           /\ AccountRecent([do |-> d, at |-> clock, token |-> task[h].token])
<1>1. task[h].at \in Accounts!Times /\ task[h].token \in Accounts!Tokens /\ clock \in Accounts!Times
  BY AccountTaskShape DEF AccountStateInv, Accounts!TypeOK
<1>2. AccountRecent(task[h])
  BY DEF AccountStateInv, AccountLagInv
<1>3. clock <= clock /\ clock <= clock + MaxLag
  BY AccountNumberShape DEF AccountStateInv
<1>4. QED
  BY <1>1, <1>2, <1>3 DEF Accounts!Tasks, AccountRecent

LEMMA AccountAuthedType ==
    ASSUME Accounts!TimesAssumption, Accounts!BoundsAssumption, AccountStateInv,
           NEW h \in Handlers, Accounts!Authed(h)
    PROVE  AccountStateInv'
<1> USE DEF AccountStateInv
<1>1. used \in [Accounts!Tokens -> Accounts!Times] /\ loggedOut \subseteq 1 .. made
      /\ lax \subseteq 1 .. made /\ clock \in Accounts!Times /\ made \in Nat
  BY AccountNumberShape DEF Accounts!TypeOK
<1>2. CASE Accounts!Login(h)
  BY <1>2, AccountLoginType
<1>3. ASSUME NEW t \in Accounts!Tokens, Accounts!SessionByHash(h, t)
      PROVE  AccountStateInv'
  <2> DEFINE r == IF t \in DOMAIN sessions THEN sessions[t] ELSE Accounts!NoRow
             x == [do |-> "session", at |-> clock, token |-> t, row |-> r]
  <2>1. r \in Accounts!Sessions \cup {Accounts!NoRow}
    BY AccountTableShape
  <2>2. x \in Accounts!Tasks
    BY <1>1, <2>1 DEF Accounts!Tasks
  <2>3. AccountRecent(x)
    BY <1>3, AccountNumberShape DEF Accounts!SessionByHash, AccountRecent
  <2>4. Accounts!Goto(h, x) /\ UNCHANGED <<clock, Accounts!table, purge, Accounts!uses>>
    BY <1>3 DEF Accounts!SessionByHash
  <2> HIDE DEF x
  <2>5. QED
    BY <1>1, <2>2, <2>3, <2>4, AccountTaskStepType DEF Accounts!uses
<1>4. CASE Accounts!Unauthenticated(h)
  <2>1. task[h] # Accounts!Rest
    BY <1>4 DEF Accounts!Unauthenticated, Accounts!Rest
  <2> DEFINE e == [do |-> "end", at |-> task[h].at, token |-> task[h].token]
             x == IF task[h].row = Accounts!NoRow THEN Accounts!Rest ELSE e
  <2>2. x \in Accounts!Tasks \cup {Accounts!Rest} /\ AccountRecent(x)
    BY <2>1, AccountNextTask, AccountRestTask
  <2>3. Accounts!Goto(h, x) /\ UNCHANGED <<clock, Accounts!table, purge, Accounts!uses>>
    BY <1>4 DEF Accounts!Unauthenticated
  <2> HIDE DEF x
  <2>4. QED
    BY <1>1, <2>2, <2>3, AccountTaskStepType DEF Accounts!uses
<1>5. CASE Accounts!Authenticated(h)
  <2>1. task[h] # Accounts!Rest
    BY <1>5 DEF Accounts!Authenticated, Accounts!Rest
  <2> DEFINE d == IF Accounts!Stale(task[h].row) THEN "touch" ELSE "serve"
             x == [do |-> d, at |-> clock, token |-> task[h].token]
  <2>2. x \in Accounts!Tasks /\ AccountRecent(x)
    BY <2>1, AccountNextTask
  <2>3. Accounts!Goto(h, x) /\ UNCHANGED <<clock, Accounts!table, purge, until, loggedOut>>
    BY <1>5 DEF Accounts!Authenticated
  <2>4. task[h].token \in 1 .. made
    BY <2>1, <1>1, AccountTaskShape
       DEF AccountLagInv, AccountRecent, Accounts!Tokens
  <2>5. used' \in [Accounts!Tokens -> Accounts!Times] /\ lax' \subseteq 1 .. made
    BY <1>1, <1>5, <2>4 DEF Accounts!Authenticated
  <2> HIDE DEF x
  <2>6. QED
    BY <1>1, <2>2, <2>3, <2>5, AccountTaskStepType
<1>6. CASE Accounts!TouchSession(h)
  <2>1. task[h] # Accounts!Rest
    BY <1>6 DEF Accounts!TouchSession, Accounts!Rest
  <2> DEFINE x == [task[h] EXCEPT !.do = "serve"]
  <2>2. x = [do |-> "serve", at |-> task[h].at, token |-> task[h].token]
    BY <1>6, <2>1, AccountTaskShape DEF Accounts!TouchSession, Accounts!Tasks
  <2>3. x \in Accounts!Tasks /\ AccountRecent(x)
    BY <2>1, <2>2, AccountNextTask
  <2>4. Accounts!Goto(h, x) /\ UNCHANGED <<clock, made, purge, Accounts!uses>>
    BY <1>6 DEF Accounts!TouchSession
  <2> HIDE DEF x
  <2>5. task' \in [Handlers -> Accounts!Tasks \cup {Accounts!Rest}] /\ AccountLagInv'
    BY <2>3, <2>4, AccountGotoShape
  <2>6. task[h].at <= clock
    BY <2>1 DEF AccountLagInv, AccountRecent
  <2>7. \A t \in DOMAIN sessions' :
          sessions'[t] \in Accounts!Sessions /\ sessions'[t].lastSeen <= clock
    BY <1>6, <2>6, AccountTouchShape DEF Accounts!TypeOK
  <2>8. DOMAIN sessions' \subseteq 1 .. made
    BY <1>6, AccountTouchShape DEF Accounts!TypeOK
  <2>9. sessions' \in [DOMAIN sessions' -> Accounts!Sessions]
    <3>1. sessions' = [t \in DOMAIN sessions' |-> sessions'[t]]
      BY <1>6 DEF Accounts!TouchSession, Accounts!Touched, Accounts!TypeOK
    <3>2. QED
      BY <2>7, <3>1
  <2>10. QED
    BY <2>4, <2>5, <2>7, <2>8, <2>9 DEF Accounts!TypeOK, Accounts!uses
<1>7. CASE Accounts!Serve(h)
  BY <1>1, <1>7, AccountRestTask, AccountTaskStepType
     DEF Accounts!Serve, Accounts!uses
<1>8. CASE Accounts!Logout(h)
  <2>1. task[h] # Accounts!Rest
    BY <1>8 DEF Accounts!Logout, Accounts!Rest
  <2>2. task[h].token \in 1 .. made
    BY <1>1, <2>1, AccountTaskShape
       DEF AccountLagInv, AccountRecent, Accounts!Tokens
  <2>3. task' \in [Handlers -> Accounts!Tasks \cup {Accounts!Rest}] /\ AccountLagInv'
    BY <1>8, AccountRestTask, AccountGotoShape DEF Accounts!Logout
  <2>4. QED
    BY <1>1, <1>8, <2>2, <2>3, AccountDeleteType
       DEF Accounts!Logout, Accounts!DeleteSession, Accounts!TypeOK
<1>9. CASE Accounts!EndSession(h)
  <2>1. task' \in [Handlers -> Accounts!Tasks \cup {Accounts!Rest}] /\ AccountLagInv'
    BY <1>9, AccountRestTask, AccountGotoShape DEF Accounts!EndSession
  <2>2. QED
    BY <1>1, <1>9, <2>1, AccountDeleteType DEF Accounts!EndSession,
           Accounts!DeleteSession, Accounts!TypeOK, Accounts!uses
<1>10. CASE Accounts!Fails(h)
  <2>1. task[h] # Accounts!Rest
    BY <1>10 DEF Accounts!Fails
  <2> DEFINE s == [task[h] EXCEPT !.do = "serve"]
             x == IF task[h].do = "touch" THEN s ELSE Accounts!Rest
  <2>2. task[h].do = "touch" =>
          s = [do |-> "serve", at |-> task[h].at, token |-> task[h].token]
    BY <2>1, AccountTaskShape DEF Accounts!Tasks
  <2>3. x \in Accounts!Tasks \cup {Accounts!Rest} /\ AccountRecent(x)
    BY <2>1, <2>2, AccountNextTask, AccountRestTask
  <2>4. Accounts!Goto(h, x) /\ UNCHANGED <<clock, Accounts!table, purge, used, until, loggedOut>>
    BY <1>10 DEF Accounts!Fails
  <2>5. task[h].token \in 1 .. made
    BY <1>1, <2>1, AccountTaskShape
       DEF AccountLagInv, AccountRecent, Accounts!Tokens
  <2>6. lax' \subseteq 1 .. made
    BY <1>1, <1>10, <2>5 DEF Accounts!Fails
  <2> HIDE DEF x
  <2>7. QED
    BY <1>1, <2>3, <2>4, <2>6, AccountTaskStepType
<1>11. QED
  BY <1>2, <1>3, <1>4, <1>5, <1>6, <1>7, <1>8, <1>9, <1>10 DEF Accounts!Authed

LEMMA AccountStateStep ==
    ASSUME Accounts!TimesAssumption, Accounts!BoundsAssumption, AccountStateInv, [Accounts!Next]_Accounts!vars
    PROVE  AccountStateInv'
<1>1. CASE Accounts!Tick
  BY <1>1, AccountTickType
<1>2. ASSUME NEW h \in Handlers, Accounts!Authed(h) PROVE AccountStateInv'
  BY <1>2, AccountAuthedType
<1>3. CASE Accounts!PurgeExpired
  BY <1>3 DEF Accounts!PurgeExpired, AccountStateInv, Accounts!TypeOK,
         AccountLagInv, AccountRecent, Accounts!table, Accounts!uses
<1>4. CASE Accounts!PurgeSessions
  <2>1. task' \in [Handlers -> Accounts!Tasks \cup {Accounts!Rest}] /\ AccountLagInv'
    BY <1>4 DEF Accounts!PurgeSessions, AccountStateInv, Accounts!TypeOK,
           AccountLagInv, AccountRecent
  <2>2. QED
    BY <1>4, <2>1, AccountDeleteType DEF Accounts!PurgeSessions,
           AccountStateInv, Accounts!TypeOK, Accounts!uses
<1>5. CASE Accounts!PurgeFails
  BY <1>5 DEF Accounts!PurgeFails, AccountStateInv, Accounts!TypeOK,
         AccountLagInv, AccountRecent, Accounts!table, Accounts!uses
<1>6. CASE UNCHANGED Accounts!vars
  BY <1>6 DEF Accounts!vars, AccountStateInv, Accounts!TypeOK, AccountLagInv,
         AccountRecent, Accounts!table, Accounts!uses
<1>7. QED
  BY <1>1, <1>2, <1>3, <1>4, <1>5, <1>6 DEF Accounts!Next

\* The variables always have their types, whatever handlers and limits.
THEOREM AccountTypeCorrect ==
    ASSUME Accounts!TimesAssumption, Accounts!BoundsAssumption
    PROVE  Accounts!Spec => []Accounts!TypeOK
<1>1. Accounts!Init => AccountStateInv
  BY AccountStateInit
<1>2. AccountStateInv /\ [Accounts!Next]_Accounts!vars => AccountStateInv'
  BY AccountStateStep
<1>3. AccountStateInv => Accounts!TypeOK
  BY DEF AccountStateInv
<1>4. QED
  BY <1>1, <1>2, <1>3, PTL DEF Accounts!Spec

-----------------------------------------------------------------------------
(***************************************************************************)
(* Logging out is final.                                                   *)
(***************************************************************************)
LEMMA AccountGoneStep ==
    ASSUME Accounts!TimesAssumption, Accounts!BoundsAssumption, AccountStateInv, Accounts!LoggedOutIsGone,
           [Accounts!Next]_Accounts!vars
    PROVE  Accounts!LoggedOutIsGone'
<1> USE DEF Accounts!LoggedOutIsGone
<1>1. loggedOut \subseteq 1 .. made /\ made \in Nat
  BY AccountNumberShape DEF AccountStateInv, Accounts!TypeOK
<1>2. ASSUME NEW K, sessions' = Accounts!Without(sessions, K), loggedOut' = loggedOut
      PROVE  Accounts!LoggedOutIsGone'
  BY <1>2, AccountWithoutShape
<1>3. ASSUME NEW h \in Handlers, Accounts!Authed(h) PROVE Accounts!LoggedOutIsGone'
  <2>1. CASE Accounts!Login(h)
    <3>1. DOMAIN sessions' = DOMAIN sessions \cup {made + 1} /\ loggedOut' = loggedOut
      BY <2>1, AccountLoginShape DEF Accounts!Login, AccountStateInv
    <3>2. made + 1 \notin loggedOut
      BY <1>1
    <3>3. QED
      BY <3>1, <3>2
  <2>2. CASE Accounts!TouchSession(h)
    BY <2>2, AccountTouchShape
       DEF Accounts!TouchSession, Accounts!uses, AccountStateInv
  <2>3. CASE Accounts!Logout(h)
    BY <2>3, AccountWithoutShape DEF Accounts!Logout, Accounts!DeleteSession
  <2>4. CASE Accounts!EndSession(h)
    BY <1>2, <2>4 DEF Accounts!EndSession, Accounts!DeleteSession, Accounts!uses
  <2>5. CASE \/ \E t \in Accounts!Tokens : Accounts!SessionByHash(h, t)
             \/ Accounts!Unauthenticated(h) \/ Accounts!Authenticated(h) \/ Accounts!Serve(h) \/ Accounts!Fails(h)
    BY <2>5 DEF Accounts!SessionByHash, Accounts!Unauthenticated,
           Accounts!Authenticated, Accounts!Serve, Accounts!Fails,
                Accounts!table, Accounts!uses
  <2>6. QED
    BY <1>3, <2>1, <2>2, <2>3, <2>4, <2>5 DEF Accounts!Authed
<1>4. CASE Accounts!PurgeSessions
  BY <1>2, <1>4 DEF Accounts!PurgeSessions, Accounts!uses
<1>5. CASE Accounts!Tick \/ Accounts!PurgeExpired \/ Accounts!PurgeFails \/ UNCHANGED Accounts!vars
  BY <1>5 DEF Accounts!Tick, Accounts!PurgeExpired, Accounts!PurgeFails,
         Accounts!vars, Accounts!table, Accounts!uses
<1>6. QED
  BY <1>3, <1>4, <1>5 DEF Accounts!Next

\* A session that was logged out is never in the table again, whatever
\* requests were under way.
THEOREM AccountGoneCorrect ==
    ASSUME Accounts!TimesAssumption, Accounts!BoundsAssumption
    PROVE  Accounts!Spec => []Accounts!LoggedOutIsGone
<1>1. Accounts!Init => AccountStateInv /\ Accounts!LoggedOutIsGone
  BY AccountStateInit DEF Accounts!Init, Accounts!LoggedOutIsGone
<1>2. AccountStateInv /\ Accounts!LoggedOutIsGone /\ [Accounts!Next]_Accounts!vars => AccountStateInv' /\ Accounts!LoggedOutIsGone'
  BY AccountStateStep, AccountGoneStep
<1>3. QED
  BY <1>1, <1>2, PTL DEF Accounts!Spec

-----------------------------------------------------------------------------
(***************************************************************************)
(* Why a session that is used is kept.  A session that is not lost has a   *)
(* row, and last_seen_at is recent, or a TouchSession is about to write a  *)
(* time that is, soon enough for every request that has read the old one.  *)
(***************************************************************************)
AccountLost(t) ==
    \/ t \in loggedOut \cup lax
    \/ clock - used[t] > Accounts!Steady
    \/ clock >= until[t]

AccountRowInv(t) ==
    t \in DOMAIN sessions =>
        /\ sessions[t].expires = until[t]
        /\ \/ t \in loggedOut \cup lax
           \/ sessions[t].lastSeen + TouchEvery >= used[t]
           \/ \E h \in Handlers :
                 /\ task[h].do = "touch" /\ task[h].token = t
                 /\ sessions[t].lastSeen + IdleLimit >= task[h].at + 2 * MaxLag

AccountGoneInv(t) == t \notin DOMAIN sessions => AccountLost(t)

\* What a request has read: the row was good then, and the table has had
\* nothing since but what was about to be written.
AccountReadInv(h) ==
    task[h].do = "session" =>
        LET t == task[h].token
            r == task[h].row
        IN  /\ r = Accounts!NoRow => AccountLost(t)
            /\ r # Accounts!NoRow =>
                /\ r.expires = until[t]
                /\ \/ t \in loggedOut \cup lax
                   \/ r.lastSeen + TouchEvery >= used[t]
                   \/ r.lastSeen + IdleLimit >= task[h].at + MaxLag
                /\ t \in DOMAIN sessions =>
                    \/ sessions[t].lastSeen = r.lastSeen
                    \/ sessions[t].lastSeen + MaxLag >= task[h].at

AccountEndInv(h) == task[h].do = "end" => AccountLost(task[h].token)

AccountPurgeInv == purge # Accounts!NotRunning => purge <= clock

AccountKeptInv ==
    /\ \A t \in 1 .. made : used[t] <= clock /\ AccountRowInv(t) /\ AccountGoneInv(t)
    /\ \A h \in Handlers : AccountReadInv(h) /\ AccountEndInv(h)
    /\ AccountPurgeInv

AccountInv == AccountStateInv /\ AccountKeptInv

\* What is known of a session that was made, as numbers.
LEMMA AccountSessionFacts ==
    ASSUME Accounts!TimesAssumption, Accounts!BoundsAssumption, AccountInv, NEW t \in 1 .. made
    PROVE  /\ t \in Accounts!Tokens /\ t \in Nat
           /\ used[t] \in Nat /\ until[t] \in Nat /\ used[t] <= clock
           /\ AccountRowInv(t) /\ AccountGoneInv(t)
<1>1. t \in Accounts!Tokens /\ t \in Nat /\ used[t] \in Accounts!Times /\ until[t] \in Nat
  BY AccountMadeShape DEF AccountInv, AccountStateInv
<1>2. QED
  BY <1>1, AccountNumberShape
     DEF AccountInv, AccountStateInv, AccountKeptInv, Accounts!Times

\* What is known of a request under way.
LEMMA AccountTaskFacts ==
    ASSUME Accounts!TimesAssumption, Accounts!BoundsAssumption, AccountInv, NEW h \in Handlers,
           task[h] # Accounts!Rest
    PROVE  /\ task[h].at \in Nat
           /\ task[h].at <= clock /\ clock <= task[h].at + MaxLag
           /\ task[h].token \in 1 .. made
           /\ AccountReadInv(h) /\ AccountEndInv(h)
<1>1. task[h].at \in Accounts!Times /\ task[h].token \in Accounts!Tokens
  BY AccountTaskShape DEF AccountInv, AccountStateInv
<1>2. AccountRecent(task[h])
  BY DEF AccountInv, AccountStateInv, AccountLagInv
<1>3. task[h].at \in Nat /\ task[h].token \in Nat /\ 1 <= task[h].token
  BY <1>1 DEF Accounts!Times, Accounts!Tokens
<1>4. QED
  BY <1>2, <1>3, AccountNumberShape
     DEF AccountRecent, AccountInv, AccountStateInv, AccountKeptInv

\* The row a request has read, as numbers.
LEMMA AccountReadFacts ==
    ASSUME Accounts!TimesAssumption, Accounts!BoundsAssumption, AccountInv, NEW h \in Handlers,
           task[h].do = "session", task[h].row # Accounts!NoRow
    PROVE  task[h].row.expires \in Nat /\ task[h].row.lastSeen \in Nat
<1>1. task[h].row \in Accounts!Sessions
  BY AccountReadShape DEF AccountInv, AccountStateInv
<1>2. QED
  BY <1>1 DEF Accounts!Sessions, Accounts!Times

LEMMA AccountRowFacts ==
    ASSUME Accounts!TimesAssumption, Accounts!BoundsAssumption, AccountInv, NEW t \in DOMAIN sessions
    PROVE  /\ sessions[t].expires \in Nat /\ sessions[t].lastSeen \in Nat
           /\ t \in 1 .. made
<1>1. sessions[t].expires \in Nat /\ sessions[t].lastSeen \in Accounts!Times /\ t \in 1 .. made
  BY AccountTableShape DEF AccountInv, AccountStateInv
<1>2. QED
  BY <1>1 DEF Accounts!Times

\* The limits, as numbers.
LEMMA AccountLimitFacts ==
    ASSUME Accounts!TimesAssumption, Accounts!BoundsAssumption, AccountInv
    PROVE  /\ clock \in Nat /\ made \in Nat /\ IdleLimit \in Nat
           /\ TouchEvery \in Nat /\ PurgeIdle \in Nat /\ MaxLag \in Nat
           /\ IdleLimit <= PurgeIdle /\ 2 * MaxLag <= TouchEvery
           /\ Accounts!Steady \in Int /\ Accounts!Steady + TouchEvery + 2 * MaxLag = IdleLimit
BY AccountNumberShape DEF AccountInv, AccountStateInv, Accounts!Steady

-----------------------------------------------------------------------------
\* What is lost stays lost: a session that is used after too long is lax.
LEMMA AccountLostStays ==
    ASSUME Accounts!TimesAssumption, Accounts!BoundsAssumption, AccountInv, [Accounts!Next]_Accounts!vars,
           NEW t \in 1 .. made, AccountLost(t)
    PROVE  AccountLost(t)'
<1>1. clock \in Nat /\ used[t] \in Nat /\ until[t] \in Nat /\ Accounts!Steady \in Int
  BY AccountSessionFacts, AccountLimitFacts
<1>2. CASE Accounts!Tick
  <2>1. clock' = clock + 1 /\ UNCHANGED Accounts!uses
    BY <1>2 DEF Accounts!Tick
  <2>2. QED
    BY <1>1, <2>1 DEF AccountLost, Accounts!uses, Accounts!Steady
<1>3. ASSUME NEW h \in Handlers, Accounts!Authed(h) PROVE AccountLost(t)'
  <2>1. CASE Accounts!Login(h)
    <3>1. used'[t] = used[t] /\ until'[t] = until[t]
          /\ UNCHANGED <<clock, loggedOut, lax>>
      BY <2>1, AccountLoginShape DEF Accounts!Login, AccountInv, AccountStateInv
    <3>2. QED
      BY <3>1 DEF AccountLost, Accounts!Steady
  <2>2. CASE Accounts!Authenticated(h)
    <3>1. CASE task[h].token = t
      <4>1. /\ lax' = IF clock - used[t] <= Accounts!Steady THEN lax ELSE lax \cup {t}
            /\ UNCHANGED <<clock, until, loggedOut>>
        BY <2>2, <3>1 DEF Accounts!Authenticated
      <4>2. CASE clock - used[t] > Accounts!Steady
        <5>1. t \in lax'
          BY <1>1, <4>1, <4>2
        <5>2. QED
          BY <5>1 DEF AccountLost
      <4>3. CASE ~(clock - used[t] > Accounts!Steady)
        BY <4>1, <4>3 DEF AccountLost
      <4>4. QED
        BY <4>2, <4>3
    <3>2. CASE task[h].token # t
      <4>1. used'[t] = used[t] /\ UNCHANGED <<clock, until, loggedOut>>
            /\ lax \subseteq lax'
        BY <2>2, <3>2, AccountSessionFacts
           DEF Accounts!Authenticated, AccountInv, AccountStateInv,
               Accounts!TypeOK
      <4>2. QED
        BY <4>1 DEF AccountLost, Accounts!Steady
    <3>3. QED
      BY <3>1, <3>2
  <2>3. CASE Accounts!Logout(h) \/ Accounts!Fails(h)
    <3>1. UNCHANGED <<clock, used, until>>
          /\ loggedOut \subseteq loggedOut' /\ lax \subseteq lax'
      BY <2>3 DEF Accounts!Logout, Accounts!Fails
    <3>2. QED
      BY <3>1 DEF AccountLost, Accounts!Steady
  <2>4. CASE \/ \E u \in Accounts!Tokens : Accounts!SessionByHash(h, u)
             \/ Accounts!Unauthenticated(h) \/ Accounts!TouchSession(h) \/ Accounts!Serve(h) \/ Accounts!EndSession(h)
    <3>1. UNCHANGED <<clock, Accounts!uses>>
      BY <2>4 DEF Accounts!SessionByHash, Accounts!Unauthenticated,
             Accounts!TouchSession, Accounts!Serve, Accounts!EndSession
    <3>2. QED
      BY <3>1 DEF AccountLost, Accounts!uses, Accounts!Steady
  <2>5. QED
    BY <1>3, <2>1, <2>2, <2>3, <2>4 DEF Accounts!Authed
<1>4. CASE Accounts!PurgeExpired \/ Accounts!PurgeSessions \/ Accounts!PurgeFails \/ UNCHANGED Accounts!vars
  <2>1. UNCHANGED <<clock, Accounts!uses>>
    BY <1>4 DEF Accounts!PurgeExpired, Accounts!PurgeSessions,
           Accounts!PurgeFails, Accounts!vars
  <2>2. QED
    BY <2>1 DEF AccountLost, Accounts!uses, Accounts!Steady
<1>5. QED
  BY <1>2, <1>3, <1>4 DEF Accounts!Next

(***************************************************************************)
(* A request that is refused has found its session lost.                   *)
(***************************************************************************)
LEMMA AccountRefusedIsLost ==
    ASSUME Accounts!TimesAssumption, Accounts!BoundsAssumption, AccountInv,
           NEW h \in Handlers, Accounts!Unauthenticated(h)
    PROVE  AccountLost(task[h].token)
<1> DEFINE t == task[h].token
           r == task[h].row
<1>1. task[h].do = "session" /\ ~Accounts!Alive(r)
  BY DEF Accounts!Unauthenticated
<1>2. task[h] # Accounts!Rest
  BY <1>1 DEF Accounts!Rest
<1>3. t \in 1 .. made /\ AccountReadInv(h)
      /\ task[h].at \in Nat /\ clock <= task[h].at + MaxLag
  BY <1>2, AccountTaskFacts
<1>4. CASE r = Accounts!NoRow
  BY <1>1, <1>3, <1>4 DEF AccountReadInv
<1>5. CASE r # Accounts!NoRow
  <2>1. /\ r.expires = until[t]
        /\ \/ t \in loggedOut \cup lax
           \/ r.lastSeen + TouchEvery >= used[t]
           \/ r.lastSeen + IdleLimit >= task[h].at + MaxLag
    BY <1>1, <1>3, <1>5 DEF AccountReadInv
  <2>2. r.expires \in Nat /\ r.lastSeen \in Nat
    BY <1>1, <1>5, AccountReadFacts
  <2>3. clock >= r.expires \/ clock - r.lastSeen > IdleLimit
    BY <1>1, <1>5, <2>2, AccountLimitFacts DEF Accounts!Alive
  <2>4. used[t] \in Nat /\ until[t] \in Nat
    BY <1>3, AccountSessionFacts
  <2>5. QED
    BY <1>3, <2>1, <2>2, <2>3, <2>4, AccountLimitFacts DEF AccountLost
<1>6. QED
  BY <1>4, <1>5

(***************************************************************************)
(* A row the purge finds run out is of a session that is lost.             *)
(***************************************************************************)
LEMMA AccountRunOutIsLost ==
    ASSUME Accounts!TimesAssumption, Accounts!BoundsAssumption, AccountInv, purge # Accounts!NotRunning,
           NEW t \in DOMAIN sessions, Accounts!RunOut(sessions[t], purge)
    PROVE  AccountLost(t)
<1>1. purge \in Nat /\ purge <= clock
  BY DEF AccountInv, AccountStateInv, Accounts!TypeOK, AccountKeptInv,
         AccountPurgeInv, Accounts!Times
<1>2. sessions[t].expires \in Nat /\ sessions[t].lastSeen \in Nat /\ t \in 1 .. made
  BY AccountRowFacts
<1>3. AccountRowInv(t) /\ used[t] \in Nat /\ until[t] \in Nat
  BY <1>2, AccountSessionFacts
<1>4. sessions[t].expires < purge \/ sessions[t].lastSeen < purge - PurgeIdle
  BY DEF Accounts!RunOut
<1>5. CASE t \in loggedOut \cup lax
  BY <1>5 DEF AccountLost
<1>6. CASE sessions[t].lastSeen + TouchEvery >= used[t]
  BY <1>1, <1>2, <1>3, <1>4, <1>6, AccountLimitFacts
     DEF AccountLost, AccountRowInv
<1>7. ASSUME NEW h \in Handlers, task[h].do = "touch",
             sessions[t].lastSeen + IdleLimit >= task[h].at + 2 * MaxLag
      PROVE  AccountLost(t)
  <2>1. task[h] # Accounts!Rest
    BY <1>7 DEF Accounts!Rest
  <2>2. task[h].at \in Nat /\ clock <= task[h].at + MaxLag
    BY <2>1, AccountTaskFacts
  <2>3. QED
    BY <1>1, <1>2, <1>3, <1>4, <1>7, <2>2, AccountLimitFacts
       DEF AccountLost, AccountRowInv
<1>8. QED
  BY <1>3, <1>5, <1>6, <1>7 DEF AccountRowInv

-----------------------------------------------------------------------------
(***************************************************************************)
(* KeptInv, step by step.  A request that does not move keeps what it      *)
(* knows, as long as the table gets no time older than its own lag.        *)
(***************************************************************************)
LEMMA AccountReadStays ==
    ASSUME Accounts!TimesAssumption, Accounts!BoundsAssumption, AccountInv, [Accounts!Next]_Accounts!vars,
           NEW g \in Handlers, task'[g] = task[g], NEW u, u = task[g].token,
           task[g] # Accounts!Rest => until'[u] = until[u],
           loggedOut \subseteq loggedOut', lax \subseteq lax',
           task[g].do = "session" /\ task[g].row # Accounts!NoRow =>
              \/ used'[u] = used[u]
              \/ u \in loggedOut' \cup lax'
              \/ task[g].row.lastSeen + IdleLimit >= task[g].at + MaxLag
              \/ task[g].row.lastSeen + TouchEvery >= used'[u],
           task[g] # Accounts!Rest /\ u \in DOMAIN sessions' =>
              /\ u \in DOMAIN sessions
              /\ \/ sessions'[u].lastSeen = sessions[u].lastSeen
                 \/ sessions'[u].lastSeen + MaxLag >= task[g].at
    PROVE  AccountReadInv(g)' /\ AccountEndInv(g)'
<1>1. CASE task[g] = Accounts!Rest
  BY <1>1 DEF AccountReadInv, AccountEndInv, Accounts!Rest
<1>2. CASE task[g] # Accounts!Rest
  <2>1. u \in 1 .. made /\ AccountReadInv(g) /\ AccountEndInv(g)
    BY <1>2, AccountTaskFacts
  <2>2. AccountLost(u) => AccountLost(u)'
    BY <2>1, AccountLostStays
  <2>3. AccountEndInv(g)'
    BY <2>1, <2>2 DEF AccountEndInv
  <2>4. ASSUME task[g].do = "session" PROVE AccountReadInv(g)'
    <3>1. CASE task[g].row = Accounts!NoRow
      BY <2>1, <2>2, <2>4, <3>1 DEF AccountReadInv
    <3>2. CASE task[g].row # Accounts!NoRow
      <4>1. task[g].row.expires = until'[u]
        BY <1>2, <2>1, <2>4, <3>2 DEF AccountReadInv
      <4>2. \/ u \in loggedOut' \cup lax'
            \/ task[g].row.lastSeen + TouchEvery >= used'[u]
            \/ task[g].row.lastSeen + IdleLimit >= task[g].at + MaxLag
        BY <2>1, <2>4, <3>2 DEF AccountReadInv
      <4>3. u \in DOMAIN sessions' =>
              \/ sessions'[u].lastSeen = task[g].row.lastSeen
              \/ sessions'[u].lastSeen + MaxLag >= task[g].at
        BY <1>2, <2>1, <2>4, <3>2 DEF AccountReadInv
      <4>4. QED
        BY <3>2, <4>1, <4>2, <4>3 DEF AccountReadInv
    <3>3. QED
      BY <3>1, <3>2
  <2>5. QED
    BY <2>3, <2>4 DEF AccountReadInv
<1>3. QED
  BY <1>1, <1>2

LEMMA AccountTickKept ==
    ASSUME Accounts!TimesAssumption, Accounts!BoundsAssumption, AccountInv, [Accounts!Next]_Accounts!vars, Accounts!Tick
    PROVE  AccountKeptInv'
<1>1. clock' = clock + 1
      /\ UNCHANGED <<sessions, made, task, purge, used, until, loggedOut, lax>>
  BY DEF Accounts!Tick, Accounts!table, Accounts!uses
<1>2. ASSUME NEW t \in 1 .. made
      PROVE  used'[t] <= clock' /\ AccountRowInv(t)' /\ AccountGoneInv(t)'
  <2>1. used'[t] <= clock'
    BY <1>1, <1>2, AccountSessionFacts, AccountLimitFacts
  <2>2. AccountRowInv(t)'
    BY <1>1, <1>2, AccountSessionFacts DEF AccountRowInv
  <2>3. AccountGoneInv(t)'
    BY <1>1, <1>2, AccountSessionFacts, AccountLostStays DEF AccountGoneInv
  <2>4. QED
    BY <2>1, <2>2, <2>3
<1>3. ASSUME NEW g \in Handlers PROVE AccountReadInv(g)' /\ AccountEndInv(g)'
  BY <1>1, AccountReadStays
<1>4. AccountPurgeInv'
  <2>1. purge # Accounts!NotRunning => purge \in Nat /\ purge <= clock
    BY DEF AccountInv, AccountStateInv, Accounts!TypeOK, AccountKeptInv,
           AccountPurgeInv, Accounts!Times
  <2>2. QED
    BY <1>1, <2>1, AccountLimitFacts DEF AccountPurgeInv
<1>5. QED
  BY <1>1, <1>2, <1>3, <1>4 DEF AccountKeptInv

\* A request that neither writes nor was about to write.
LEMMA AccountQuietKept ==
    ASSUME Accounts!TimesAssumption, Accounts!BoundsAssumption, AccountInv, [Accounts!Next]_Accounts!vars,
           NEW h \in Handlers, task[h].do # "touch",
           UNCHANGED <<clock, Accounts!table, purge, Accounts!uses>>,
           \A g \in Handlers : g # h => task'[g] = task[g],
           AccountReadInv(h)', AccountEndInv(h)'
    PROVE  AccountKeptInv'
<1>1. UNCHANGED <<clock, sessions, made, purge, used, until, loggedOut, lax>>
  BY DEF Accounts!table, Accounts!uses
<1>2. ASSUME NEW t \in 1 .. made
      PROVE  used'[t] <= clock' /\ AccountRowInv(t)' /\ AccountGoneInv(t)'
  <2>1. used'[t] <= clock' /\ AccountGoneInv(t)'
    BY <1>1, <1>2, AccountSessionFacts
       DEF AccountGoneInv, AccountLost, Accounts!Steady
  <2>2. AccountRowInv(t) /\ \A g \in Handlers : task[g].do = "touch" => task'[g] = task[g]
    BY <1>2, AccountSessionFacts
  <2>3. AccountRowInv(t)'
    BY <1>1, <2>2 DEF AccountRowInv
  <2>4. QED
    BY <2>1, <2>3
<1>3. ASSUME NEW g \in Handlers, g # h PROVE AccountReadInv(g)' /\ AccountEndInv(g)'
  BY <1>1, <1>3, AccountReadStays
<1>4. AccountPurgeInv'
  BY <1>1 DEF AccountInv, AccountKeptInv, AccountPurgeInv
<1>5. QED
  BY <1>1, <1>2, <1>3, <1>4 DEF AccountKeptInv

LEMMA AccountLoginKept ==
    ASSUME Accounts!TimesAssumption, Accounts!BoundsAssumption, AccountInv, [Accounts!Next]_Accounts!vars,
           NEW h \in Handlers, Accounts!Login(h)
    PROVE  AccountKeptInv'
<1>1. UNCHANGED <<clock, task, purge, loggedOut, lax>>
  BY DEF Accounts!Login
<1>2. /\ made' = made + 1
      /\ DOMAIN sessions' = DOMAIN sessions \cup {made'}
      /\ \A t \in DOMAIN sessions : sessions'[t] = sessions[t]
      /\ sessions'[made'].lastSeen = clock
      /\ sessions'[made'].expires = until'[made']
      /\ used'[made'] = clock
      /\ \A t \in 1 .. made : used'[t] = used[t] /\ until'[t] = until[t]
  BY AccountLoginShape DEF AccountInv, AccountStateInv
<1>3. ASSUME NEW t \in 1 .. made
      PROVE  used'[t] <= clock' /\ AccountRowInv(t)' /\ AccountGoneInv(t)'
  <2>1. used'[t] <= clock'
    BY <1>1, <1>2, <1>3, AccountSessionFacts
  <2>2. t \in DOMAIN sessions' => t \in DOMAIN sessions
    BY <1>2, <1>3, AccountLimitFacts
  <2>3. AccountRowInv(t)'
    BY <1>1, <1>2, <1>3, <2>2, AccountSessionFacts DEF AccountRowInv
  <2>4. AccountGoneInv(t)'
    BY <1>2, <1>3, AccountSessionFacts, AccountLostStays DEF AccountGoneInv
  <2>5. QED
    BY <2>1, <2>3, <2>4
<1>4. ASSUME NEW t, t = made'
      PROVE  used'[t] <= clock' /\ AccountRowInv(t)' /\ AccountGoneInv(t)'
  <2>1. t \in DOMAIN sessions' /\ sessions'[t].lastSeen = clock
        /\ sessions'[t].expires = until'[t] /\ used'[t] = clock
    BY <1>2, <1>4
  <2>2. used'[t] <= clock'
    BY <1>1, <2>1, AccountLimitFacts
  <2>3. sessions'[t].lastSeen + TouchEvery >= used'[t]
    BY <2>1, AccountLimitFacts
  <2>4. AccountRowInv(t)'
    BY <2>1, <2>3 DEF AccountRowInv
  <2>5. AccountGoneInv(t)'
    BY <2>1 DEF AccountGoneInv
  <2>6. QED
    BY <2>2, <2>4, <2>5
<1>5. ASSUME NEW g \in Handlers PROVE AccountReadInv(g)' /\ AccountEndInv(g)'
  <2> DEFINE u == task[g].token
  <2>1. task[g] # Accounts!Rest => u \in 1 .. made
    BY AccountTaskFacts
  <2>2. task[g] # Accounts!Rest /\ u \in DOMAIN sessions' =>
          u \in DOMAIN sessions /\ sessions'[u].lastSeen = sessions[u].lastSeen
    BY <1>2, <2>1, AccountLimitFacts
  <2>3. task[g].do = "session" => task[g] # Accounts!Rest
    BY DEF Accounts!Rest
  <2>4. QED
    BY <1>1, <1>2, <2>1, <2>2, <2>3, AccountReadStays
<1>6. AccountPurgeInv'
  BY <1>1 DEF AccountInv, AccountKeptInv, AccountPurgeInv
<1>7. QED
  <2>1. \A t \in 1 .. made' : t \in 1 .. made \/ t = made'
    BY <1>2, AccountLimitFacts
  <2>2. \A t \in 1 .. made' : used'[t] <= clock' /\ AccountRowInv(t)' /\ AccountGoneInv(t)'
    BY <1>3, <1>4, <2>1
  <2>3. QED
    BY <1>5, <1>6, <2>2 DEF AccountKeptInv

LEMMA AccountReadKept ==
    ASSUME Accounts!TimesAssumption, Accounts!BoundsAssumption, AccountInv, [Accounts!Next]_Accounts!vars,
           NEW h \in Handlers, NEW t \in Accounts!Tokens, Accounts!SessionByHash(h, t)
    PROVE  AccountKeptInv'
<1> DEFINE r == IF t \in DOMAIN sessions THEN sessions[t] ELSE Accounts!NoRow
           x == [do |-> "session", at |-> clock, token |-> t, row |-> r]
<1>1. /\ task[h] = Accounts!Rest /\ Accounts!Goto(h, x) /\ UNCHANGED <<clock, Accounts!table, purge, Accounts!uses>>
      /\ t <= made
  BY DEF Accounts!SessionByHash
<1>2. task'[h] = x /\ \A g \in Handlers : g # h => task'[g] = task[g]
  BY <1>1 DEF Accounts!Goto, AccountInv, AccountStateInv, Accounts!TypeOK
<1>3. UNCHANGED <<clock, sessions, made, used, until, loggedOut, lax>>
  BY <1>1 DEF Accounts!table, Accounts!uses
<1>4. t \in 1 .. made
  BY <1>1, AccountLimitFacts DEF Accounts!Tokens
<1>5. AccountRowInv(t) /\ AccountGoneInv(t)
  BY <1>4, AccountSessionFacts
<1>6. CASE t \notin DOMAIN sessions
  <2>1. AccountLost(t)'
    BY <1>3, <1>5, <1>6 DEF AccountGoneInv, AccountLost, Accounts!Steady
  <2>2. AccountReadInv(h)' /\ AccountEndInv(h)'
    BY <1>2, <1>6, <2>1 DEF AccountReadInv, AccountEndInv
  <2>3. QED
    BY <1>1, <1>2, <2>2, AccountQuietKept DEF Accounts!Rest
<1>7. CASE t \in DOMAIN sessions
  <2>1. sessions[t].lastSeen \in Nat /\ sessions[t] # Accounts!NoRow
    BY <1>7, AccountRowFacts, AccountTableShape DEF AccountInv, AccountStateInv
  <2>2. \/ t \in loggedOut \cup lax
        \/ sessions[t].lastSeen + TouchEvery >= used[t]
        \/ sessions[t].lastSeen + IdleLimit >= clock + MaxLag
    <3>1. ASSUME NEW g \in Handlers, task[g].do = "touch",
                 sessions[t].lastSeen + IdleLimit >= task[g].at + 2 * MaxLag
          PROVE  sessions[t].lastSeen + IdleLimit >= clock + MaxLag
      <4>1. task[g] # Accounts!Rest
        BY <3>1 DEF Accounts!Rest
      <4>2. task[g].at \in Nat /\ clock <= task[g].at + MaxLag
        BY <4>1, AccountTaskFacts
      <4>3. QED
        BY <2>1, <3>1, <4>2, AccountLimitFacts
    <3>2. QED
      BY <1>5, <1>7, <3>1 DEF AccountRowInv
  <2>3. sessions[t].expires = until[t]
    BY <1>5, <1>7 DEF AccountRowInv
  <2>4. AccountReadInv(h)' /\ AccountEndInv(h)'
    BY <1>2, <1>3, <1>7, <2>1, <2>2, <2>3 DEF AccountReadInv, AccountEndInv
  <2>5. QED
    BY <1>1, <1>2, <2>4, AccountQuietKept DEF Accounts!Rest
<1>8. QED
  BY <1>6, <1>7

LEMMA AccountRefuseKept ==
    ASSUME Accounts!TimesAssumption, Accounts!BoundsAssumption, AccountInv, [Accounts!Next]_Accounts!vars,
           NEW h \in Handlers, Accounts!Unauthenticated(h)
    PROVE  AccountKeptInv'
<1> DEFINE x == IF task[h].row = Accounts!NoRow THEN Accounts!Rest
                ELSE [do |-> "end", at |-> task[h].at, token |-> task[h].token]
<1>1. /\ task[h].do = "session" /\ Accounts!Goto(h, x)
      /\ UNCHANGED <<clock, Accounts!table, purge, Accounts!uses>>
  BY DEF Accounts!Unauthenticated
<1>2. task'[h] = x /\ \A g \in Handlers : g # h => task'[g] = task[g]
  BY <1>1 DEF Accounts!Goto, AccountInv, AccountStateInv, Accounts!TypeOK
<1>3. PICK t : t = task[h].token
  OBVIOUS
<1>4. AccountLost(t)'
  <2>1. task[h] # Accounts!Rest
    BY <1>1 DEF Accounts!Rest
  <2>2. t \in 1 .. made /\ AccountLost(t)
    BY <1>3, <2>1, AccountTaskFacts, AccountRefusedIsLost
  <2>3. QED
    BY <2>2, AccountLostStays
<1>5. AccountReadInv(h)'
  BY <1>2 DEF AccountReadInv, Accounts!Rest
<1>6. AccountEndInv(h)'
  BY <1>2, <1>3, <1>4 DEF AccountEndInv, Accounts!Rest
<1>7. QED
  BY <1>1, <1>2, <1>5, <1>6, AccountQuietKept

LEMMA AccountAuthenticatedKept ==
    ASSUME Accounts!TimesAssumption, Accounts!BoundsAssumption, AccountInv, [Accounts!Next]_Accounts!vars,
           NEW h \in Handlers, Accounts!Authenticated(h)
    PROVE  AccountKeptInv'
<1>1. PICK t : t = task[h].token
  OBVIOUS
<1> DEFINE r == task[h].row
           y == [do |-> IF Accounts!Stale(r) THEN "touch" ELSE "serve",
                 at |-> clock, token |-> t]
<1>2. /\ task[h].do = "session" /\ Accounts!Alive(r) /\ Accounts!Goto(h, y)
      /\ used' = [used EXCEPT ![t] = clock]
      /\ lax' = IF clock - used[t] <= Accounts!Steady THEN lax ELSE lax \cup {t}
      /\ UNCHANGED <<clock, sessions, made, purge, until, loggedOut>>
  BY <1>1 DEF Accounts!Authenticated, Accounts!table
<1>3. task'[h] = y /\ \A g \in Handlers : g # h => task'[g] = task[g]
  BY <1>2 DEF Accounts!Goto, AccountInv, AccountStateInv, Accounts!TypeOK
<1>4. /\ t \in 1 .. made /\ AccountReadInv(h) /\ task[h].at \in Nat
      /\ clock <= task[h].at + MaxLag
  BY <1>1, <1>2, AccountTaskFacts DEF Accounts!Rest
<1>5. r # Accounts!NoRow /\ r.lastSeen \in Nat
  BY <1>2, AccountReadFacts DEF Accounts!Alive
<1>6. used'[t] = clock /\ \A s \in 1 .. made : s # t => used'[s] = used[s]
  <2>1. used \in [Accounts!Tokens -> Accounts!Times]
    BY DEF AccountInv, AccountStateInv, Accounts!TypeOK
  <2>2. \A s \in 1 .. made : s \in Accounts!Tokens
    BY AccountSessionFacts
  <2>3. QED
    BY <1>2, <1>4, <2>1, <2>2
<1>7. lax \subseteq lax'
  BY <1>2
<1>8. t \notin lax' => clock - used[t] <= Accounts!Steady
  BY <1>2
<1>9. ASSUME NEW s \in 1 .. made
      PROVE  used'[s] <= clock' /\ AccountRowInv(s)' /\ AccountGoneInv(s)'
  <2>1. used'[s] <= clock'
    BY <1>2, <1>6, AccountSessionFacts, AccountLimitFacts
  <2>2. AccountGoneInv(s)'
    BY <1>2, AccountSessionFacts, AccountLostStays DEF AccountGoneInv
  <2>3. AccountRowInv(s)
    BY AccountSessionFacts
  <2>4. ASSUME NEW g \in Handlers, task[g].do = "touch"
        PROVE  task'[g] = task[g]
    BY <1>2, <1>3, <2>4
  <2>5. CASE s # t
    BY <1>2, <1>6, <1>7, <2>1, <2>2, <2>3, <2>4, <2>5 DEF AccountRowInv
  <2>6. CASE s = t
    <3>1. CASE t \in loggedOut' \cup lax'
      BY <1>2, <2>1, <2>2, <2>3, <2>6, <3>1 DEF AccountRowInv
    <3>2. CASE \E g \in Handlers :
                 /\ task[g].do = "touch" /\ task[g].token = t
                 /\ sessions[t].lastSeen + IdleLimit >= task[g].at + 2 * MaxLag
      <4>1. \E g \in Handlers :
                 /\ task'[g].do = "touch" /\ task'[g].token = t
                 /\ sessions'[t].lastSeen + IdleLimit >= task'[g].at + 2 * MaxLag
        BY <1>2, <2>4, <3>2
      <4>2. QED
        BY <1>2, <2>1, <2>2, <2>3, <2>6, <4>1 DEF AccountRowInv
    <3>3. ASSUME t \notin loggedOut' \cup lax', t \in DOMAIN sessions,
                 sessions[t].lastSeen + TouchEvery >= used[t]
          PROVE  \/ sessions[t].lastSeen + TouchEvery >= clock
                 \/ /\ task'[h].do = "touch" /\ task'[h].token = t
                    /\ sessions[t].lastSeen + IdleLimit
                          >= task'[h].at + 2 * MaxLag
      <4>1. sessions[t].lastSeen \in Nat /\ used[t] \in Nat
        BY <1>4, <3>3, AccountRowFacts, AccountSessionFacts
      <4>2. CASE Accounts!Stale(r)
        <5>1. task'[h].do = "touch" /\ task'[h].token = t /\ task'[h].at = clock
          BY <1>3, <4>2
        <5>2. sessions[t].lastSeen + IdleLimit >= clock + 2 * MaxLag
          BY <1>8, <3>3, <4>1, AccountLimitFacts
        <5>3. QED
          BY <5>1, <5>2
      <4>3. CASE ~Accounts!Stale(r)
        <5>1. r.lastSeen + TouchEvery >= clock
          BY <1>5, <4>3, AccountLimitFacts DEF Accounts!Stale
        <5>2. \/ sessions[t].lastSeen = r.lastSeen
              \/ sessions[t].lastSeen + MaxLag >= task[h].at
          BY <1>1, <1>2, <1>4, <1>5, <3>3 DEF AccountReadInv
        <5>3. QED
          BY <1>4, <1>5, <4>1, <5>1, <5>2, AccountLimitFacts
      <4>4. QED
        BY <4>2, <4>3
    <3>4. QED
      <4>1. CASE t \notin DOMAIN sessions
        BY <1>2, <2>1, <2>2, <2>6, <4>1 DEF AccountRowInv
      <4>2. ASSUME t \in DOMAIN sessions, t \notin loggedOut' \cup lax',
                   sessions[t].lastSeen + TouchEvery >= used[t]
            PROVE  AccountRowInv(t)'
        <5>1. sessions'[t].expires = until'[t]
          BY <1>2, <2>3, <2>6, <4>2 DEF AccountRowInv
        <5>2. \/ sessions'[t].lastSeen + TouchEvery >= used'[t]
              \/ \E g \in Handlers :
                   /\ task'[g].do = "touch" /\ task'[g].token = t
                   /\ sessions'[t].lastSeen + IdleLimit
                         >= task'[g].at + 2 * MaxLag
          BY <1>2, <1>6, <3>3, <4>2
        <5>3. QED
          BY <5>1, <5>2 DEF AccountRowInv
      <4>3. t \in DOMAIN sessions =>
              \/ t \in loggedOut \cup lax
              \/ sessions[t].lastSeen + TouchEvery >= used[t]
              \/ \E g \in Handlers :
                   /\ task[g].do = "touch" /\ task[g].token = t
                   /\ sessions[t].lastSeen + IdleLimit
                         >= task[g].at + 2 * MaxLag
        BY <2>3, <2>6 DEF AccountRowInv
      <4>4. QED
        BY <1>2, <1>7, <2>1, <2>2, <2>6, <3>1, <3>2, <4>1, <4>2, <4>3
  <2>7. QED
    BY <2>1, <2>2, <2>5, <2>6
<1>10. ASSUME NEW g \in Handlers, g # h PROVE AccountReadInv(g)' /\ AccountEndInv(g)'
  <2>1. PICK u : u = task[g].token
    OBVIOUS
  <2>2. ASSUME task[g].do = "session", task[g].row # Accounts!NoRow
        PROVE  \/ used'[u] = used[u]
               \/ u \in loggedOut' \cup lax'
               \/ task[g].row.lastSeen + IdleLimit >= task[g].at + MaxLag
    <3>1. /\ u \in 1 .. made /\ AccountReadInv(g) /\ task[g].at \in Nat
          /\ task[g].at <= clock
      BY <2>1, <2>2, AccountTaskFacts DEF Accounts!Rest
    <3>2. task[g].row.lastSeen \in Nat /\ used[u] \in Nat
      BY <2>2, <3>1, AccountReadFacts, AccountSessionFacts
    <3>3. CASE u # t
      BY <1>6, <3>1, <3>3
    <3>4. CASE u = t
      <4>1. \/ u \in loggedOut \cup lax
            \/ task[g].row.lastSeen + TouchEvery >= used[u]
            \/ task[g].row.lastSeen + IdleLimit >= task[g].at + MaxLag
        BY <2>1, <2>2, <3>1 DEF AccountReadInv
      <4>2. ASSUME u \notin lax', task[g].row.lastSeen + TouchEvery >= used[u]
            PROVE  task[g].row.lastSeen + IdleLimit >= task[g].at + MaxLag
        <5>1. clock - used[u] <= Accounts!Steady
          BY <1>8, <3>4, <4>2
        <5>2. QED
          BY <3>1, <3>2, <4>2, <5>1, AccountLimitFacts
      <4>3. QED
        BY <1>2, <1>7, <4>1, <4>2
    <3>5. QED
      BY <3>3, <3>4
  <2>3. task'[g] = task[g] /\ until'[u] = until[u] /\ loggedOut \subseteq loggedOut'
        /\ (u \in DOMAIN sessions' => u \in DOMAIN sessions)
        /\ sessions'[u].lastSeen = sessions[u].lastSeen
    BY <1>2, <1>3, <1>10
  <2>4. QED
    BY <1>7, <2>1, <2>2, <2>3, AccountReadStays
<1>11. AccountReadInv(h)' /\ AccountEndInv(h)'
  BY <1>3 DEF AccountReadInv, AccountEndInv
<1>12. AccountPurgeInv'
  BY <1>2 DEF AccountInv, AccountKeptInv, AccountPurgeInv
<1>13. QED
  BY <1>2, <1>9, <1>10, <1>11, <1>12 DEF AccountKeptInv

LEMMA AccountTouchKept ==
    ASSUME Accounts!TimesAssumption, Accounts!BoundsAssumption, AccountInv, [Accounts!Next]_Accounts!vars,
           NEW h \in Handlers, Accounts!TouchSession(h)
    PROVE  AccountKeptInv'
<1>1. PICK t : t = task[h].token
  OBVIOUS
<1>2. /\ task[h].do = "touch" /\ task[h] # Accounts!Rest
      /\ Accounts!Goto(h, [task[h] EXCEPT !.do = "serve"])
      /\ UNCHANGED <<clock, made, purge, used, until, loggedOut, lax>>
  BY DEF Accounts!TouchSession, Accounts!uses, Accounts!Rest
<1>3. /\ task'[h] = [task[h] EXCEPT !.do = "serve"]
      /\ \A g \in Handlers : g # h => task'[g] = task[g]
  BY <1>2 DEF Accounts!Goto, AccountInv, AccountStateInv, Accounts!TypeOK
<1>4. task'[h].do = "serve"
  <2>1. task[h] \in Accounts!Tasks
    BY <1>2, AccountTaskShape DEF AccountInv, AccountStateInv
  <2>2. QED
    BY <1>2, <1>3, <2>1 DEF Accounts!Tasks
<1>5. /\ t \in 1 .. made /\ task[h].at \in Nat
      /\ task[h].at <= clock /\ clock <= task[h].at + MaxLag
  BY <1>1, <1>2, AccountTaskFacts
<1>6. /\ DOMAIN sessions' = DOMAIN sessions
      /\ \A s \in DOMAIN sessions :
            /\ sessions'[s].expires = sessions[s].expires
            /\ s = t => sessions'[s].lastSeen = task[h].at
            /\ s # t => sessions'[s] = sessions[s]
  BY <1>1, AccountTouchShape DEF AccountInv, AccountStateInv
<1>7. ASSUME NEW s \in 1 .. made
      PROVE  used'[s] <= clock' /\ AccountRowInv(s)' /\ AccountGoneInv(s)'
  <2>1. used'[s] <= clock' /\ AccountRowInv(s) /\ used[s] \in Nat
    BY <1>2, AccountSessionFacts
  <2>2. AccountGoneInv(s)'
    BY <1>6, AccountSessionFacts, AccountLostStays DEF AccountGoneInv
  <2>3. CASE s # t
    <3>1. \A g \in Handlers : task[g].token = s => task'[g] = task[g]
      BY <1>1, <1>3, <2>3
    <3>2. s \in DOMAIN sessions => sessions'[s] = sessions[s]
      BY <1>6, <2>3
    <3>3. QED
      BY <1>2, <1>6, <2>1, <2>2, <3>1, <3>2 DEF AccountRowInv
  <2>4. CASE s = t
    <3>1. s \in DOMAIN sessions => sessions'[s].lastSeen + TouchEvery >= used'[s]
      <4>1. task[h].at + TouchEvery >= used[s]
        BY <1>2, <1>5, <2>1, AccountLimitFacts
      <4>2. QED
        BY <1>2, <1>6, <2>4, <4>1
    <3>2. s \in DOMAIN sessions => sessions'[s].expires = until'[s]
      BY <1>2, <1>6, <2>1 DEF AccountRowInv
    <3>3. QED
      BY <1>6, <2>1, <2>2, <3>1, <3>2 DEF AccountRowInv
  <2>5. QED
    BY <2>3, <2>4
<1>8. ASSUME NEW g \in Handlers, g # h PROVE AccountReadInv(g)' /\ AccountEndInv(g)'
  <2>1. PICK u : u = task[g].token
    OBVIOUS
  <2>2. ASSUME task[g] # Accounts!Rest, u \in DOMAIN sessions'
        PROVE  /\ u \in DOMAIN sessions
               /\ \/ sessions'[u].lastSeen = sessions[u].lastSeen
                  \/ sessions'[u].lastSeen + MaxLag >= task[g].at
    <3>1. task[g].at \in Nat /\ task[g].at <= clock
      BY <2>2, AccountTaskFacts
    <3>2. CASE u = t
      <4>1. sessions'[u].lastSeen = task[h].at
        BY <1>6, <2>2, <3>2
      <4>2. task[h].at + MaxLag >= task[g].at
        BY <1>5, <3>1, AccountLimitFacts
      <4>3. QED
        BY <1>6, <2>2, <4>1, <4>2
    <3>3. CASE u # t
      BY <1>6, <2>2, <3>3
    <3>4. QED
      BY <3>2, <3>3
  <2>3. task'[g] = task[g] /\ until'[u] = until[u] /\ used'[u] = used[u]
        /\ loggedOut \subseteq loggedOut' /\ lax \subseteq lax'
    BY <1>2, <1>3, <1>8
  <2>4. QED
    BY <2>1, <2>2, <2>3, AccountReadStays
<1>9. AccountReadInv(h)' /\ AccountEndInv(h)'
  BY <1>4 DEF AccountReadInv, AccountEndInv
<1>10. AccountPurgeInv'
  BY <1>2 DEF AccountInv, AccountKeptInv, AccountPurgeInv
<1>11. QED
  BY <1>2, <1>7, <1>8, <1>9, <1>10 DEF AccountKeptInv

\* Rows that are deleted are of sessions that are lost.
LEMMA AccountDeleteKept ==
    ASSUME Accounts!TimesAssumption, Accounts!BoundsAssumption, AccountInv, [Accounts!Next]_Accounts!vars,
           \A t \in DOMAIN sessions' : t \in DOMAIN sessions
                                       /\ sessions'[t] = sessions[t],
           \A t \in DOMAIN sessions :
              t \in DOMAIN sessions' \/ t \in loggedOut' \/ AccountLost(t),
           UNCHANGED <<clock, made, used, until, lax>>,
           loggedOut \subseteq loggedOut',
           \A g \in Handlers :
              task'[g] = task[g] \/ (task[g].do # "touch" /\ task'[g] = Accounts!Rest),
           AccountPurgeInv'
    PROVE  AccountKeptInv'
<1>1. ASSUME NEW t \in 1 .. made
      PROVE  used'[t] <= clock' /\ AccountRowInv(t)' /\ AccountGoneInv(t)'
  <2>1. used'[t] <= clock' /\ AccountRowInv(t) /\ AccountGoneInv(t)
    BY AccountSessionFacts
  <2>2. AccountGoneInv(t)'
    <3>1. CASE t \in DOMAIN sessions
      <4>1. t \in DOMAIN sessions' \/ t \in loggedOut' \/ AccountLost(t)'
        BY <3>1, AccountLostStays
      <4>2. t \in loggedOut' => AccountLost(t)'
        BY DEF AccountLost
      <4>3. QED
        BY <4>1, <4>2 DEF AccountGoneInv
    <3>2. CASE t \notin DOMAIN sessions
      BY <2>1, <3>2, AccountLostStays DEF AccountGoneInv
    <3>3. QED
      BY <3>1, <3>2
  <2>3. \A g \in Handlers : task[g].do = "touch" => task'[g] = task[g]
    OBVIOUS
  <2>4. t \in DOMAIN sessions' => t \in DOMAIN sessions /\ sessions'[t] = sessions[t]
    OBVIOUS
  <2>5. AccountRowInv(t)'
    BY <2>1, <2>3, <2>4 DEF AccountRowInv
  <2>6. QED
    BY <2>1, <2>2, <2>5
<1>2. ASSUME NEW g \in Handlers, task'[g] = task[g]
      PROVE  AccountReadInv(g)' /\ AccountEndInv(g)'
  <2>1. PICK u : u = task[g].token
    OBVIOUS
  <2>2. u \in DOMAIN sessions' =>
          u \in DOMAIN sessions /\ sessions'[u].lastSeen = sessions[u].lastSeen
    OBVIOUS
  <2>3. until'[u] = until[u] /\ used'[u] = used[u] /\ lax \subseteq lax'
    OBVIOUS
  <2>4. QED
    BY <1>2, <2>1, <2>2, <2>3, AccountReadStays
<1>3. ASSUME NEW g \in Handlers, task'[g] = Accounts!Rest
      PROVE  AccountReadInv(g)' /\ AccountEndInv(g)'
  BY <1>3 DEF AccountReadInv, AccountEndInv, Accounts!Rest
<1>4. QED
  BY <1>1, <1>2, <1>3 DEF AccountKeptInv

LEMMA AccountRemoveKept ==
    ASSUME Accounts!TimesAssumption, Accounts!BoundsAssumption, AccountInv, [Accounts!Next]_Accounts!vars,
           NEW h \in Handlers, Accounts!Logout(h) \/ Accounts!EndSession(h)
    PROVE  AccountKeptInv'
<1>1. PICK t : t = task[h].token
  OBVIOUS
<1>2. /\ task[h].do \in {"serve", "end"} /\ task[h] # Accounts!Rest
      /\ Accounts!Goto(h, Accounts!Rest) /\ sessions' = Accounts!Without(sessions, {t})
      /\ UNCHANGED <<clock, made, purge, used, until, lax>>
      /\ loggedOut \subseteq loggedOut'
  BY <1>1 DEF Accounts!Logout, Accounts!EndSession, Accounts!DeleteSession,
         Accounts!Rest, Accounts!uses
<1>3. task'[h] = Accounts!Rest /\ \A g \in Handlers : g # h => task'[g] = task[g]
  BY <1>2 DEF Accounts!Goto, AccountInv, AccountStateInv, Accounts!TypeOK
<1>4. t \in loggedOut' \/ AccountLost(t)
  <2>1. CASE Accounts!Logout(h)
    BY <1>1, <2>1 DEF Accounts!Logout
  <2>2. CASE Accounts!EndSession(h)
    BY <1>1, <1>2, <2>2, AccountTaskFacts DEF Accounts!EndSession, AccountEndInv
  <2>3. QED
    BY <2>1, <2>2
<1>5. AccountPurgeInv'
  BY <1>2 DEF AccountInv, AccountKeptInv, AccountPurgeInv
<1>6. /\ \A s \in DOMAIN sessions' : s \in DOMAIN sessions
                                    /\ sessions'[s] = sessions[s]
      /\ \A s \in DOMAIN sessions :
            s \in DOMAIN sessions' \/ s \in loggedOut' \/ AccountLost(s)
  <2>1. /\ DOMAIN sessions' = DOMAIN sessions \ {t}
        /\ \A s \in DOMAIN sessions' : sessions'[s] = sessions[s]
    BY <1>2, AccountWithoutShape
  <2>2. ASSUME NEW s \in DOMAIN sessions
        PROVE  s \in DOMAIN sessions' \/ s \in loggedOut' \/ AccountLost(s)
    BY <1>4, <2>1
  <2>3. QED
    BY <2>1, <2>2
<1>7. \A g \in Handlers :
        task'[g] = task[g] \/ (task[g].do # "touch" /\ task'[g] = Accounts!Rest)
  BY <1>2, <1>3
<1>8. UNCHANGED <<clock, made, used, until, lax>>
  BY <1>2
<1>9. loggedOut \subseteq loggedOut'
  BY <1>2
<1>10. QED
  BY <1>5, <1>6, <1>7, <1>8, <1>9, AccountDeleteKept

LEMMA AccountPurgeKept ==
    ASSUME Accounts!TimesAssumption, Accounts!BoundsAssumption, AccountInv, [Accounts!Next]_Accounts!vars,
           Accounts!PurgeSessions
    PROVE  AccountKeptInv'
<1>1. /\ purge # Accounts!NotRunning /\ purge' = Accounts!NotRunning
      /\ UNCHANGED <<task, loggedOut>>
  BY DEF Accounts!PurgeSessions, Accounts!uses
<1> DEFINE K == {t \in DOMAIN sessions : Accounts!RunOut(sessions[t], purge)}
<1>2. /\ DOMAIN sessions' = DOMAIN sessions \ K
      /\ \A t \in DOMAIN sessions' : sessions'[t] = sessions[t]
  <2>1. sessions' = Accounts!Without(sessions, K)
    BY DEF Accounts!PurgeSessions
  <2>2. QED
    BY <2>1 DEF Accounts!Without
<1>3. /\ \A t \in DOMAIN sessions' : t \in DOMAIN sessions
                                    /\ sessions'[t] = sessions[t]
      /\ \A t \in DOMAIN sessions :
            t \in DOMAIN sessions' \/ t \in loggedOut' \/ AccountLost(t)
  BY <1>1, <1>2, AccountRunOutIsLost
<1>4. AccountPurgeInv'
  BY <1>1 DEF AccountPurgeInv
<1>5. UNCHANGED <<clock, made, used, until, lax>>
  BY DEF Accounts!PurgeSessions, Accounts!uses
<1>6. loggedOut \subseteq loggedOut'
  BY <1>1
<1>7. \A g \in Handlers :
        task'[g] = task[g] \/ (task[g].do # "touch" /\ task'[g] = Accounts!Rest)
  BY <1>1
<1>8. QED
  BY <1>3, <1>4, <1>5, <1>6, <1>7, AccountDeleteKept

\* A TouchSession that fails makes the session lax.
LEMMA AccountFailKept ==
    ASSUME Accounts!TimesAssumption, Accounts!BoundsAssumption, AccountInv, [Accounts!Next]_Accounts!vars,
           NEW h \in Handlers, Accounts!Fails(h)
    PROVE  AccountKeptInv'
<1>1. PICK t : t = task[h].token
  OBVIOUS
<1> DEFINE x == IF task[h].do = "touch" THEN [task[h] EXCEPT !.do = "serve"]
                ELSE Accounts!Rest
<1>2. /\ task[h] # Accounts!Rest /\ Accounts!Goto(h, x)
      /\ lax' = IF task[h].do = "touch" THEN lax \cup {t} ELSE lax
      /\ UNCHANGED <<clock, Accounts!table, purge, used, until, loggedOut>>
  BY <1>1 DEF Accounts!Fails
<1>3. task'[h] = x /\ \A g \in Handlers : g # h => task'[g] = task[g]
  BY <1>2 DEF Accounts!Goto, AccountInv, AccountStateInv, Accounts!TypeOK
<1>4. task'[h].do \notin {"session", "end"}
  <2>1. task[h] \in Accounts!Tasks
    BY <1>2, AccountTaskShape DEF AccountInv, AccountStateInv
  <2>2. CASE task[h].do = "touch"
    BY <1>3, <2>1, <2>2 DEF Accounts!Tasks
  <2>3. CASE task[h].do # "touch"
    BY <1>3, <2>3 DEF Accounts!Rest
  <2>4. QED
    BY <2>2, <2>3
<1>5. AccountReadInv(h)' /\ AccountEndInv(h)'
  BY <1>4 DEF AccountReadInv, AccountEndInv
<1>6. CASE task[h].do # "touch"
  <2>1. UNCHANGED <<clock, Accounts!table, purge, Accounts!uses>>
    BY <1>2, <1>6 DEF Accounts!uses
  <2>2. QED
    BY <1>3, <1>5, <1>6, <2>1, AccountQuietKept
<1>7. CASE task[h].do = "touch"
  <2>1. UNCHANGED <<clock, sessions, made, purge, used, until, loggedOut>>
        /\ lax' = lax \cup {t}
    BY <1>2, <1>7 DEF Accounts!table
  <2>2. ASSUME NEW s \in 1 .. made
        PROVE  used'[s] <= clock' /\ AccountRowInv(s)' /\ AccountGoneInv(s)'
    <3>1. used'[s] <= clock' /\ AccountRowInv(s)
      BY <2>1, AccountSessionFacts
    <3>2. AccountGoneInv(s)'
      BY <2>1, AccountSessionFacts, AccountLostStays DEF AccountGoneInv
    <3>3. CASE s = t
      BY <2>1, <3>1, <3>2, <3>3 DEF AccountRowInv
    <3>4. CASE s # t
      <4>1. \A g \in Handlers : task[g].token = s => task'[g] = task[g]
        BY <1>1, <1>3, <3>4
      <4>2. QED
        BY <2>1, <3>1, <3>2, <4>1 DEF AccountRowInv
    <3>5. QED
      BY <3>3, <3>4
  <2>3. ASSUME NEW g \in Handlers, g # h PROVE AccountReadInv(g)' /\ AccountEndInv(g)'
    <3>1. PICK u : u = task[g].token
      OBVIOUS
    <3>2. task'[g] = task[g] /\ until'[u] = until[u] /\ used'[u] = used[u]
          /\ loggedOut \subseteq loggedOut' /\ lax \subseteq lax'
          /\ sessions'[u].lastSeen = sessions[u].lastSeen
          /\ (u \in DOMAIN sessions' => u \in DOMAIN sessions)
      BY <1>3, <2>1, <2>3
    <3>3. QED
      BY <3>1, <3>2, AccountReadStays
  <2>4. AccountPurgeInv'
    BY <2>1 DEF AccountInv, AccountKeptInv, AccountPurgeInv
  <2>5. QED
    BY <1>5, <2>1, <2>2, <2>3, <2>4 DEF AccountKeptInv
<1>8. QED
  BY <1>6, <1>7

\* The steps that leave the table, the clock and the requests alone.
LEMMA AccountIdleKept ==
    ASSUME Accounts!TimesAssumption, Accounts!BoundsAssumption, AccountInv,
           UNCHANGED <<clock, sessions, made, task, used, until, loggedOut, lax>>,
           AccountPurgeInv'
    PROVE  AccountKeptInv'
BY DEF AccountInv, AccountKeptInv, AccountRowInv, AccountGoneInv,
       AccountReadInv, AccountEndInv, AccountLost, Accounts!Steady

LEMMA AccountKeptStep ==
    ASSUME Accounts!TimesAssumption, Accounts!BoundsAssumption, AccountInv, [Accounts!Next]_Accounts!vars
    PROVE  AccountKeptInv'
<1>1. CASE Accounts!Tick
  BY <1>1, AccountTickKept
<1>2. ASSUME NEW h \in Handlers, Accounts!Authed(h) PROVE AccountKeptInv'
  <2>1. CASE Accounts!Login(h)
    BY <2>1, AccountLoginKept
  <2>2. CASE \E t \in Accounts!Tokens : Accounts!SessionByHash(h, t)
    BY <2>2, AccountReadKept
  <2>3. CASE Accounts!Unauthenticated(h)
    BY <2>3, AccountRefuseKept
  <2>4. CASE Accounts!Authenticated(h)
    BY <2>4, AccountAuthenticatedKept
  <2>5. CASE Accounts!TouchSession(h)
    BY <2>5, AccountTouchKept
  <2>6. CASE Accounts!Serve(h)
    <3>1. /\ task[h].do = "serve" /\ Accounts!Goto(h, Accounts!Rest)
          /\ UNCHANGED <<clock, Accounts!table, purge, Accounts!uses>>
      BY <2>6 DEF Accounts!Serve
    <3>2. task'[h] = Accounts!Rest /\ \A g \in Handlers : g # h => task'[g] = task[g]
      BY <3>1 DEF Accounts!Goto, AccountInv, AccountStateInv, Accounts!TypeOK
    <3>3. AccountReadInv(h)' /\ AccountEndInv(h)'
      BY <3>2 DEF AccountReadInv, AccountEndInv, Accounts!Rest
    <3>4. QED
      BY <3>1, <3>2, <3>3, AccountQuietKept
  <2>7. CASE Accounts!Logout(h) \/ Accounts!EndSession(h)
    BY <2>7, AccountRemoveKept
  <2>8. CASE Accounts!Fails(h)
    BY <2>8, AccountFailKept
  <2>9. QED
    BY <1>2, <2>1, <2>2, <2>3, <2>4, <2>5, <2>6, <2>7, <2>8 DEF Accounts!Authed
<1>3. CASE Accounts!PurgeExpired
  <2>1. AccountPurgeInv'
    BY <1>3, AccountLimitFacts DEF Accounts!PurgeExpired, AccountPurgeInv
  <2>2. QED
    BY <1>3, <2>1, AccountIdleKept
       DEF Accounts!PurgeExpired, Accounts!table, Accounts!uses
<1>4. CASE Accounts!PurgeSessions
  BY <1>4, AccountPurgeKept
<1>5. CASE Accounts!PurgeFails
  <2>1. AccountPurgeInv'
    BY <1>5 DEF Accounts!PurgeFails, AccountPurgeInv
  <2>2. QED
    BY <1>5, <2>1, AccountIdleKept
       DEF Accounts!PurgeFails, Accounts!table, Accounts!uses
<1>6. CASE UNCHANGED Accounts!vars
  <2>1. AccountPurgeInv'
    BY <1>6 DEF Accounts!vars, AccountInv, AccountKeptInv, AccountPurgeInv
  <2>2. QED
    BY <1>6, <2>1, AccountIdleKept
       DEF Accounts!vars, Accounts!table, Accounts!uses
<1>7. QED
  BY <1>1, <1>2, <1>3, <1>4, <1>5, <1>6 DEF Accounts!Next

(***************************************************************************)
(* KeptAlive: nobody who uses a session steadily is thrown out early.      *)
(***************************************************************************)
THEOREM AccountKeptCorrect ==
    ASSUME Accounts!TimesAssumption, Accounts!BoundsAssumption
    PROVE  Accounts!Spec => Accounts!KeptAlive
<1>1. Accounts!Init => AccountInv
  <2>1. Accounts!Init => AccountStateInv
    BY AccountStateInit
  <2>2. Accounts!Init => AccountKeptInv
    BY DEF Accounts!Init, AccountKeptInv, AccountReadInv, AccountEndInv,
           AccountPurgeInv, Accounts!Rest
  <2>3. QED
    BY <2>1, <2>2 DEF AccountInv
<1>2. AccountInv /\ [Accounts!Next]_Accounts!vars => AccountInv'
  BY AccountStateStep, AccountKeptStep DEF AccountInv
<1>3. AccountInv /\ [Accounts!Next]_Accounts!vars =>
        [\A h \in Handlers :
           Accounts!Unauthenticated(h) =>
              LET t == task[h].token IN
              \/ t \in loggedOut \cup lax
              \/ clock - used[t] > Accounts!Steady
              \/ clock >= until[t]]_Accounts!vars
  BY AccountRefusedIsLost DEF AccountLost
<1>4. QED
  BY <1>1, <1>2, <1>3, PTL DEF Accounts!Spec, Accounts!KeptAlive

-----------------------------------------------------------------------------
(***************************************************************************)
(* The pages in the browser.  What a tab waits for says where it is, and   *)
(* what came of it holds: sessions that were made stay made, for the same  *)
(* account and the same tab.  The cookie is that of no session this tab    *)
(* made but the one it knows, from the moment it asks who is there: only   *)
(* other tabs change it while the answer is on its way.                    *)
(***************************************************************************)
ClientAsked(t) ==
    LET r == request[t] IN
    /\ r.op \in {"code", "verify"} => page[t] = "login" /\ r.email \in Emails
    /\ r.op = "me" => /\ page[t] = "loading"
                      /\ cookie \notin {0, r.cookie} => signer[cookie] # t
    /\ r.op = "logout" => page[t] = "app"
    /\ r.op = "code" => /\ r.answer = "none"
                        /\ email[t] # None
                        /\ retyped[t] \/ r.email = email[t]
    /\ r.op = "verify" /\ r.answer # "none" =>
           /\ r.answer = "ok" /\ r.sets = "set"
           /\ r.session \in Made /\ signer[r.session] = t
    /\ r.op \in {"me", "logout"} =>
           /\ r.sets # "set"
           /\ r.answer = "ok" => r.session \in Made /\ r.session = r.cookie

ClientForm(t) ==
    page[t] = "login" /\ step[t] = "code" =>
        email[t] # None /\ (retyped[t] \/ info[t] = email[t])

ClientApp(t) ==
    page[t] = "app" =>
        /\ csrf[t] # 0 /\ me[t] = owner[csrf[t]]
        /\ cookie \notin {0, csrf[t]} => signer[cookie] # t

ClientTab(t) ==
    /\ csrf[t] \in Made \cup {0}
    /\ request[t] # None => ClientAsked(t)
    /\ ClientForm(t)
    /\ ClientApp(t)

ClientInv ==
    /\ TypeOK
    /\ cookie \in Made \cup {0}
    /\ \A t \in Tabs : ClientTab(t)

\* Sessions that were made stay as they are.
ClientGrows ==
    \A s \in Made : s \in Made' /\ owner'[s] = owner[s] /\ signer'[s] = signer[s]

\* For tab t, the cookie is as before, gone, or another tab's.
ClientCookie(t) ==
    \/ cookie' = cookie
    \/ cookie' = 0
    \/ cookie' \in Made' /\ signer'[cookie'] # t

LEMMA ClientShapes ==
    ASSUME ConstantsAssumption, TypeOK, NEW t \in Tabs
    PROVE  /\ request[t] \in Requests \cup {None}
           /\ request[t] \in Requests =>
                  /\ request[t].op \in Ops /\ request[t].cookie \in 0 .. MaxSessions
                  /\ request[t].csrf \in 0 .. MaxSessions
                  /\ request[t].email \in Emails \cup {None}
                  /\ request[t].answer \in Answers
                  /\ request[t].session \in 0 .. MaxSessions
                  /\ request[t].sets \in {"keep", "clear", "set"}
           /\ MaxSessions \in Nat /\ Sessions \subseteq 0 .. MaxSessions /\ 0 \notin Sessions
           /\ Made \subseteq Sessions /\ None \notin Emails
BY DEF TypeOK, Requests, ConstantsAssumption, Sessions, Made

\* A request that is sent.
LEMMA ClientSent ==
    ASSUME ConstantsAssumption, TypeOK, NEW t \in Tabs, NEW op \in Ops, NEW c \in 0 .. MaxSessions
    PROVE  LET r == [Request(op, t) EXCEPT !.cookie = c] IN
           /\ r \in Requests /\ r.op = op /\ r.cookie = c /\ r.answer = "none"
           /\ r.sets = "keep"
           /\ op \in {"code", "verify"} => r.email = email[t]
<1>1. /\ cookie \in 0 .. MaxSessions /\ csrf[t] \in 0 .. MaxSessions
      /\ email[t] \in Emails \cup {None} /\ MaxSessions \in Nat
  BY DEF TypeOK, ConstantsAssumption
<1>2. QED
  BY <1>1 DEF Request, Requests, Ops, Answers

LEMMA ClientSentPlain ==
    ASSUME ConstantsAssumption, TypeOK, NEW t \in Tabs, NEW op \in Ops, NEW r, r = Request(op, t)
    PROVE  /\ r \in Requests /\ r.op = op /\ r.answer = "none" /\ r.sets = "keep"
           /\ op \in {"code", "verify"} => r.email = email[t]
           /\ op \in {"me", "logout"} => r.cookie = cookie
<1>1. /\ cookie \in 0 .. MaxSessions /\ csrf[t] \in 0 .. MaxSessions
      /\ email[t] \in Emails \cup {None} /\ MaxSessions \in Nat
  BY DEF TypeOK, ConstantsAssumption
<1>2. QED
  BY <1>1 DEF Request, Requests, Ops, Answers

\* What the server puts into a request.
LEMMA ClientReply ==
    ASSUME ConstantsAssumption, TypeOK, NEW t \in Tabs, request[t] \in Requests,
           NEW answer \in Answers, NEW session \in 0 .. MaxSessions,
           NEW sets \in {"keep", "clear", "set"}, Reply(t, answer, session, sets)
    PROVE  /\ request' \in [Tabs -> Requests \cup {None}]
           /\ \A u \in Tabs : u # t => request'[u] = request[u]
           /\ request'[t].op = request[t].op /\ request'[t].cookie = request[t].cookie
           /\ request'[t].email = request[t].email
           /\ request'[t].answer = answer /\ request'[t].session = session
           /\ request'[t].sets = sets /\ request'[t] \in Requests
<1> DEFINE r == [request[t] EXCEPT !.answer = answer, !.session = session, !.sets = sets]
<1>1. request' = [request EXCEPT ![t] = r]
  BY DEF Reply, TypeOK
<1>2. /\ r \in Requests /\ r.op = request[t].op /\ r.cookie = request[t].cookie
      /\ r.email = request[t].email
      /\ r.answer = answer /\ r.session = session /\ r.sets = sets
  BY DEF Requests
<1> HIDE DEF r
<1>3. QED
  BY <1>1, <1>2 DEF TypeOK

\* A tab that does nothing while others do.
LEMMA ClientStays ==
    ASSUME ConstantsAssumption, ClientInv, NEW u \in Tabs, ClientGrows, ClientCookie(u),
           page'[u] = page[u], step'[u] = step[u], email'[u] = email[u], info'[u] = info[u],
           csrf'[u] = csrf[u], me'[u] = me[u], retyped'[u] = retyped[u], request'[u] = request[u]
    PROVE  ClientTab(u)'
<1> USE DEF ClientInv
<1>1. ClientTab(u) /\ cookie \in Made \cup {0} /\ 0 \notin Made
  BY ClientShapes
<1>2. \A s \in Made : s \in Made' /\ owner'[s] = owner[s] /\ signer'[s] = signer[s]
  BY DEF ClientGrows
<1>3. csrf'[u] \in Made' \cup {0}
  BY <1>1, <1>2 DEF ClientTab
<1>4. cookie' \notin {0, cookie} => signer'[cookie'] # u
  BY DEF ClientCookie
<1>5. cookie # 0 => signer'[cookie] = signer[cookie]
  BY <1>1, <1>2
<1>6. ClientForm(u)'
  BY <1>1 DEF ClientTab, ClientForm
<1>7. ClientApp(u)'
  BY <1>1, <1>2, <1>4, <1>5 DEF ClientTab, ClientApp
<1>8. request'[u] # None => ClientAsked(u)'
  BY <1>1, <1>2, <1>4, <1>5 DEF ClientTab, ClientAsked
<1>9. QED
  BY <1>3, <1>6, <1>7, <1>8 DEF ClientTab

\* What an answer says that arrives.
LEMMA ClientComes ==
    ASSUME ConstantsAssumption, ClientInv, NEW t \in Tabs, NEW op, NEW a, Comes(t, op, a)
    PROVE  /\ request[t] \in Requests /\ request[t].op = op /\ ClientAsked(t)
           /\ op = "code" => cookie' = cookie
           /\ op = "verify" =>
                  IF Ok(a) THEN /\ a.session \in Made /\ signer[a.session] = t
                                /\ cookie' = a.session
                  ELSE cookie' = cookie
           /\ op \in {"me", "logout"} => cookie' = cookie \/ cookie' = 0
           /\ op = "me" /\ Ok(a) => a.session \in Made /\ a.session = request[t].cookie
           /\ cookie' \in Made \cup {0}
           /\ UNCHANGED <<live, owner, signer>>
<1> USE DEF ClientInv
<1>1. request[t] \in Requests /\ request[t].op = op /\ ClientAsked(t)
      /\ UNCHANGED <<live, owner, signer>>
  BY ClientShapes DEF Comes, ClientTab
<1>2. /\ request[t].op \in Ops /\ request[t].sets \in {"keep", "clear", "set"}
  BY <1>1, ClientShapes
<1>3. /\ a.sets = "keep" => cookie' = cookie
      /\ a.sets = "clear" => cookie' = 0
      /\ a.sets = "set" => cookie' = a.session
  BY DEF Comes
<1>4. CASE a = Failed
  BY <1>1, <1>2, <1>3, <1>4 DEF Failed, Ok
<1>5. CASE op = "code" /\ a = [answer |-> "ok", session |-> 0, sets |-> "keep"]
  BY <1>1, <1>2, <1>3, <1>5 DEF Ok
<1>6. CASE /\ request[t].answer # "none" /\ a.answer = request[t].answer
           /\ a.session = request[t].session /\ a.sets = request[t].sets
  BY <1>1, <1>2, <1>3, <1>6 DEF Ok, ClientAsked, Ops
<1>7. \/ a = Failed
      \/ request[t].answer # "none" /\ a = [answer |-> request[t].answer,
                                            session |-> request[t].session,
                                            sets |-> request[t].sets]
      \/ op = "code" /\ a = [answer |-> "ok", session |-> 0, sets |-> "keep"]
  BY Zenon DEF Comes
<1>8. QED
  BY <1>4, <1>5, <1>6, <1>7

\* Nothing happens to the other tabs.
ClientElse(t) ==
    \A u \in Tabs : u # t =>
        /\ page'[u] = page[u] /\ step'[u] = step[u] /\ email'[u] = email[u]
        /\ info'[u] = info[u] /\ csrf'[u] = csrf[u] /\ me'[u] = me[u]
        /\ retyped'[u] = retyped[u] /\ request'[u] = request[u]

LEMMA ClientCombine ==
    ASSUME ConstantsAssumption, ClientInv, NEW t \in Tabs, TypeOK', ClientGrows,
           cookie' \in Made' \cup {0}, ClientElse(t),
           \A u \in Tabs : u # t => ClientCookie(u), ClientTab(t)'
    PROVE  ClientInv'
<1>1. ASSUME NEW u \in Tabs PROVE ClientTab(u)'
  <2>1. CASE u # t
    BY <2>1, ClientStays DEF ClientElse
  <2>2. QED
    BY <2>1
<1>2. QED
  BY <1>1 DEF ClientInv

LEMMA ClientSame ==
    ASSUME ClientInv, UNCHANGED <<owner, signer>>, cookie' = cookie \/ cookie' = 0
    PROVE  /\ ClientGrows /\ Made' = Made /\ cookie' \in Made' \cup {0}
           /\ \A u \in Tabs : ClientCookie(u)
BY DEF ClientInv, ClientGrows, ClientCookie, Made

-----------------------------------------------------------------------------
(***************************************************************************)
(* The steps of a page.                                                    *)
(***************************************************************************)
LEMMA ClientTypes ==
    ASSUME ConstantsAssumption, ClientInv, NEW t \in Tabs, NEW e \in Emails, TypeEmail(t, e)
    PROVE  ClientInv'
<1> USE DEF ClientInv
<1>1. /\ email' = [email EXCEPT ![t] = e] /\ page[t] = "login" /\ step[t] = "email"
      /\ retyped' = [retyped EXCEPT ![t] = retyped[t] \/ request[t] # None]
      /\ UNCHANGED <<cookie, live, owner, signer, page, step, info, csrf, me, request>>
  BY DEF TypeEmail
<1>2. /\ retyped' \in [Tabs -> BOOLEAN] /\ (retyped'[t] <=> retyped[t] \/ request[t] # None)
      /\ \A u \in Tabs : u # t => retyped'[u] = retyped[u]
  BY <1>1, Zenon DEF TypeOK
<1>3. TypeOK' /\ ClientElse(t) /\ email'[t] = e
  BY <1>1, <1>2 DEF TypeOK, Made, ClientElse
<1>4. ClientTab(t) /\ Made' = Made /\ None \notin Emails
  BY <1>1, ClientSame, ClientShapes
<1>5. ClientTab(t)'
  BY <1>1, <1>2, <1>3, <1>4 DEF ClientTab, ClientAsked, ClientForm, ClientApp
<1>6. QED
  BY <1>1, <1>3, <1>5, ClientSame, ClientCombine

LEMMA ClientSends ==
    ASSUME ConstantsAssumption, ClientInv, NEW t \in Tabs, sendCode(t) \/ verify(t) \/ logout(t)
    PROVE  ClientInv'
<1> USE DEF ClientInv
<1>1. PICK op \in {"code", "verify", "logout"} :
          /\ request' = [request EXCEPT ![t] = Request(op, t)]
          /\ op = "code" => email[t] # None
          /\ op = "verify" => page[t] = "login" /\ step[t] = "code"
          /\ op = "code" => page[t] = "login" /\ step[t] = "email"
          /\ op = "logout" => page[t] = "app"
          /\ IF op = "code" THEN retyped' = [retyped EXCEPT ![t] = FALSE]
                            ELSE retyped' = retyped
  BY DEF sendCode, verify, logout, Send, client
<1>2. UNCHANGED <<cookie, live, owner, signer, page, step, email, info, csrf, me>>
  BY DEF sendCode, verify, logout, Send, client
<1> DEFINE r == Request(op, t)
<1>3. /\ r \in Requests /\ r.op = op /\ r.answer = "none" /\ r.sets = "keep"
      /\ op \in {"code", "verify"} => r.email = email[t]
  BY ClientSentPlain DEF Ops
<1>4. request' = [request EXCEPT ![t] = r]
  BY <1>1
<1> HIDE DEF r
<1>5. TypeOK' /\ ClientElse(t) /\ request'[t] = r
  <2>1. /\ request' \in [Tabs -> Requests \cup {None}] /\ request'[t] = r
        /\ \A u \in Tabs : u # t => request'[u] = request[u]
    BY <1>3, <1>4 DEF TypeOK
  <2>2. retyped \in [Tabs -> BOOLEAN]
    BY DEF TypeOK
  <2>3. /\ retyped' \in [Tabs -> BOOLEAN]
        /\ \A u \in Tabs : u # t => retyped'[u] = retyped[u]
    BY <1>1, <2>2
  <2>4. TypeOK'
    BY <1>2, <2>1, <2>3 DEF TypeOK, Made
  <2>5. QED
    BY <1>2, <2>1, <2>3, <2>4 DEF ClientElse
<1>6. ClientTab(t) /\ Made' = Made /\ email[t] \in Emails \cup {None}
  BY <1>2, ClientSame DEF TypeOK
<1>7. retyped'[t] = retyped[t] \/ op = "code"
  BY <1>1
<1>8. ClientTab(t)'
  <2>1. ClientAsked(t)'
    BY <1>1, <1>2, <1>3, <1>5, <1>6 DEF ClientTab, ClientAsked, ClientForm
  <2>2. step[t] = "code" /\ op = "code" => email[t] # None
    BY <1>1
  <2>3. ClientForm(t)'
    BY <1>1, <1>2, <1>6, <1>7 DEF ClientTab, ClientForm
  <2>4. QED
    BY <1>2, <1>6, <2>1, <2>3 DEF ClientTab, ClientApp
<1>9. QED
  BY <1>2, <1>5, <1>8, ClientSame, ClientCombine

LEMMA ClientOther ==
    ASSUME ConstantsAssumption, ClientInv, NEW t \in Tabs, OtherEmail(t)
    PROVE  ClientInv'
<1> USE DEF ClientInv
<1>1. /\ step' = [step EXCEPT ![t] = "email"]
      /\ UNCHANGED <<cookie, live, owner, signer, page, email, info, csrf, me, request, retyped>>
  BY DEF OtherEmail
<1>2. TypeOK' /\ ClientElse(t) /\ step'[t] = "email"
  BY <1>1 DEF TypeOK, Made, ClientElse
<1>3. ClientTab(t) /\ Made' = Made
  BY <1>1, ClientSame
<1>4. ClientTab(t)'
  BY <1>1, <1>2, <1>3 DEF ClientTab, ClientAsked, ClientForm, ClientApp
<1>5. QED
  BY <1>1, <1>2, <1>4, ClientSame, ClientCombine

\* The fields of a page that is left.
LEMMA ClientEmpty ==
    ASSUME TypeOK, NEW t \in Tabs, EmptyForm(t)
    PROVE  /\ step' \in [Tabs -> {"email", "code"}] /\ step'[t] = "email"
           /\ {email', info'} \subseteq [Tabs -> Emails \cup {None}]
           /\ retyped' \in [Tabs -> BOOLEAN]
           /\ \A u \in Tabs : u # t =>
                  /\ step'[u] = step[u] /\ email'[u] = email[u]
                  /\ info'[u] = info[u] /\ retyped'[u] = retyped[u]
<1>1. step \in [Tabs -> {"email", "code"}] /\ retyped \in [Tabs -> BOOLEAN]
      /\ {email, info} \subseteq [Tabs -> Emails \cup {None}]
  BY DEF TypeOK
<1>2. /\ step' = [step EXCEPT ![t] = "email"] /\ email' = [email EXCEPT ![t] = None]
      /\ info' = [info EXCEPT ![t] = None] /\ retyped' = [retyped EXCEPT ![t] = FALSE]
  BY DEF EmptyForm
<1>3. QED
  BY <1>1, <1>2

\* A page that is opened, whoever may have opened it, asks who is there.
LEMMA ClientAsks ==
    ASSUME ConstantsAssumption, ClientInv, NEW t \in Tabs, EmptyForm(t),
           page' = [page EXCEPT ![t] = "loading"],
           NEW r \in Requests, r.op = "me", r.answer = "none", r.sets = "keep",
           r.cookie = cookie', request' = [request EXCEPT ![t] = r],
           NEW c \in Made \cup {0}, csrf' = [csrf EXCEPT ![t] = c],
           me' = me \/ me' = [me EXCEPT ![t] = None],
           UNCHANGED <<live, owner, signer>>, cookie' \in Made \cup {0},
           cookie' = cookie \/ signer[cookie'] = t
    PROVE  ClientInv'
<1> USE DEF ClientInv
<1>1. Made' = Made /\ ClientGrows /\ Made \subseteq 0 .. MaxSessions /\ c \in 0 .. MaxSessions
      /\ 0 \notin Made /\ cookie' \in 0 .. MaxSessions
  BY ClientShapes DEF Made, ClientGrows, Sessions, ConstantsAssumption
<1>2. /\ page' \in [Tabs -> {"login", "loading", "app"}] /\ page'[t] = "loading"
      /\ csrf' \in [Tabs -> 0 .. MaxSessions] /\ csrf'[t] = c
      /\ me' \in [Tabs -> Emails \cup {None}]
      /\ request' \in [Tabs -> Requests \cup {None}] /\ request'[t] = r
      /\ \A u \in Tabs : u # t => /\ page'[u] = page[u] /\ csrf'[u] = csrf[u]
                                 /\ me'[u] = me[u] /\ request'[u] = request[u]
  BY <1>1 DEF TypeOK
<1>3. TypeOK' /\ ClientElse(t)
  BY <1>1, <1>2, ClientEmpty DEF TypeOK, ClientElse
<1>4. ClientTab(t)'
  <2>1. ClientAsked(t)'
    BY <1>2 DEF ClientAsked
  <2>2. ClientForm(t)' /\ ClientApp(t)'
    BY <1>2 DEF ClientForm, ClientApp
  <2>3. QED
    BY <1>1, <1>2, <2>1, <2>2 DEF ClientTab
<1>5. \A u \in Tabs : u # t => ClientCookie(u)
  BY <1>1 DEF ClientCookie
<1>6. QED
  BY <1>1, <1>3, <1>4, <1>5, ClientCombine

LEMMA ClientOpen ==
    ASSUME ConstantsAssumption, ClientInv, NEW t \in Tabs, Open(t)
    PROVE  ClientInv'
<1>1. /\ EmptyForm(t) /\ page' = [page EXCEPT ![t] = "loading"]
      /\ csrf' = [csrf EXCEPT ![t] = 0] /\ me' = [me EXCEPT ![t] = None]
      /\ request' = [request EXCEPT ![t] = Request("me", t)]
      /\ UNCHANGED <<cookie, live, owner, signer>>
  BY DEF Open
<1> DEFINE r == Request("me", t)
<1>2. /\ r \in Requests /\ r.op = "me" /\ r.answer = "none" /\ r.sets = "keep" /\ r.cookie = cookie
  BY ClientSentPlain DEF ClientInv, Ops
<1>3. request' = [request EXCEPT ![t] = r]
  BY <1>1
<1> HIDE DEF r
<1>4. cookie \in Made \cup {0} /\ cookie' = cookie /\ 0 \in Made \cup {0}
  BY <1>1 DEF ClientInv
<1>5. QED
  BY <1>1, <1>2, <1>3, <1>4, ClientAsks

-----------------------------------------------------------------------------
(***************************************************************************)
(* The steps of the server.                                                *)
(***************************************************************************)
LEMMA ClientServeVerify ==
    ASSUME ConstantsAssumption, ClientInv, NEW t \in Tabs, ServeVerify(t)
    PROVE  ClientInv'
<1> USE DEF ClientInv
<1>1. PICK s \in Sessions :
          /\ owner[s] = None /\ live' = live \cup {s}
          /\ owner' = [owner EXCEPT ![s] = request[t].email]
          /\ signer' = [signer EXCEPT ![s] = t]
          /\ Reply(t, "ok", s, "set")
  BY DEF ServeVerify
<1>2. /\ UNCHANGED <<cookie, page, step, email, info, csrf, me, retyped>>
      /\ request[t] \in Requests /\ request[t].op = "verify" /\ ClientTab(t) /\ request[t] # None
  BY ClientShapes DEF ServeVerify, client, Asked
<1>3. request[t].email \in Emails /\ page[t] = "login" /\ None \notin Emails
      /\ s \in 0 .. MaxSessions
  BY <1>2, ClientShapes DEF ClientTab, ClientAsked
<1>4. /\ request' \in [Tabs -> Requests \cup {None}]
      /\ \A u \in Tabs : u # t => request'[u] = request[u]
      /\ request'[t].op = "verify" /\ request'[t].email = request[t].email
      /\ request'[t].answer = "ok" /\ request'[t].session = s /\ request'[t].sets = "set"
  BY <1>1, <1>2, <1>3, ClientReply DEF Answers
<1>5. /\ owner' \in [Sessions -> Emails \cup {None}] /\ signer' \in [Sessions -> Tabs \cup {None}]
      /\ \A x \in Sessions : x # s => owner'[x] = owner[x] /\ signer'[x] = signer[x]
      /\ owner'[s] = request[t].email /\ signer'[s] = t
  BY <1>1, <1>3 DEF TypeOK
<1>6. ClientGrows /\ s \in Made' /\ Made \subseteq Made'
  BY <1>1, <1>3, <1>5 DEF ClientGrows, Made
<1>7. TypeOK' /\ ClientElse(t)
  <2>1. live' \subseteq Made'
    BY <1>1, <1>6 DEF TypeOK
  <2>2. QED
    BY <1>2, <1>4, <1>5, <2>1 DEF TypeOK, ClientElse
<1>8. ClientTab(t)'
  <2>1. ClientAsked(t)'
    BY <1>2, <1>3, <1>4, <1>5, <1>6 DEF ClientAsked
  <2>2. QED
    BY <1>2, <1>3, <1>6, <2>1 DEF ClientTab, ClientForm, ClientApp
<1>9. QED
  BY <1>2, <1>6, <1>7, <1>8, ClientCombine DEF ClientCookie

LEMMA ClientAuthed ==
    ASSUME ConstantsAssumption, ClientInv, NEW t \in Tabs, authed(t)
    PROVE  ClientInv'
<1> USE DEF ClientInv
<1>1. /\ UNCHANGED <<cookie, owner, signer, page, step, email, info, csrf, me, retyped>>
      /\ request[t] \in Requests /\ request[t].op \in {"me", "logout"} /\ ClientTab(t)
      /\ request[t] # None /\ live' \subseteq live
  BY ClientShapes DEF authed, client, Asked
<1>2. Made' = Made /\ ClientGrows /\ live \subseteq Made
  BY <1>1, ClientSame DEF TypeOK
<1>3. PICK answer \in {"ok", "refused"}, session \in 0 .. MaxSessions, sets \in {"keep", "clear"} :
          /\ Reply(t, answer, session, sets)
          /\ answer = "ok" => session \in live /\ session = request[t].cookie
  <2>1. request[t].cookie \in 0 .. MaxSessions /\ 0 \in 0 .. MaxSessions
    BY <1>1, ClientShapes
  <2>2. CASE request[t].cookie \notin live
    BY <2>1, <2>2 DEF authed
  <2>3. CASE request[t].cookie \in live /\ request[t].op # "me" /\ request[t].csrf # request[t].cookie
    BY <2>1, <2>3 DEF authed
  <2>4. CASE request[t].cookie \in live /\ ~(request[t].op # "me" /\ request[t].csrf # request[t].cookie)
    BY <2>1, <2>4 DEF authed
  <2>5. QED
    BY <2>2, <2>3, <2>4
<1>4. /\ request' \in [Tabs -> Requests \cup {None}]
      /\ \A u \in Tabs : u # t => request'[u] = request[u]
      /\ request'[t].op = request[t].op /\ request'[t].cookie = request[t].cookie
      /\ request'[t].answer = answer /\ request'[t].session = session
      /\ request'[t].sets = sets
  BY <1>1, <1>3, ClientReply DEF Answers
<1>5. TypeOK' /\ ClientElse(t)
  BY <1>1, <1>2, <1>4 DEF TypeOK, ClientElse
<1>6. ClientTab(t)'
  <2>1. ClientAsked(t)'
    BY <1>1, <1>2, <1>3, <1>4 DEF ClientTab, ClientAsked
  <2>2. QED
    BY <1>1, <1>2, <2>1 DEF ClientTab, ClientForm, ClientApp
<1>7. QED
  BY <1>1, <1>2, <1>5, <1>6, ClientSame, ClientCombine

LEMMA ClientExpire ==
    ASSUME ConstantsAssumption, ClientInv, NEW s, Expire(s)
    PROVE  ClientInv'
<1> USE DEF ClientInv
<1>1. live' = live \ {s} /\ UNCHANGED <<cookie, owner, signer, client, request>>
  BY DEF Expire
<1>2. UNCHANGED <<page, step, email, info, csrf, me, retyped>>
  BY <1>1 DEF client
<1>3. ClientGrows /\ Made' = Made /\ \A u \in Tabs : ClientCookie(u)
  BY <1>1, ClientSame
<1>4. TypeOK'
  BY <1>1, <1>2, <1>3 DEF TypeOK
<1>5. \A u \in Tabs : ClientTab(u)'
  BY <1>1, <1>2, <1>3, ClientStays
<1>6. QED
  BY <1>1, <1>3, <1>4, <1>5

-----------------------------------------------------------------------------
(***************************************************************************)
(* Answers that arrive.                                                    *)
(***************************************************************************)
LEMMA ClientCodeArrives ==
    ASSUME ConstantsAssumption, ClientInv, NEW t \in Tabs, NEW a, CodeArrives(t, a)
    PROVE  ClientInv'
<1> USE DEF ClientInv
<1>1. /\ request[t] \in Requests /\ request[t].op = "code" /\ ClientAsked(t)
      /\ cookie' = cookie /\ UNCHANGED <<live, owner, signer>>
  BY ClientComes DEF CodeArrives
<1>2. /\ request' = [request EXCEPT ![t] = None]
      /\ step' = [step EXCEPT ![t] = IF Ok(a) THEN "code" ELSE step[t]]
      /\ info' = [info EXCEPT ![t] = IF Ok(a) THEN request[t].email ELSE info[t]]
      /\ UNCHANGED <<page, email, csrf, me, retyped>>
  BY DEF CodeArrives, Done
<1>3. request[t].email \in Emails /\ page[t] = "login" /\ email[t] # None
      /\ (retyped[t] \/ request[t].email = email[t])
  BY <1>1 DEF ClientAsked
<1>4. /\ request' \in [Tabs -> Requests \cup {None}] /\ request'[t] = None
      /\ step' \in [Tabs -> {"email", "code"}] /\ info' \in [Tabs -> Emails \cup {None}]
      /\ \A u \in Tabs : u # t =>
             request'[u] = request[u] /\ step'[u] = step[u] /\ info'[u] = info[u]
  BY <1>2, <1>3 DEF TypeOK
<1>5. TypeOK' /\ ClientElse(t)
  BY <1>1, <1>2, <1>4 DEF TypeOK, ClientElse, Made
<1>6. Made' = Made /\ ClientTab(t)
  BY <1>1, ClientSame
<1>7. ClientForm(t)'
  <2>1. CASE Ok(a)
    <3>1. info'[t] = request[t].email
      BY <1>2, <2>1 DEF TypeOK
    <3>2. QED
      BY <1>2, <1>3, <3>1 DEF ClientForm
  <2>2. CASE ~Ok(a)
    <3>1. info'[t] = info[t] /\ step'[t] = step[t]
      BY <1>2, <2>2 DEF TypeOK
    <3>2. QED
      BY <1>2, <1>6, <3>1 DEF ClientForm, ClientTab
  <2>3. QED
    BY <2>1, <2>2
<1>8. ClientTab(t)'
  BY <1>1, <1>2, <1>4, <1>6, <1>7 DEF ClientTab, ClientApp
<1>9. QED
  BY <1>1, <1>5, <1>8, ClientSame, ClientCombine

LEMMA ClientVerifyArrives ==
    ASSUME ConstantsAssumption, ClientInv, NEW t \in Tabs, NEW a, VerifyArrives(t, a)
    PROVE  ClientInv'
<1> USE DEF ClientInv
<1>1. /\ request[t] \in Requests /\ request[t].op = "verify" /\ cookie' \in Made \cup {0}
      /\ UNCHANGED <<live, owner, signer>> /\ me' = me
      /\ IF Ok(a) THEN a.session \in Made /\ signer[a.session] = t /\ cookie' = a.session
                  ELSE cookie' = cookie
  BY ClientComes DEF VerifyArrives
<1>2. CASE Ok(a)
  <2> PICK c \in 0 .. MaxSessions : c = cookie'
    BY <1>1, ClientShapes DEF Sessions
  <2> DEFINE r == [Request("me", t) EXCEPT !.cookie = c]
  <2>1. /\ EmptyForm(t) /\ page' = [page EXCEPT ![t] = "loading"]
        /\ csrf' = [csrf EXCEPT ![t] = a.session] /\ request' = [request EXCEPT ![t] = r]
    BY <1>2 DEF VerifyArrives
  <2>2. /\ r \in Requests /\ r.op = "me" /\ r.cookie = c /\ r.answer = "none"
        /\ r.sets = "keep"
    BY ClientSent DEF Ops
  <2> HIDE DEF r
  <2>3. QED
    BY <1>1, <1>2, <2>1, <2>2, ClientAsks
<1>3. CASE ~Ok(a)
  <2>1. /\ request' = [request EXCEPT ![t] = None] /\ cookie' = cookie
        /\ UNCHANGED <<csrf, page, step, email, info, retyped>>
    BY <1>1, <1>3 DEF VerifyArrives, Done
  <2>2. /\ request' \in [Tabs -> Requests \cup {None}] /\ request'[t] = None
        /\ \A u \in Tabs : u # t => request'[u] = request[u]
    BY <2>1 DEF TypeOK
  <2>3. TypeOK' /\ ClientElse(t)
    BY <1>1, <2>1, <2>2 DEF TypeOK, ClientElse, Made
  <2>4. Made' = Made /\ ClientTab(t)
    BY <1>1, <2>1, ClientSame
  <2>5. ClientTab(t)'
    BY <1>1, <2>1, <2>2, <2>4 DEF ClientTab, ClientApp, ClientForm
  <2>6. QED
    BY <1>1, <2>1, <2>3, <2>5, ClientSame, ClientCombine
<1>4. QED
  BY <1>2, <1>3

\* A tab that goes back to the login page.
LEMMA ClientToLogin ==
    ASSUME ConstantsAssumption, ClientInv, NEW t \in Tabs, ToLogin(t),
           request' = [request EXCEPT ![t] = None], csrf' = csrf,
           UNCHANGED <<live, owner, signer>>, cookie' = cookie \/ cookie' = 0
    PROVE  ClientInv'
<1> USE DEF ClientInv
<1>1. /\ page' = [page EXCEPT ![t] = "login"] /\ EmptyForm(t) /\ me' = [me EXCEPT ![t] = None]
  BY DEF ToLogin
<1>2. /\ page' \in [Tabs -> {"login", "loading", "app"}] /\ page'[t] = "login"
      /\ me' \in [Tabs -> Emails \cup {None}]
      /\ request' \in [Tabs -> Requests \cup {None}] /\ request'[t] = None
      /\ \A u \in Tabs : u # t =>
             page'[u] = page[u] /\ me'[u] = me[u] /\ request'[u] = request[u]
  BY <1>1 DEF TypeOK
<1>3. Made' = Made /\ ClientTab(t) /\ cookie' \in 0 .. MaxSessions
  BY ClientSame, ClientShapes DEF TypeOK
<1>4. TypeOK' /\ ClientElse(t)
  BY <1>1, <1>2, <1>3, ClientEmpty DEF TypeOK, ClientElse
<1>5. ClientTab(t)'
  BY <1>1, <1>2, <1>3, ClientEmpty DEF ClientTab, ClientForm, ClientApp
<1>6. QED
  BY <1>4, <1>5, ClientSame, ClientCombine

LEMMA ClientMeArrives ==
    ASSUME ConstantsAssumption, ClientInv, NEW t \in Tabs, NEW a, MeArrives(t, a)
    PROVE  ClientInv'
<1> USE DEF ClientInv
<1>1. /\ request[t] \in Requests /\ request[t].op = "me" /\ ClientAsked(t)
      /\ cookie' = cookie \/ cookie' = 0
      /\ Ok(a) => a.session \in Made /\ a.session = request[t].cookie
      /\ UNCHANGED <<live, owner, signer>> /\ cookie' \in Made \cup {0}
      /\ request' = [request EXCEPT ![t] = None] /\ refresh(t, a)
  BY ClientComes DEF MeArrives, Done
<1>2. CASE ~Ok(a)
  BY <1>1, <1>2, ClientToLogin DEF refresh
<1>3. CASE Ok(a)
  <2>1. /\ csrf' = [csrf EXCEPT ![t] = a.session] /\ me' = [me EXCEPT ![t] = owner[a.session]]
        /\ page' = [page EXCEPT ![t] = "app"] /\ UNCHANGED <<step, email, info, retyped>>
    BY <1>1, <1>3 DEF refresh
  <2>2. /\ a.session \in Sessions /\ a.session \in 0 .. MaxSessions /\ a.session # 0
        /\ owner[a.session] \in Emails \cup {None} /\ cookie' \in 0 .. MaxSessions
    BY <1>1, <1>3, ClientShapes DEF TypeOK, Made, Sessions
  <2>3. /\ page' \in [Tabs -> {"login", "loading", "app"}] /\ page'[t] = "app"
        /\ me' \in [Tabs -> Emails \cup {None}] /\ me'[t] = owner[a.session]
        /\ csrf' \in [Tabs -> 0 .. MaxSessions] /\ csrf'[t] = a.session
        /\ request' \in [Tabs -> Requests \cup {None}] /\ request'[t] = None
        /\ \A u \in Tabs : u # t => /\ page'[u] = page[u] /\ csrf'[u] = csrf[u]
                                   /\ me'[u] = me[u] /\ request'[u] = request[u]
    BY <1>1, <2>1, <2>2 DEF TypeOK
  <2>4. Made' = Made
    BY <1>1, ClientSame
  <2>5. TypeOK' /\ ClientElse(t)
    BY <1>1, <2>1, <2>2, <2>3, <2>4 DEF TypeOK, ClientElse
  <2>6. ClientTab(t)'
    <3>1. cookie' \notin {0, a.session} => signer[cookie'] # t
      BY <1>1, <1>3 DEF ClientAsked
    <3>2. ClientApp(t)'
      BY <1>1, <1>3, <2>2, <2>3, <3>1 DEF ClientApp
    <3>3. QED
      BY <1>1, <1>3, <2>3, <2>4, <3>2 DEF ClientTab, ClientForm
  <2>7. QED
    BY <1>1, <2>5, <2>6, ClientSame, ClientCombine
<1>4. QED
  BY <1>2, <1>3

LEMMA ClientLogoutArrives ==
    ASSUME ConstantsAssumption, ClientInv, NEW t \in Tabs, NEW a, LogoutArrives(t, a)
    PROVE  ClientInv'
<1> USE DEF ClientInv
<1>1. /\ request[t] \in Requests /\ request[t].op = "logout"
      /\ cookie' = cookie \/ cookie' = 0
      /\ UNCHANGED <<live, owner, signer>> /\ cookie' \in Made \cup {0}
      /\ request' = [request EXCEPT ![t] = None] /\ csrf' = csrf
  BY ClientComes DEF LogoutArrives, Done
<1>2. CASE Ok(a)
  BY <1>1, <1>2, ClientToLogin DEF LogoutArrives
<1>3. CASE ~Ok(a)
  <2>1. UNCHANGED <<page, step, email, info, me, retyped>>
    BY <1>3 DEF LogoutArrives
  <2>2. /\ request' \in [Tabs -> Requests \cup {None}] /\ request'[t] = None
        /\ \A u \in Tabs : u # t => request'[u] = request[u]
    BY <1>1 DEF TypeOK
  <2>3. Made' = Made /\ ClientTab(t) /\ cookie' \in 0 .. MaxSessions
    BY <1>1, ClientSame, ClientShapes DEF TypeOK
  <2>4. TypeOK' /\ ClientElse(t)
    BY <1>1, <2>1, <2>2, <2>3 DEF TypeOK, ClientElse
  <2>5. ClientTab(t)'
    BY <1>1, <2>1, <2>2, <2>3 DEF ClientTab, ClientApp, ClientForm
  <2>6. QED
    BY <1>1, <2>4, <2>5, ClientSame, ClientCombine
<1>4. QED
  BY <1>2, <1>3

-----------------------------------------------------------------------------
LEMMA ClientInvInit == ASSUME ConstantsAssumption, Init PROVE ClientInv
<1>1. cookie = 0 /\ live = {} /\ \A s \in Sessions : owner[s] = None
  BY DEF Init
<1>2. Made = {}
  BY <1>1 DEF Made
<1>3. TypeOK
  BY <1>1, <1>2 DEF Init, TypeOK, ConstantsAssumption
<1>4. ASSUME NEW t \in Tabs PROVE ClientTab(t)
  BY DEF Init, ClientTab, ClientForm, ClientApp
<1>5. QED
  BY <1>1, <1>3, <1>4 DEF ClientInv

LEMMA ClientInvStep ==
    ASSUME ConstantsAssumption, ClientInv, [Next]_vars
    PROVE  ClientInv'
<1>1. ASSUME NEW t \in Tabs, Page(t) PROVE ClientInv'
  BY <1>1, ClientTypes, ClientSends, ClientOther, ClientOpen DEF Page
<1>2. ASSUME NEW t \in Tabs, Server(t) PROVE ClientInv'
  BY <1>2, ClientServeVerify, ClientAuthed DEF Server
<1>3. ASSUME NEW t \in Tabs, Answer(t) PROVE ClientInv'
  BY <1>3, ClientCodeArrives, ClientVerifyArrives, ClientMeArrives,
     ClientLogoutArrives
     DEF Answer
<1>4. CASE UNCHANGED vars
  <2>1. /\ UNCHANGED <<cookie, live, owner, signer, request>>
        /\ UNCHANGED <<page, step, email, info, csrf, me, retyped>>
    BY <1>4 DEF vars, client
  <2>2. TypeOK' /\ Made' = Made
    BY <2>1 DEF ClientInv, TypeOK, Made
  <2>3. ASSUME NEW u \in Tabs PROVE ClientTab(u)'
    BY <2>1, ClientStays, ClientSame
  <2>4. QED
    BY <2>1, <2>2, <2>3 DEF ClientInv
<1>5. QED
  BY <1>1, <1>2, <1>3, <1>4, ClientExpire DEF Next

\* Every variable has its type: a cookie, a token and a session of the table
\* are those of sessions that were made.
THEOREM ClientTypeCorrect == ASSUME ConstantsAssumption PROVE Spec => []TypeOK
<1>1. ClientInv => TypeOK
  BY DEF ClientInv
<1>2. QED
  BY <1>1, ClientInvInit, ClientInvStep, PTL DEF Spec

\* A tab that shows the console sends the token of the account it shows, and
\* the cookie is not that of an older session of its own: for any tabs.
THEOREM ClientTokenCorrect == ASSUME ConstantsAssumption PROVE Spec => []TokenRight
<1>1. ClientInv => TokenRight
  BY DEF ClientInv, ClientTab, ClientApp, TokenRight
<1>2. QED
  BY <1>1, ClientInvInit, ClientInvStep, PTL DEF Spec

\* A code is verified for the address the page names, unless that was changed
\* while the code was being asked for.
THEOREM ClientCodeCorrect == ASSUME ConstantsAssumption PROVE Spec => []CodeForEmail
<1>1. ClientInv => CodeForEmail
  BY DEF ClientInv, ClientTab, ClientForm, CodeForEmail
<1>2. QED
  BY <1>1, ClientInvInit, ClientInvStep, PTL DEF Spec

-----------------------------------------------------------------------------
(***************************************************************************)
(* The three side by side, as the run explores them: a step of one is one  *)
(* the others do not see.                                                  *)
(***************************************************************************)
LEMMA SignInParts ==
    SignInSpec => Spec /\ Codes!Spec /\ Accounts!Spec
<1>1. SignInInit => Init /\ Codes!Init /\ Accounts!Init
  BY DEF SignInInit
<1>2. [SignInNext]_<<part, clientVars, codeVars, accountVars>>
          => [Next]_vars /\ [Codes!Next]_Codes!vars /\ [Accounts!Next]_Accounts!vars
  <2>1. UNCHANGED clientVars => UNCHANGED vars
    BY DEF clientVars, vars, client
  <2>2. UNCHANGED codeVars => UNCHANGED Codes!vars
    BY DEF codeVars, Codes!vars, Codes!tables, Codes!guesses
  <2>3. UNCHANGED accountVars => UNCHANGED Accounts!vars
    BY DEF accountVars, Accounts!vars, Accounts!table, Accounts!uses
  <2>4. QED
    BY <2>1, <2>2, <2>3, Zenon DEF SignInNext, ClientStep, CodeStep, AccountStep
<1>3. QED
  BY <1>1, <1>2, PTL DEF SignInSpec, Spec, Codes!Spec, Accounts!Spec

LEMMA SignInConstants ==
    /\ ConstantsAssumption /\ CodeAssumptions
    /\ Accounts!TimesAssumption /\ Accounts!BoundsAssumption
BY ClientAssumption, CodesAssumption, AccountsAssumption DEF CodeAssumptions

\* The types of all three.
THEOREM TypesCorrect == SignInSpec => []TypesOK
<1>1. SignInSpec => []TypeOK /\ []Codes!TypeOK /\ []Accounts!TypeOK
  BY SignInConstants, SignInParts, ClientTypeCorrect, CodeTypeCorrect,
     AccountTypeCorrect, PTL
<1>2. TypeOK /\ Codes!TypeOK /\ Accounts!TypeOK => TypesOK
  BY DEF TypesOK
<1>3. QED
  BY <1>1, <1>2, PTL

\* Requests that overlap get nothing out of it: neither guesses nor codes nor
\* sessions beyond what the handlers at once allow.
THEOREM CodesRightCorrect == SignInSpec => []CodesRight
<1>1. SignInSpec => []Codes!GuessesBounded /\ []Codes!CodesBounded /\ []Codes!OneSessionPerCode
  BY SignInConstants, SignInParts, CodeGuessesCorrect, CodeCodesCorrect,
     CodeSessionCorrect, PTL
<1>2. Codes!GuessesBounded /\ Codes!CodesBounded /\ Codes!OneSessionPerCode => CodesRight
  BY DEF CodesRight
<1>3. QED
  BY <1>1, <1>2, PTL

\* Logging out is final, whatever is under way.
THEOREM LoggedOutCorrect == SignInSpec => []LoggedOutIsGone
<1>1. SignInSpec => []Accounts!LoggedOutIsGone
  BY SignInConstants, SignInParts, AccountGoneCorrect, PTL
<1>2. Accounts!LoggedOutIsGone => LoggedOutIsGone
  BY DEF LoggedOutIsGone
<1>3. QED
  BY <1>1, <1>2, PTL

\* A session that is used often enough is refused only at its end.
THEOREM KeptAliveCorrect == SignInSpec => KeptAlive
BY SignInConstants, SignInParts, AccountKeptCorrect, PTL DEF KeptAlive

\* Over the tabs of a browser: whose token a tab sends, and where a code goes.
THEOREM ClientRightCorrect == SignInSpec => []ClientRight
<1>1. SignInSpec => []TokenRight /\ []CodeForEmail
  BY SignInConstants, SignInParts, ClientTokenCorrect, ClientCodeCorrect, PTL
<1>2. TokenRight /\ CodeForEmail => ClientRight
  BY DEF ClientRight
<1>3. QED
  BY <1>1, <1>2, PTL
=============================================================================
