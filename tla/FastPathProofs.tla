--------------------------- MODULE FastPathProofs ---------------------------
(***************************************************************************)
(* What a switch that kept its session holds, for any number of switches,   *)
(* flows, decisions, flow-mods on their way and lost sessions; and, after   *)
(* it, publish() on top of the fast path, for any number of calls and lost  *)
(* requests: what is shown after a call that ended well on both paths is    *)
(* what both paths do.                                                      *)
(***************************************************************************)
EXTENDS DualPath, TLAPS

\* A flow-mod that replaces or removes rule r of flow f.
Hits(m, f, r) ==
    \/ m.kind = "add" /\ m.flow = f
    \/ m.kind = "clear" /\ r.cookie \in m.cookies

\* One behind position i of the connection w does.
Overtaken(w, f, r, i) == \E j \in DOMAIN w : j > i /\ Hits(w[j], f, r)

\* Rule r is what the last decision on f above Tier 0 asked for, and on record.
IsLatest(s, f, r) ==
    /\ r.tier = decided[f].tier /\ r.cookie = decided[f].at
    /\ Promised(decided[f], r.effect)
    /\ installed[s][f] = r.cookie

WireOk(s) ==
    \A i \in DOMAIN wire[s] :
        wire[s][i].kind = "add" =>
            LET m == wire[s][i]
            IN  /\ m.rule \in Rule
                /\ IsLatest(s, m.flow, m.rule) \/ Overtaken(wire[s], m.flow, m.rule, i)

RulesOk(s) ==
    \A f \in Flows :
        \/ rules[s][f] = NoRule
        \/ IsLatest(s, f, rules[s][f])
        \/ Overtaken(wire[s], f, rules[s][f], 0)

\* A switch without a session that is trusted was never connected, or came up new.
Apart == \A s \in Switches \ online :
            wire[s] = <<>> /\ (s \in Trusted => \A f \in Flows : rules[s][f] = NoRule)

\* The shared table entry of Tier 3 holds a target somebody named, if anybody did.
TableIsNamed == IF named = {} THEN scrubber = NoTarget ELSE scrubber \in named

FastPathInv == FTypeOK /\ Apart /\ TableIsNamed /\ \A s \in Trusted : WireOk(s) /\ RulesOk(s)

USE FastPathAssumption DEF FastPathAssumption

-----------------------------------------------------------------------------
LEMMA AppendOvertakes ==
    ASSUME NEW w \in Seq(Message), NEW m \in Message, NEW f, NEW r
    PROVE  /\ \A i \in Nat : Overtaken(w, f, r, i) => Overtaken(Append(w, m), f, r, i)
           /\ \A i \in 0..Len(w) : Hits(m, f, r) => Overtaken(Append(w, m), f, r, i)
<1>1. /\ Append(w, m) \in Seq(Message) /\ Len(Append(w, m)) = Len(w) + 1
      /\ DOMAIN Append(w, m) = 1..Len(w)+1 /\ DOMAIN w = 1..Len(w) /\ Len(w) \in Nat
      /\ \A i \in 1..Len(w) : Append(w, m)[i] = w[i]
      /\ Append(w, m)[Len(w) + 1] = m
  OBVIOUS
<1>. QED  BY <1>1 DEF Overtaken

LEMMA TailOvertakes ==
    ASSUME NEW w \in Seq(Message), w # <<>>, NEW f, NEW r
    PROVE  /\ \A i \in Nat \ {0} : Overtaken(w, f, r, i) => Overtaken(Tail(w), f, r, i - 1)
           /\ Overtaken(w, f, r, 0) /\ ~Hits(Head(w), f, r) => Overtaken(Tail(w), f, r, 0)
<1>1. /\ DOMAIN Tail(w) = 1..Len(w)-1 /\ DOMAIN w = 1..Len(w) /\ Len(w) \in Nat
      /\ \A i \in 1..Len(w)-1 : Tail(w)[i] = w[i + 1]
      /\ Head(w) = w[1]
  OBVIOUS
<1>2. ASSUME NEW i \in Nat, NEW j \in DOMAIN w, j > i, j > 1, Hits(w[j], f, r)
      PROVE  \A k \in Nat : k < j - 1 => Overtaken(Tail(w), f, r, k)
  <2>1. j - 1 \in DOMAIN Tail(w) /\ Tail(w)[j - 1] = w[j]
    BY <1>1, <1>2
  <2>. QED  BY <1>2, <2>1 DEF Overtaken
<1>3. ASSUME NEW i \in Nat \ {0}, Overtaken(w, f, r, i)
      PROVE  Overtaken(Tail(w), f, r, i - 1)
  <2>1. PICK j \in DOMAIN w : j > i /\ Hits(w[j], f, r)
    BY <1>3 DEF Overtaken
  <2>2. j \in Nat /\ j > 1 /\ i - 1 \in Nat /\ i - 1 < j - 1
    BY <1>1, <2>1
  <2>. QED  BY <1>2, <2>1, <2>2
<1>4. ASSUME Overtaken(w, f, r, 0), ~Hits(Head(w), f, r)
      PROVE  Overtaken(Tail(w), f, r, 0)
  <2>1. PICK j \in DOMAIN w : j > 0 /\ Hits(w[j], f, r)
    BY <1>4 DEF Overtaken
  <2>2. j \in Nat /\ j > 1 /\ 0 < j - 1
    BY <1>1, <1>4, <2>1
  <2>. QED  BY <1>2, <2>1, <2>2
<1>. QED  BY <1>3, <1>4

LEMMA NoRuleIsNone == NoRule \notin Rule /\ NoRule.cookie = 0
BY DEF NoRule, Rule

\* What apply_tier installs is a rule.
LEMMA RuleIsRule ==
    ASSUME FTypeOK, NEW d \in Decisions, d.tier # 0
    PROVE  /\ RuleFor(d) \in Rule /\ RuleFor(d).cookie = now
           /\ AddMsg(d.flow, RuleFor(d)) \in Message
           /\ d.flow \in Flows
<1>1. d \in Decision
  OBVIOUS
<1>2. d.flow \in Flows /\ d.tier \in 1..4 /\ d.redirect \in Addresses \cup {NoTarget}
  BY <1>1 DEF Decision
<1>3. Effect(d.flow, d.tier, TargetOf(d)) \in Effects
  BY <1>2 DEF Effect, Redirect, Forward, Effects
<1>4. RuleFor(d) \in Rule /\ RuleFor(d).cookie = now
  BY <1>2, <1>3 DEF RuleFor, Rule, FTypeOK
<1>. QED  BY <1>2, <1>4 DEF AddMsg, Message

\* The rule for a decision does what the directive of its tier promises.
LEMMA RuleIsPromised ==
    ASSUME FTypeOK, TableIsNamed, NEW d \in Decisions, d.tier # 0, NEW e,
           e = [tier |-> d.tier, redirect |-> d.redirect, at |-> now, known |-> named]
    PROVE  e \in Decided /\ Promised(e, RuleFor(d).effect)
<1>0. e.tier = d.tier /\ e.redirect = d.redirect /\ e.known = named
  OBVIOUS
<1>1. d \in Decision
  OBVIOUS
<1>2. d.flow \in Flows /\ d.tier \in 1..4 /\ d.redirect \in Addresses \cup {NoTarget}
  BY <1>1 DEF Decision
<1>3. e \in Decided
  BY <1>2 DEF Decided, FTypeOK
<1>. DEFINE eff == RuleFor(d).effect
<1>4. eff = Effect(d.flow, d.tier, TargetOf(d))
  BY DEF RuleFor
<1>. HIDE DEF eff
<1>5. ASSUME d.tier # 3 PROVE Promised(e, eff)
  <2>1. d.tier = 1 => eff = "normal"
    BY <1>4 DEF Effect
  <2>2. d.tier = 2 => eff \in Passes
    BY <1>4 DEF Effect, Forward, Passes
  <2>3. d.tier = 4 => eff = "drop"
    BY <1>4 DEF Effect
  <2>4. d.tier \in {1, 2, 4}
    BY <1>2, <1>5
  <2>. QED  BY <1>0, <2>1, <2>2, <2>3, <2>4 DEF Promised
<1>6. ASSUME d.tier = 3, TargetOf(d) = NoTarget PROVE Promised(e, eff)
  <2>1. d.redirect = NoTarget /\ scrubber = NoTarget
    BY <1>6 DEF TargetOf
  <2>2. named = {}
    BY <2>1 DEF TableIsNamed, FTypeOK
  <2>3. eff \in Passes
    BY <1>4, <1>6 DEF Effect, Redirect, Forward, Passes
  <2>. QED  BY <1>0, <1>6, <2>1, <2>2, <2>3 DEF Promised
<1>7. ASSUME d.tier = 3, TargetOf(d) # NoTarget PROVE Promised(e, eff)
  <2>1. eff = Towards(TargetOf(d))
    BY <1>4, <1>7 DEF Effect, Redirect, Towards
  <2>2. CASE d.redirect # NoTarget
    <3>1. TargetOf(d) = d.redirect
      BY <2>2 DEF TargetOf
    <3>. QED  BY <1>0, <1>7, <2>1, <2>2, <3>1 DEF Promised
  <2>3. CASE d.redirect = NoTarget
    <3>1. TargetOf(d) = scrubber /\ scrubber \in named
      BY <1>7, <2>3 DEF TargetOf, TableIsNamed
    <3>2. eff \in {Towards(a) : a \in named} /\ named # {}
      BY <2>1, <3>1
    <3>. QED  BY <1>0, <1>7, <2>3, <3>2 DEF Promised
  <2>. QED  BY <1>7, <2>2, <2>3
<1>. QED  BY <1>3, <1>5, <1>6, <1>7 DEF eff

LEMMA ClearIsMessage ==
    ASSUME FTypeOK, NEW s \in Switches, CookiesOf(s) # {}
    PROVE  ClearMsg(CookiesOf(s)) \in Message
<1>1. CookiesOf(s) \in SUBSET (0..MaxNow)
  BY DEF CookiesOf, FTypeOK
<1>2. (CHOOSE f \in Flows : TRUE) \in Flows
  BY DEF CookiesOf
<1>. QED  BY <1>1, <1>2 DEF ClearMsg, Message

-----------------------------------------------------------------------------
LEMMA InitiallyBlank == FInit => FastPathInv
<1>. SUFFICES ASSUME FInit PROVE FastPathInv
  OBVIOUS
<1>. USE DEF FInit
<1>1. FTypeOK
  BY DEF FTypeOK
<1>2. Apart /\ \A s \in Trusted : WireOk(s) /\ RulesOk(s)
  BY DEF Apart, Trusted, WireOk, RulesOk
<1>. QED  BY <1>1, <1>2 DEF FastPathInv, TableIsNamed

LEMMA ApplyKeeps ==
    ASSUME FastPathInv, NEW d \in Decisions, ApplyTier(d)
    PROVE  FastPathInv'
<1>. USE DEF FastPathInv
<1>1. UNCHANGED <<online, rules, now, suspect, losses>>
  BY DEF ApplyTier
<1>2. scrubber' \in Addresses \cup {NoTarget}
  <2>1. d.redirect \in Addresses \cup {NoTarget}
    BY DEF Decision
  <2>. QED  BY <2>1 DEF ApplyTier, TargetOf, FTypeOK
<1>5. named' \subseteq Addresses /\ TableIsNamed'
  <2>1. d.redirect \in Addresses \cup {NoTarget}
    BY DEF Decision
  <2>2. named' = IF d.tier = 3 THEN named \cup ({d.redirect} \ {NoTarget}) ELSE named
    BY DEF ApplyTier, Remember
  <2>3. named' \subseteq Addresses
    BY <2>1, <2>2 DEF FTypeOK
  <2>4. scrubber' = IF d.tier = 3 /\ d.redirect # NoTarget THEN d.redirect ELSE scrubber
    BY DEF ApplyTier, TargetOf
  <2>. QED  BY <2>1, <2>2, <2>3, <2>4 DEF TableIsNamed
<1>3. CASE d.tier = 0
  <2>1. UNCHANGED <<installed, wire, decided>>
    BY <1>3 DEF ApplyTier, Remember
  <2>2. FTypeOK'
    BY <1>1, <1>2, <1>5, <2>1 DEF FTypeOK
  <2>3. Apart' /\ \A s \in Trusted' : WireOk(s)' /\ RulesOk(s)'
    BY <1>1, <2>1 DEF Apart, Trusted, WireOk, RulesOk, IsLatest
  <2>. QED  BY <1>5, <2>2, <2>3
<1>4. CASE d.tier # 0
  <2>. DEFINE msg == AddMsg(d.flow, RuleFor(d))
              dec == [tier |-> d.tier, redirect |-> d.redirect, at |-> now,
                      known |-> named]
  <2>1. /\ wire' = [s \in Switches |-> IF s \in online THEN Append(wire[s], msg)
                                                     ELSE wire[s]]
        /\ installed' = [s \in Switches |->
                            IF s \in online THEN [installed[s] EXCEPT ![d.flow] = now]
                                            ELSE installed[s]]
        /\ decided' = [decided EXCEPT ![d.flow] = dec]
    BY <1>4 DEF ApplyTier, Targets, Noted, Remember
  <2>2. /\ RuleFor(d) \in Rule /\ RuleFor(d).cookie = now /\ msg \in Message
        /\ d.flow \in Flows
    BY <1>4, RuleIsRule
  <2>3. msg.kind = "add" /\ msg.flow = d.flow /\ msg.rule = RuleFor(d)
    BY DEF AddMsg
  <2>7. dec \in Decided /\ Promised(dec, RuleFor(d).effect)
    BY <1>4, RuleIsPromised
  <2>8. /\ dec.tier = RuleFor(d).tier /\ dec.at = RuleFor(d).cookie
        /\ decided'[d.flow] = dec
    BY <2>1, <2>2 DEF RuleFor, FTypeOK
  <2>. HIDE DEF msg, dec
  <2>4. FTypeOK'
    <3>1. wire' \in [Switches -> Seq(Message)]
      BY <2>1, <2>2 DEF FTypeOK
    <3>2. installed' \in [Switches -> [Flows -> 0..MaxNow]]
      BY <2>1, <2>2 DEF FTypeOK
    <3>3. decided' \in [Flows -> Decided \cup {Undecided}]
      BY <2>1, <2>2, <2>7 DEF FTypeOK
    <3>. QED  BY <1>1, <1>2, <1>5, <3>1, <3>2, <3>3 DEF FTypeOK
  <2>5. Apart'
    BY <1>1, <2>1 DEF Apart, Trusted
  <2>6. ASSUME NEW s \in Trusted' PROVE WireOk(s)' /\ RulesOk(s)'
    <3>0. s \in Trusted /\ s \in Switches
      BY <1>1, <2>6 DEF Trusted
    <3>1. CASE s \notin online
      <4>1. wire'[s] = <<>> /\ \A f \in Flows : rules'[s][f] = NoRule
        BY <1>1, <2>1, <3>0, <3>1 DEF Apart
      <4>. QED  BY <4>1 DEF WireOk, RulesOk
    <3>2. CASE s \in online
      <4>. DEFINE w == wire[s]
      <4>1. /\ w \in Seq(Message) /\ wire'[s] = Append(w, msg)
            /\ DOMAIN wire'[s] = 1..Len(w)+1 /\ DOMAIN w = 1..Len(w) /\ Len(w) \in Nat
            /\ \A i \in 1..Len(w) : wire'[s][i] = w[i]
            /\ wire'[s][Len(w) + 1] = msg
        BY <2>1, <2>2, <3>0, <3>2 DEF FTypeOK
      <4>2. ASSUME NEW f \in Flows, NEW r, NEW i \in 0..Len(w),
                   IsLatest(s, f, r) \/ Overtaken(w, f, r, i)
            PROVE  IsLatest(s, f, r)' \/ Overtaken(wire'[s], f, r, i)
        <5>1. CASE f = d.flow
          <6>1. Hits(msg, f, r)
            BY <5>1, <2>3 DEF Hits
          <6>. QED  BY <6>1, <4>1, <2>2, AppendOvertakes
        <5>2. CASE f # d.flow
          <6>1. IsLatest(s, f, r) => IsLatest(s, f, r)'
            BY <5>2, <2>1, <2>2, <3>0, <3>2 DEF IsLatest, FTypeOK
          <6>2. i \in Nat /\ wire'[s] = Append(w, msg)
            BY <4>1
          <6>3. Overtaken(w, f, r, i) => Overtaken(Append(w, msg), f, r, i)
            BY <6>2, <4>1, <2>2, AppendOvertakes
          <6>. QED  BY <6>1, <6>2, <6>3, <4>2
        <5>. QED  BY <5>1, <5>2
      <4>3. \A r : r = RuleFor(d) => IsLatest(s, d.flow, r)'
        <5>1. installed'[s][d.flow] = RuleFor(d).cookie
          BY <2>1, <2>2, <3>0, <3>2 DEF FTypeOK
        <5>. QED  BY <5>1, <2>7, <2>8 DEF IsLatest
      <4>4. WireOk(s)'
        <5>. SUFFICES ASSUME NEW i \in DOMAIN wire'[s], wire'[s][i].kind = "add",
                             NEW f, f = wire'[s][i].flow,
                             NEW r, r = wire'[s][i].rule
                      PROVE  /\ r \in Rule
                             /\ IsLatest(s, f, r)' \/ Overtaken(wire'[s], f, r, i)
          BY DEF WireOk, IsLatest
        <5>1. CASE i = Len(w) + 1
          <6>1. f = d.flow /\ r = RuleFor(d) /\ r \in Rule
            BY <5>1, <4>1, <2>2, <2>3
          <6>. QED  BY <6>1, <2>2, <4>3 DEF IsLatest
        <5>2. CASE i \in 1..Len(w)
          <6>1. w[i] \in Message /\ wire'[s][i] = w[i] /\ i \in 0..Len(w)
            BY <5>2, <4>1
          <6>2. f \in Flows /\ f = w[i].flow /\ r = w[i].rule /\ w[i].kind = "add"
            BY <6>1 DEF Message
          <6>3. r \in Rule /\ (IsLatest(s, f, r) \/ Overtaken(w, f, r, i))
            BY <5>2, <6>2, <3>0, <4>1 DEF WireOk
          <6>. QED  BY <6>1, <6>2, <6>3, <4>2
        <5>. QED  BY <5>1, <5>2, <4>1
      <4>5. RulesOk(s)'
        <5>. SUFFICES ASSUME NEW f \in Flows, rules[s][f] # NoRule
                      PROVE  \/ IsLatest(s, f, rules[s][f])'
                             \/ Overtaken(wire'[s], f, rules[s][f], 0)
          BY <1>1 DEF RulesOk, IsLatest
        <5>1. IsLatest(s, f, rules[s][f]) \/ Overtaken(w, f, rules[s][f], 0)
          BY <3>0 DEF RulesOk
        <5>2. 0 \in 0..Len(w)
          BY <4>1
        <5>3. \A r : IsLatest(s, f, r) \/ Overtaken(w, f, r, 0)
                        => IsLatest(s, f, r)' \/ Overtaken(wire'[s], f, r, 0)
          BY <4>2, <5>2
        <5>. QED  BY <5>1, <5>3, <1>1 DEF IsLatest
      <4>. QED  BY <4>4, <4>5
    <3>. QED  BY <3>1, <3>2
  <2>. QED  BY <1>5, <2>4, <2>5, <2>6
<1>. QED  BY <1>3, <1>4

LEMMA ClearKeeps == FastPathInv /\ ClearAllTierRules => FastPathInv'
<1>. SUFFICES ASSUME FastPathInv, ClearAllTierRules PROVE FastPathInv'
  OBVIOUS
<1>. USE DEF FastPathInv
<1>1. /\ UNCHANGED <<scrubber, online, rules, now, named, suspect, losses>>
      /\ installed' = [s \in Switches |-> [f \in Flows |-> 0]]
      /\ decided' = [f \in Flows |-> Undecided]
      /\ wire' = [s \in Switches |->
                     IF s \in online /\ CookiesOf(s) # {}
                     THEN Append(wire[s], ClearMsg(CookiesOf(s))) ELSE wire[s]]
  BY DEF ClearAllTierRules
<1>2. FTypeOK'
  <2>1. wire' \in [Switches -> Seq(Message)]
    BY <1>1, ClearIsMessage DEF FTypeOK
  <2>2. installed' \in [Switches -> [Flows -> 0..MaxNow]]
    BY <1>1
  <2>3. decided' \in [Flows -> Decided \cup {Undecided}]
    BY <1>1
  <2>. QED  BY <1>1, <2>1, <2>2, <2>3 DEF FTypeOK
<1>3. Apart'
  BY <1>1 DEF Apart, Trusted
<1>4. ASSUME NEW s \in Trusted' PROVE WireOk(s)' /\ RulesOk(s)'
  <2>0. s \in Trusted /\ s \in Switches
    BY <1>1, <1>4 DEF Trusted
  <2>1. CASE s \notin online
    <3>1. wire'[s] = <<>> /\ \A f \in Flows : rules'[s][f] = NoRule
      BY <1>1, <2>0, <2>1 DEF Apart
    <3>. QED  BY <3>1 DEF WireOk, RulesOk
  <2>2. CASE s \in online
    <3>. DEFINE w == wire[s]
    <3>1. /\ w \in Seq(Message) /\ DOMAIN w = 1..Len(w) /\ Len(w) \in Nat
          /\ DOMAIN w \subseteq DOMAIN wire'[s]
          /\ \A i \in DOMAIN w : wire'[s][i] = w[i]
          /\ \A i \in DOMAIN wire'[s] \ DOMAIN w : wire'[s][i].kind = "clear"
      <4>1. w \in Seq(Message)
        BY <2>0 DEF FTypeOK
      <4>2. CASE CookiesOf(s) # {}
        <5>1. wire'[s] = Append(w, ClearMsg(CookiesOf(s)))
          BY <1>1, <2>0, <2>2, <4>2
        <5>2. ClearMsg(CookiesOf(s)).kind = "clear"
          BY DEF ClearMsg
        <5>. QED  BY <4>1, <5>1, <5>2
      <4>3. CASE CookiesOf(s) = {}
        BY <1>1, <2>0, <4>1, <4>3
      <4>. QED  BY <4>2, <4>3
    \* A rule on record is hit by the flow-mod of this clear.
    <3>2. ASSUME NEW f \in Flows, NEW r \in Rule, NEW i \in 0..Len(w),
                 IsLatest(s, f, r) \/ Overtaken(w, f, r, i)
          PROVE  Overtaken(wire'[s], f, r, i)
      <4>1. CASE Overtaken(w, f, r, i)
        BY <4>1, <3>1 DEF Overtaken
      <4>2. CASE IsLatest(s, f, r)
        <5>1. r.cookie \in CookiesOf(s)
          BY <4>2 DEF IsLatest, CookiesOf, Rule
        <5>2. wire'[s] = Append(w, ClearMsg(CookiesOf(s)))
          BY <1>1, <2>0, <2>2, <5>1
        <5>3. Hits(ClearMsg(CookiesOf(s)), f, r)
          BY <5>1 DEF Hits, ClearMsg
        <5>4. ClearMsg(CookiesOf(s)) \in Message
          BY <2>0, <5>1, ClearIsMessage
        <5>. QED  BY <3>1, <5>2, <5>3, <5>4, AppendOvertakes
      <4>. QED  BY <3>2, <4>1, <4>2
    <3>3. WireOk(s)'
      <4>. SUFFICES ASSUME NEW i \in DOMAIN wire'[s], wire'[s][i].kind = "add",
                           NEW f, f = wire'[s][i].flow,
                           NEW r, r = wire'[s][i].rule
                    PROVE  r \in Rule /\ Overtaken(wire'[s], f, r, i)
        BY DEF WireOk, IsLatest
      <4>1. i \in DOMAIN w /\ wire'[s][i] = w[i]
        BY <3>1
      <4>2. w[i] \in Message /\ i \in 0..Len(w)
        BY <3>1, <4>1
      <4>3. f \in Flows /\ f = w[i].flow /\ r = w[i].rule /\ w[i].kind = "add"
        BY <4>1, <4>2 DEF Message
      <4>4. r \in Rule /\ (IsLatest(s, f, r) \/ Overtaken(w, f, r, i))
        BY <2>0, <4>1, <4>3 DEF WireOk
      <4>. QED  BY <3>2, <4>2, <4>3, <4>4
    <3>4. RulesOk(s)'
      <4>. SUFFICES ASSUME NEW f \in Flows, NEW r, r = rules[s][f], r # NoRule
                    PROVE  Overtaken(wire'[s], f, r, 0)
        BY <1>1 DEF RulesOk
      <4>1. r \in Rule /\ (IsLatest(s, f, r) \/ Overtaken(w, f, r, 0))
        <5>1. rules[s] \in [Flows -> Rule \cup {NoRule}]
          BY <2>0 DEF FTypeOK
        <5>2. r \in Rule
          BY <5>1
        <5>3. RulesOk(s)
          BY <2>0
        <5>. QED  BY <5>2, <5>3 DEF RulesOk
      <4>2. 0 \in 0..Len(w)
        BY <3>1
      <4>. QED  BY <3>2, <4>1, <4>2
    <3>. QED  BY <3>3, <3>4
  <2>. QED  BY <2>1, <2>2
<1>. QED  BY <1>1, <1>2, <1>3, <1>4 DEF TableIsNamed

LEMMA DeliverKeeps ==
    ASSUME FastPathInv, NEW s \in Switches, Deliver(s)
    PROVE  FastPathInv'
<1>. USE DEF FastPathInv
<1>. DEFINE w == wire[s]
            m == Head(w)
            New(f) == IF m.kind = "add" THEN (IF f = m.flow THEN m.rule ELSE rules[s][f])
                      ELSE IF rules[s][f].cookie \in m.cookies THEN NoRule
                      ELSE rules[s][f]
<1>1. /\ w \in Seq(Message) /\ w # <<>> /\ m \in Message
      /\ DOMAIN w = 1..Len(w) /\ Len(w) \in Nat /\ m = w[1] /\ 1 \in DOMAIN w
      /\ Tail(w) \in Seq(Message) /\ DOMAIN Tail(w) = 1..Len(w)-1
      /\ \A i \in 1..Len(w)-1 : Tail(w)[i] = w[i + 1]
  BY DEF Deliver, FTypeOK, history
<1>2. /\ UNCHANGED <<scrubber, online, installed, now, decided, named, suspect, losses>>
      /\ wire' = [wire EXCEPT ![s] = Tail(w)]
  BY DEF Deliver, FTypeOK, history
<1>3. /\ \A f \in Flows : rules'[s][f] = New(f)
      /\ rules'[s] \in [Flows -> Rule \cup {NoRule}]
      /\ rules' = [rules EXCEPT ![s] = rules'[s]]
  <2>1. CASE m.kind = "add"
    <3>1. rules' = [rules EXCEPT ![s] = [@ EXCEPT ![m.flow] = m.rule]]
      BY <2>1 DEF Deliver
    <3>2. m.flow \in Flows /\ m.rule \in Rule \cup {NoRule}
      BY <1>1 DEF Message
    <3>. QED  BY <2>1, <3>1, <3>2 DEF FTypeOK
  <2>2. CASE m.kind # "add"
    <3>1. rules' = [rules EXCEPT ![s] =
             [f \in Flows |-> IF @[f].cookie \in m.cookies THEN NoRule ELSE @[f]]]
      BY <2>2 DEF Deliver
    <3>. QED  BY <2>2, <3>1 DEF FTypeOK
  <2>. QED  BY <2>1, <2>2
<1>4. FTypeOK'
  <2>1. wire' \in [Switches -> Seq(Message)]
    BY <1>1, <1>2 DEF FTypeOK
  <2>2. rules' \in [Switches -> [Flows -> Rule \cup {NoRule}]]
    BY <1>3 DEF FTypeOK
  <2>. QED  BY <1>2, <2>1, <2>2 DEF FTypeOK
<1>5. s \in online
  BY <1>1 DEF Apart
<1>6. Apart'
  BY <1>2, <1>3, <1>5 DEF Apart, Trusted, FTypeOK
<1>7. ASSUME NEW t \in Trusted', t # s PROVE WireOk(t)' /\ RulesOk(t)'
  <2>1. t \in Trusted /\ t \in Switches /\ wire'[t] = wire[t] /\ rules'[t] = rules[t]
    BY <1>2, <1>3, <1>7 DEF Trusted, FTypeOK
  <2>. QED  BY <1>2, <2>1 DEF WireOk, RulesOk, IsLatest
<1>8. ASSUME s \in Trusted' PROVE WireOk(s)' /\ RulesOk(s)'
  <2>0. s \in Trusted /\ wire'[s] = Tail(w)
    BY <1>2, <1>8 DEF Trusted, FTypeOK
  <2>1. WireOk(s)'
    <3>. SUFFICES ASSUME NEW i \in DOMAIN Tail(w), Tail(w)[i].kind = "add",
                         NEW f, f = Tail(w)[i].flow, NEW r, r = Tail(w)[i].rule
                  PROVE  /\ r \in Rule
                         /\ IsLatest(s, f, r) \/ Overtaken(Tail(w), f, r, i)
      BY <1>2, <2>0 DEF WireOk, IsLatest
    <3>1. /\ i \in Nat /\ i + 1 \in DOMAIN w /\ Tail(w)[i] = w[i + 1]
          /\ i + 1 \in Nat \ {0} /\ (i + 1) - 1 = i
      BY <1>1
    <3>2. r \in Rule /\ (IsLatest(s, f, r) \/ Overtaken(w, f, r, i + 1))
      BY <2>0, <3>1 DEF WireOk
    <3>3. Overtaken(w, f, r, i + 1) => Overtaken(Tail(w), f, r, i)
      <4>1. Overtaken(w, f, r, i + 1) => Overtaken(Tail(w), f, r, (i + 1) - 1)
        BY <1>1, <3>1, TailOvertakes
      <4>. QED  BY <3>1, <4>1
    <3>. QED  BY <3>2, <3>3
  <2>2. RulesOk(s)'
    <3>. SUFFICES ASSUME NEW f \in Flows, NEW r, r = New(f), r # NoRule
                  PROVE  IsLatest(s, f, r) \/ Overtaken(Tail(w), f, r, 0)
      BY <1>2, <1>3, <2>0 DEF RulesOk, IsLatest
    <3>1. CASE m.kind = "add" /\ f = m.flow
      <4>1. r \in Rule /\ (IsLatest(s, f, r) \/ Overtaken(w, f, r, 1))
        BY <1>1, <2>0, <3>1 DEF WireOk
      <4>2. Overtaken(w, f, r, 1) => Overtaken(Tail(w), f, r, 1 - 1)
        BY <1>1, TailOvertakes
      <4>. QED  BY <4>1, <4>2
    <3>2. CASE ~(m.kind = "add" /\ f = m.flow)
      <4>1. r = rules[s][f] /\ ~Hits(m, f, r)
        BY <3>2 DEF Hits
      <4>2. IsLatest(s, f, r) \/ Overtaken(w, f, r, 0)
        BY <2>0, <4>1 DEF RulesOk
      <4>. QED  BY <1>1, <4>1, <4>2, TailOvertakes
    <3>. QED  BY <3>1, <3>2
  <2>. QED  BY <2>1, <2>2
<1>9. TableIsNamed'
  BY <1>2 DEF TableIsNamed
<1>. QED  BY <1>4, <1>6, <1>7, <1>8, <1>9

\* Whatever else happens to a switch, its connection or the clock.
LEMMA NetworkKeeps ==
    ASSUME FastPathInv, Network
    PROVE  FastPathInv'
<1>. USE DEF FastPathInv
<1>1. ASSUME NEW s \in Switches, Join(s) PROVE FastPathInv'
  <2>1. FTypeOK'
    BY <1>1 DEF Join, FTypeOK, history
  <2>2. Apart' /\ \A t \in Trusted' : WireOk(t)' /\ RulesOk(t)'
    BY <1>1 DEF Join, history, Apart, Trusted, WireOk, RulesOk, IsLatest
  <2>9. TableIsNamed'
    BY <1>1 DEF Join, history, TableIsNamed
  <2>. QED  BY <2>9, <2>1, <2>2
<1>2. ASSUME NEW s \in Switches, NEW f \in Flows, Expire(s, f) PROVE FastPathInv'
  <2>1. FTypeOK'
    BY <1>2 DEF Expire, FTypeOK, history
  <2>2. \A t \in Switches, g \in Flows : rules'[t][g] \in {NoRule, rules[t][g]}
    BY <1>2 DEF Expire, FTypeOK, history
  <2>3. UNCHANGED <<online, installed, wire, decided, suspect>>
    BY <1>2 DEF Expire, history
  <2>4. Apart'
    BY <2>2, <2>3 DEF Apart, Trusted
  <2>5. \A t \in Trusted' : WireOk(t)'
    BY <2>3 DEF Trusted, WireOk, IsLatest
  <2>6. \A t \in Trusted' : RulesOk(t)'
    <3>. SUFFICES ASSUME NEW t \in Trusted, NEW g \in Flows, NEW r, r = rules'[t][g]
                  PROVE  r = NoRule \/ IsLatest(t, g, r) \/ Overtaken(wire[t], g, r, 0)
      BY <2>3 DEF Trusted, RulesOk, IsLatest
    <3>1. r = NoRule \/ r = rules[t][g]
      BY <2>2 DEF Trusted
    <3>. QED  BY <3>1 DEF RulesOk
  <2>9. TableIsNamed'
    BY <1>2 DEF Expire, history, TableIsNamed
  <2>. QED  BY <2>9, <2>1, <2>4, <2>5, <2>6
<1>3. ASSUME NEW s \in Switches, Lose(s) PROVE FastPathInv'
  <2>1. FTypeOK'
    BY <1>3 DEF Lose, FTypeOK, history
  <2>2. Apart'
    BY <1>3 DEF Lose, Apart, Trusted, FTypeOK
  <2>3. \A t \in Trusted' : t \in Trusted /\ t # s /\ wire'[t] = wire[t]
    BY <1>3 DEF Lose, Trusted, FTypeOK
  <2>4. UNCHANGED <<installed, rules, decided>>
    BY <1>3 DEF Lose, history
  <2>9. TableIsNamed'
    BY <1>3 DEF Lose, history, TableIsNamed
  <2>. QED  BY <2>9, <2>1, <2>2, <2>3, <2>4 DEF WireOk, RulesOk, IsLatest
<1>4. ASSUME NEW s \in Switches, Reboot(s) PROVE FastPathInv'
  <2>1. FTypeOK'
    BY <1>4 DEF Reboot, FTypeOK, history
  <2>2. Apart'
    BY <1>4 DEF Reboot, Apart, Trusted, FTypeOK
  <2>3. UNCHANGED <<installed, wire, decided>> /\ wire[s] = <<>>
    BY <1>4 DEF Reboot, Apart, history
  <2>4. \A f \in Flows : rules'[s][f] = NoRule
    BY <1>4 DEF Reboot, FTypeOK
  <2>5. \A t \in Trusted' : t = s \/ (t \in Trusted /\ rules'[t] = rules[t])
    BY <1>4 DEF Reboot, Trusted, FTypeOK
  <2>6. WireOk(s)' /\ RulesOk(s)'
    BY <2>3, <2>4 DEF WireOk, RulesOk
  <2>7. \A t \in Trusted' : t # s => WireOk(t)' /\ RulesOk(t)'
    BY <2>3, <2>5 DEF WireOk, RulesOk, IsLatest
  <2>9. TableIsNamed'
    BY <1>4 DEF Reboot, history, TableIsNamed
  <2>. QED  BY <2>9, <2>1, <2>2, <2>6, <2>7
<1>5. CASE Restart
  <2>1. FTypeOK'
    BY <1>5 DEF Restart, FTypeOK
  <2>2. Trusted' = {} /\ \A s \in Switches : wire'[s] = <<>>
    BY <1>5 DEF Restart, Trusted
  <2>9. TableIsNamed'
    BY <1>5 DEF Restart, history, TableIsNamed
  <2>. QED  BY <2>9, <2>1, <2>2 DEF Apart
<1>6. CASE Tick
  <2>1. FTypeOK'
    BY <1>6 DEF Tick, history, FTypeOK
  <2>2. Apart' /\ \A t \in Trusted' : WireOk(t)' /\ RulesOk(t)'
    BY <1>6 DEF Tick, history, Apart, Trusted, WireOk, RulesOk, IsLatest
  <2>9. TableIsNamed'
    BY <1>6 DEF Tick, history, TableIsNamed
  <2>. QED  BY <2>9, <2>1, <2>2
<1>. QED  BY <1>1, <1>2, <1>3, <1>4, <1>5, <1>6, DeliverKeeps DEF Network

-----------------------------------------------------------------------------
\* Every rule a trusted switch holds or is about to get is current, or something
\* behind it on the same connection replaces or removes it: the inductive
\* invariant behind the theorems below.
THEOREM FastPathInvariant == FSpec => []FastPathInv
<1>1. FastPathInv /\ [FNext]_fvars => FastPathInv'
  <2>. SUFFICES ASSUME FastPathInv, [FNext]_fvars PROVE FastPathInv'
    OBVIOUS
  <2>1. CASE UNCHANGED fvars
    BY <2>1 DEF fvars, history, FastPathInv, TableIsNamed, FTypeOK, Apart, Trusted, WireOk, RulesOk, IsLatest
  <2>2. CASE FNext
    BY <2>2, ApplyKeeps, ClearKeeps, NetworkKeeps DEF FNext
  <2>. QED  BY <2>1, <2>2
<1>. QED  BY InitiallyBlank, <1>1, PTL DEF FSpec

\* Variables keep their types: what apply_tier puts into a flow-mod is a rule.
THEOREM FastPathTypes == FSpec => []FTypeOK
BY FastPathInvariant, PTL DEF FastPathInv

LEMMA NothingBehind == \A s : Settled(s) => \A f, r : ~Overtaken(wire[s], f, r, 0)
BY DEF Settled, Overtaken

\* What a switch that kept its session holds for a flow is the rule of the last
\* decision above Tier 0 since the last clear, doing what its directive promises.
\* A decision of Tier 0 removes nothing: that rule stays after it.
THEOREM SwitchesFollow == FSpec => []SwitchHoldsLastRule
<1>1. FastPathInv => SwitchHoldsLastRule
  BY NothingBehind DEF FastPathInv, RulesOk, IsLatest, SwitchHoldsLastRule
<1>. QED  BY FastPathInvariant, <1>1, PTL

\* Every rule in such a switch is within reach of the next clear.
THEOREM RulesOnRecord == FSpec => []RulesAreOnRecord
<1>1. FastPathInv => RulesAreOnRecord
  BY NothingBehind DEF FastPathInv, RulesOk, IsLatest, RulesAreOnRecord
<1>. QED  BY FastPathInvariant, <1>1, PTL

-----------------------------------------------------------------------------
(* publish() on top of the fast path.                                       *)

\* Where the requests of each call are; only the current one may be under way,
\* unless a caller gave up early.
Requests ==
    /\ Current = 0 => pub = "idle" /\ fast = "none" /\ slow = "none" /\ shown.fast = "none"
    /\ \A n \in Calls : n > Current => fastReq[n] = "none" /\ slowReq[n] = "none"
    /\ fast = "ok" => fastReq[Current] = "done"
    /\ slow = "ok" => slowReq[Current] = "done"
    /\ ~late => \A n \in Calls :
           /\ fastReq[n] = "flight" => n = Current /\ fast = "wait"
           /\ slowReq[n] = "flight" => n = Current /\ slow = "wait"
    /\ pub = "idle" /\ Current > 0 =>
           shown = [tier |-> published[Current].tier, fast |-> fast, slow |-> slow]

\* What an answer means: the loop runs the tier, and the last rule asked for on
\* the flow is of that tier or has been cleared.
FastDone(d) == d.tier > 0 => decided[d.flow] = Undecided \/ decided[d.flow].tier = d.tier
Outcome ==
    ~late => /\ fast = "ok" => FastDone(published[Current])
             /\ slow = "ok" => loop = published[Current].tier

DualInv == FastPathInv /\ DTypeOK /\ Requests /\ Outcome

USE FastPathAssumption, DualPathAssumption DEF FastPathAssumption, DualPathAssumption

ReqStates == {"none", "flight", "done", "lost"}

pubvars == <<pub, published, fastReq, slowReq, fast, slow, loop, shown, late>>

-----------------------------------------------------------------------------
LEMMA DualInit == DInit => DualInv
<1>. SUFFICES ASSUME DInit PROVE DualInv
  OBVIOUS
<1>1. FastPathInv
  BY InitiallyBlank DEF DInit
<1>2. published = <<>> /\ Current = 0
  BY DEF DInit, Current
<1>3. DTypeOK
  <2>1. published \in Seq(Decisions) /\ Len(published) <= MaxPublished
    BY <1>2
  <2>2. /\ fastReq \in [Calls -> ReqStates] /\ slowReq \in [Calls -> ReqStates]
        /\ shown \in [tier : 0..4, fast : Answers, slow : Answers]
    BY DEF DInit, ReqStates, Answers
  <2>3. late \in BOOLEAN
    BY DEF DInit
  <2>. QED  BY <1>1, <2>1, <2>2, <2>3 DEF DInit, DTypeOK, FastPathInv, Answers, ReqStates
<1>4. Requests /\ Outcome
  BY <1>2 DEF DInit, Requests, Outcome
<1>. QED  BY <1>1, <1>3, <1>4 DEF DualInv

\* Calls count from 1, and what was published is a decision.
LEMMA PublishedIs ==
    ASSUME DTypeOK
    PROVE  /\ Current \in 0..MaxPublished
           /\ \A n \in Calls : n <= Current =>
                  /\ published[n] \in Decisions
                  /\ published[n].tier \in 0..4 /\ published[n].flow \in Flows
<1>1. published \in Seq(Decisions) /\ Len(published) <= MaxPublished
  BY DEF DTypeOK
<1>2. ASSUME NEW n \in Calls, n <= Current PROVE published[n] \in Decisions
  BY <1>1, <1>2 DEF Calls, Current
<1>3. ASSUME NEW d \in Decisions PROVE d.tier \in 0..4 /\ d.flow \in Flows
  <2>1. d \in Decision
    OBVIOUS
  <2>. QED  BY <2>1 DEF Decision
<1>. QED  BY <1>1, <1>2, <1>3 DEF Current

\* A step that leaves the fast path alone keeps its invariant.
LEMMA FastPathStays ==
    ASSUME FastPathInv, UNCHANGED fvars
    PROVE  FastPathInv'
BY DEF fvars, history, FastPathInv, TableIsNamed, FTypeOK, Apart, Trusted, WireOk, RulesOk, IsLatest

LEMMA PublishKeeps ==
    ASSUME DualInv, NEW d \in Decisions, Publish(d)
    PROVE  DualInv'
<1>. USE DEF DualInv
<1>1. FastPathInv'
  BY FastPathStays DEF Publish
<1>2. /\ published' = Append(published, d) /\ published' \in Seq(Decisions)
      /\ Current' = Current + 1 /\ Current \in Nat /\ Current + 1 \in Calls
      /\ Len(published') <= MaxPublished
  BY DEF Publish, DTypeOK, Current, Calls
<1>3. /\ pub = "idle" /\ pub' = "out" /\ fast' = "wait" /\ slow' = "wait"
      /\ fastReq' = [fastReq EXCEPT ![Current + 1] = "flight"]
      /\ slowReq' = [slowReq EXCEPT ![Current + 1] = "flight"]
      /\ UNCHANGED <<loop, shown, late>>
  BY DEF Publish
<1>4. DTypeOK'
  BY <1>1, <1>2, <1>3 DEF DTypeOK, FastPathInv, Answers
<1>5. Requests'
  <2>1. \A n \in Calls : n > Current' => fastReq'[n] = "none" /\ slowReq'[n] = "none"
    <3>1. fastReq \in [Calls -> ReqStates] /\ slowReq \in [Calls -> ReqStates]
      BY DEF DTypeOK, ReqStates
    <3>2. ASSUME NEW n \in Calls, n > Current + 1
          PROVE  n # Current + 1 /\ fastReq[n] = "none" /\ slowReq[n] = "none"
      BY <1>2, <3>2 DEF Requests, Calls
    <3>. QED  BY <1>2, <1>3, <3>1, <3>2
  <2>2. ~late => \A n \in Calls :
            /\ fastReq'[n] = "flight" => n = Current'
            /\ slowReq'[n] = "flight" => n = Current'
    BY <1>2, <1>3 DEF Requests, DTypeOK
  <2>3. Current' # 0
    BY <1>2
  <2>. QED  BY <1>3, <2>1, <2>2, <2>3 DEF Requests
<1>6. Outcome'
  BY <1>3 DEF Outcome
<1>. QED  BY <1>1, <1>4, <1>5, <1>6

\* apply_tier asks for a rule of the decision's tier.
LEMMA ApplyAsks ==
    ASSUME FastPathInv, NEW d \in Decisions, ApplyTier(d)
    PROVE  FastDone(d)'
<1>. SUFFICES ASSUME d.tier > 0
              PROVE  decided'[d.flow].tier = d.tier
  BY DEF FastDone
<1>0. d \in Decision
  OBVIOUS
<1>1. d.flow \in Flows /\ d.tier # 0
  BY <1>0 DEF Decision
<1>2. decided' = [decided EXCEPT ![d.flow] =
                     [tier |-> d.tier, redirect |-> d.redirect, at |-> now,
                      known |-> named]]
  BY <1>1 DEF ApplyTier, Remember
<1>. QED  BY <1>1, <1>2 DEF FastPathInv, FTypeOK

LEMMA RyuKeeps ==
    ASSUME DualInv, NEW n \in Calls, RyuHandles(n)
    PROVE  DualInv'
<1>. USE DEF DualInv
<1>1. fastReq[n] = "flight" /\ n <= Current /\ n \in Nat /\ Current \in Nat
  BY PublishedIs DEF RyuHandles, Requests, Calls
<1>2. published[n] \in Decisions /\ ApplyTier(published[n])
  BY <1>1, PublishedIs DEF RyuHandles
<1>3. FastPathInv'
  BY <1>2, ApplyKeeps
<1>4. /\ fastReq' = [fastReq EXCEPT ![n] = "done"]
      /\ (n = Current /\ fast = "wait" /\ fast' = "ok") \/ fast' = fast
      /\ UNCHANGED <<pub, published, slowReq, slow, loop, shown, late>>
      /\ Current' = Current
  BY DEF RyuHandles, Current
<1>5. DTypeOK'
  BY <1>3, <1>4 DEF DTypeOK, FastPathInv, Answers
<1>6. Requests'
  <2>1. \A m \in Calls : fastReq'[m] = IF m = n THEN "done" ELSE fastReq[m]
    BY <1>4 DEF DTypeOK
  <2>2. n = Current => fastReq'[Current] = "done"
    BY <2>1
  <2>3. fast' = "ok" => fastReq'[Current] = "done"
    <3>1. CASE fast' = fast /\ n # Current
      BY <1>4, <3>1 DEF Requests, DTypeOK
    <3>. QED  BY <1>4, <2>2, <3>1
  <2>4. Current # 0
    BY <1>1 DEF Calls
  <2>5. ~late => \A m \in Calls : fastReq'[m] = "flight" => m = Current /\ fast' = "wait"
    BY <1>1, <1>4, <2>1 DEF Requests
  <2>6. pub = "idle" => fast' = fast
    BY <1>4 DEF DTypeOK
  <2>7. \A m \in Calls : m > Current => fastReq'[m] = "none" /\ slowReq'[m] = "none"
    BY <1>1, <1>4, <2>1 DEF Requests, Calls
  <2>8. slow' = "ok" => slowReq'[Current] = "done"
    BY <1>4 DEF Requests
  <2>9. ~late => \A m \in Calls : slowReq'[m] = "flight" => m = Current /\ slow' = "wait"
    BY <1>4 DEF Requests
  <2>10. pub = "idle" /\ Current > 0 =>
            shown' = [tier |-> published[Current].tier, fast |-> fast', slow |-> slow']
    BY <1>4, <2>6 DEF Requests
  <2>. QED  BY <1>4, <2>3, <2>4, <2>5, <2>7, <2>8, <2>9, <2>10 DEF Requests
<1>7. Outcome'
  <2>. SUFFICES ASSUME ~late
                PROVE  /\ fast' = "ok" => FastDone(published[Current])'
                       /\ slow = "ok" => loop = published[Current].tier
    BY <1>4 DEF Outcome
  <2>1. n = Current
    BY <1>1 DEF Requests
  <2>2. \A d : d = published[n] => FastDone(d)'
    BY <1>2, ApplyAsks
  <2>3. FastDone(published[Current])'
    BY <1>4, <2>1, <2>2
  <2>. QED  BY <2>3 DEF Outcome
<1>. QED  BY <1>3, <1>5, <1>6, <1>7

LEMMA ClampKeeps ==
    ASSUME DualInv, NEW n \in Calls, ClampHandles(n)
    PROVE  DualInv'
<1>. USE DEF DualInv
<1>1. slowReq[n] = "flight" /\ n <= Current /\ n \in Nat /\ Current \in Nat
  BY PublishedIs DEF ClampHandles, Requests, Calls
<1>2. published[n].tier \in 0..4
  BY <1>1, PublishedIs
<1>3. FastPathInv'
  BY FastPathStays DEF ClampHandles
<1>4. /\ slowReq' = [slowReq EXCEPT ![n] = "done"] /\ loop' = published[n].tier
      /\ (n = Current /\ slow = "wait" /\ slow' = "ok") \/ slow' = slow
      /\ UNCHANGED <<fvars, pub, published, fastReq, fast, shown, late>>
      /\ Current' = Current
  BY DEF ClampHandles, Current
<1>5. DTypeOK'
  BY <1>2, <1>3, <1>4 DEF DTypeOK, FastPathInv, Answers
<1>6. Requests'
  <2>1. \A m \in Calls : slowReq'[m] = IF m = n THEN "done" ELSE slowReq[m]
    BY <1>4 DEF DTypeOK
  <2>2. n = Current => slowReq'[Current] = "done"
    BY <2>1
  <2>3. slow' = "ok" => slowReq'[Current] = "done"
    <3>1. CASE slow' = slow /\ n # Current
      BY <1>4, <3>1 DEF Requests, DTypeOK
    <3>. QED  BY <1>4, <2>2, <3>1
  <2>4. Current # 0
    BY <1>1 DEF Calls
  <2>5. ~late => \A m \in Calls : slowReq'[m] = "flight" => m = Current /\ slow' = "wait"
    BY <1>1, <1>4, <2>1 DEF Requests
  <2>6. pub = "idle" => slow' = slow
    BY <1>4 DEF DTypeOK
  <2>7. \A m \in Calls : m > Current => fastReq'[m] = "none" /\ slowReq'[m] = "none"
    BY <1>1, <1>4, <2>1 DEF Requests, Calls
  <2>8. fast' = "ok" => fastReq'[Current] = "done"
    BY <1>4 DEF Requests
  <2>9. ~late => \A m \in Calls : fastReq'[m] = "flight" => m = Current /\ fast' = "wait"
    BY <1>4 DEF Requests
  <2>10. pub = "idle" /\ Current > 0 =>
            shown' = [tier |-> published[Current].tier, fast |-> fast', slow |-> slow']
    BY <1>4, <2>6 DEF Requests
  <2>. QED  BY <1>4, <2>3, <2>4, <2>5, <2>7, <2>8, <2>9, <2>10 DEF Requests
<1>7. Outcome'
  <2>. SUFFICES ASSUME ~late
                PROVE  /\ fast = "ok" => FastDone(published[Current])'
                       /\ slow' = "ok" => loop' = published[Current].tier
    BY <1>4 DEF Outcome
  <2>1. n = Current
    BY <1>1 DEF Requests
  <2>2. fast = "ok" => FastDone(published[Current])'
    BY <1>4 DEF Outcome, FastDone, fvars, history
  <2>. QED  BY <1>4, <2>1, <2>2
<1>. QED  BY <1>3, <1>5, <1>6, <1>7

LEMMA FailsKeep ==
    ASSUME DualInv, FastFails \/ SlowFails
    PROVE  DualInv'
<1>. USE DEF DualInv
<1>1. /\ UNCHANGED <<fvars, pub, published, loop, shown>> /\ Current' = Current
      /\ pub = "out" /\ Current > 0 /\ Current \in Nat
  BY PublishedIs DEF FastFails, SlowFails, Current, DTypeOK, Requests
<1>2. FastPathInv'
  BY <1>1, FastPathStays
<1>3. CASE FastFails
  <2>1. /\ fast = "wait" /\ fast' = "error" /\ UNCHANGED <<slowReq, slow>>
        /\ \/ fastReq' = [fastReq EXCEPT ![Current] = "lost"] /\ late' = late
           \/ fastReq' = fastReq /\ late' = (late \/ fastReq[Current] = "flight")
    BY <1>3 DEF FastFails
  <2>2. DTypeOK'
    <3>1. fastReq' \in [Calls -> ReqStates] /\ slowReq' \in [Calls -> ReqStates]
      BY <2>1 DEF DTypeOK, ReqStates
    <3>2. late' \in BOOLEAN
      BY <2>1 DEF DTypeOK
    <3>3. {fast', slow'} \subseteq Answers /\ (pub' = "idle" => "wait" \notin {fast', slow'})
      BY <1>1, <2>1 DEF DTypeOK, Answers
    <3>. QED  BY <1>1, <1>2, <3>1, <3>2, <3>3 DEF DTypeOK, FastPathInv, ReqStates
  <2>3. late => late'
    BY <2>1
  <2>4. \A n \in Calls : n # Current => fastReq'[n] = fastReq[n]
    BY <2>1 DEF DTypeOK
  <2>5. ~late' => \A n \in Calls : fastReq'[n] # "flight"
    BY <2>1, <2>3, <2>4 DEF Requests, DTypeOK
  <2>6. \A n \in Calls : n > Current => fastReq'[n] = "none"
    BY <1>1, <2>4 DEF Requests, Calls
  <2>7. Requests'
    BY <1>1, <2>1, <2>3, <2>5, <2>6 DEF Requests
  <2>8. Outcome'
    BY <1>1, <2>1, <2>3 DEF Outcome
  <2>. QED  BY <1>2, <2>2, <2>7, <2>8
<1>4. CASE SlowFails
  <2>1. /\ slow = "wait" /\ slow' = "error" /\ UNCHANGED <<fastReq, fast>>
        /\ \/ slowReq' = [slowReq EXCEPT ![Current] = "lost"] /\ late' = late
           \/ slowReq' = slowReq /\ late' = (late \/ slowReq[Current] = "flight")
    BY <1>4 DEF SlowFails
  <2>2. DTypeOK'
    <3>1. slowReq' \in [Calls -> ReqStates] /\ fastReq' \in [Calls -> ReqStates]
      BY <2>1 DEF DTypeOK, ReqStates
    <3>2. late' \in BOOLEAN
      BY <2>1 DEF DTypeOK
    <3>3. {fast', slow'} \subseteq Answers /\ (pub' = "idle" => "wait" \notin {fast', slow'})
      BY <1>1, <2>1 DEF DTypeOK, Answers
    <3>. QED  BY <1>1, <1>2, <3>1, <3>2, <3>3 DEF DTypeOK, FastPathInv, ReqStates
  <2>3. late => late'
    BY <2>1
  <2>4. \A n \in Calls : n # Current => slowReq'[n] = slowReq[n]
    BY <2>1 DEF DTypeOK
  <2>5. ~late' => \A n \in Calls : slowReq'[n] # "flight"
    BY <2>1, <2>3, <2>4 DEF Requests, DTypeOK
  <2>6. \A n \in Calls : n > Current => slowReq'[n] = "none"
    BY <1>1, <2>4 DEF Requests, Calls
  <2>7. Requests'
    BY <1>1, <2>1, <2>3, <2>5, <2>6 DEF Requests
  <2>8. Outcome'
    BY <1>1, <2>1, <2>3 DEF Outcome, FastDone, fvars, history
  <2>. QED  BY <1>2, <2>2, <2>7, <2>8
<1>. QED  BY <1>3, <1>4

LEMMA ShowKeeps ==
    ASSUME DualInv, Show
    PROVE  DualInv'
<1>. USE DEF DualInv
<1>1. /\ pub = "out" /\ pub' = "idle" /\ fast # "wait" /\ slow # "wait"
      /\ shown' = [tier |-> published[Current].tier, fast |-> fast, slow |-> slow]
      /\ UNCHANGED <<fvars, published, fastReq, slowReq, fast, slow, loop, late>>
      /\ Current' = Current
  BY DEF Show, Answered, Current
<1>2. Current \in Nat /\ Current > 0 /\ Current \in Calls
  BY <1>1, PublishedIs DEF Requests, Calls
<1>3. FastPathInv'
  BY <1>1, FastPathStays
<1>4. DTypeOK'
  BY <1>1, <1>2, <1>3, PublishedIs DEF DTypeOK, FastPathInv
<1>5. Requests'
  BY <1>1, <1>2 DEF Requests
<1>6. Outcome'
  BY <1>1 DEF Outcome, FastDone, fvars, history
<1>. QED  BY <1>3, <1>4, <1>5, <1>6

\* A clear takes the rule of the current call with the others.
LEMMA WorldKeeps ==
    ASSUME DualInv, Clear \/ World
    PROVE  DualInv'
<1>. USE DEF DualInv
<1>1. UNCHANGED pubvars
  BY DEF Clear, World, pubvars
<1>2. FastPathInv'
  BY ClearKeeps, NetworkKeeps DEF Clear, World
<1>3. DTypeOK'
  BY <1>1, <1>2 DEF pubvars, DTypeOK, FastPathInv
<1>4. Requests'
  BY <1>1 DEF pubvars, Requests, Current
<1>5. decided' = decided \/ decided' = [f \in Flows |-> Undecided]
  BY DEF Clear, ClearAllTierRules, World, Network, Join, Deliver, Lose, Reboot,
         Expire, Restart, Tick, history
<1>6. Outcome'
  <2>. SUFFICES ASSUME ~late
                PROVE  /\ fast = "ok" => FastDone(published[Current])'
                       /\ slow = "ok" => loop = published[Current].tier
    BY <1>1 DEF Outcome, pubvars, Current
  <2>1. ASSUME fast = "ok" PROVE FastDone(published[Current])'
    <3>1. FastDone(published[Current])
      BY <2>1 DEF Outcome
    <3>2. Current \in Calls
      BY <2>1, PublishedIs DEF Requests, Calls
    <3>3. published[Current].flow \in Flows /\ published' = published
      BY <1>1, <3>2, PublishedIs DEF pubvars
    <3>. QED  BY <1>5, <3>1, <3>3 DEF FastDone, Current
  <2>. QED  BY <2>1 DEF Outcome
<1>. QED  BY <1>2, <1>3, <1>4, <1>6

-----------------------------------------------------------------------------
\* The fast path keeps its own invariant below publish(), and the requests and
\* answers of the calls agree with what the two paths have been given.
THEOREM DualPathInvariant == DSpec => []DualInv
<1>1. DualInv /\ [DNext]_dvars => DualInv'
  <2>. SUFFICES ASSUME DualInv, [DNext]_dvars PROVE DualInv'
    OBVIOUS
  <2>1. CASE UNCHANGED dvars
    <3>1. FastPathInv'
      BY <2>1, FastPathStays DEF dvars, DualInv
    <3>. QED  BY <2>1, <3>1 DEF dvars, fvars, history, DualInv, DTypeOK, FastPathInv, Requests,
                                Outcome, FastDone, Current
  <2>2. CASE DNext
    BY <2>2, PublishKeeps, RyuKeeps, ClampKeeps, FailsKeep, ShowKeeps, WorldKeeps
       DEF DNext
  <2>. QED  BY <2>1, <2>2
<1>. QED  BY DualInit, <1>1, PTL DEF DSpec

\* What is shown after a call that ended well on both paths is what the loop runs
\* and what the switches that kept their sessions do to the flow.
THEOREM BothPathsAgree == DSpec => []DualPathInv
<1>1. DualInv => DualPathInv
  <2>. SUFFICES ASSUME DualInv, pub = "idle", ~late, shown.fast = "ok", shown.slow = "ok"
                PROVE  /\ loop = shown.tier
                       /\ shown.tier > 0 =>
                            \A s \in Trusted : Settled(s) =>
                                LET r == rules[s][published[Current].flow]
                                IN r = NoRule \/ r.tier = shown.tier
    BY DEF DualPathInv, BothPathsEndAtShownTier, DualInv
  <2>1. Current \in Calls
    BY PublishedIs DEF DualInv, Requests, Calls
  <2>2. shown = [tier |-> published[Current].tier, fast |-> fast, slow |-> slow]
    BY <2>1 DEF DualInv, Requests, Calls
  <2>3. loop = shown.tier /\ FastDone(published[Current])
    BY <2>2 DEF DualInv, Outcome
  <2>4. published[Current].flow \in Flows
    BY <2>1, PublishedIs DEF DualInv
  <2>5. SwitchHoldsLastRule
    BY NothingBehind DEF DualInv, FastPathInv, RulesOk, IsLatest, SwitchHoldsLastRule
  <2>6. ASSUME NEW s \in Trusted, Settled(s), NEW r,
               r = rules[s][published[Current].flow], r # NoRule, shown.tier > 0
        PROVE  r.tier = shown.tier
    <3>1. r \in Rule
      BY <2>4, <2>6 DEF DualInv, FastPathInv, FTypeOK, Trusted
    <3>2. r.tier > 0 /\ r.tier = decided[published[Current].flow].tier
      BY <2>4, <2>5, <2>6, <3>1 DEF Rule, SwitchHoldsLastRule
    <3>. QED  BY <2>2, <2>3, <2>6, <3>2 DEF FastDone, Undecided
  <2>. QED  BY <2>3, <2>6
<1>. QED  BY DualPathInvariant, <1>1, PTL

=============================================================================
