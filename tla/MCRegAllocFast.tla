--------------------------- MODULE MCRegAllocFast ---------------------------
\* Functions of an entry block, a loop of one block and an exit, on a machine with
\* two wide registers, one of them made of two bytes, and a flags register that is
\* not allocatable: three wide virtual registers and two bytes compete for them.
EXTENDS RegAllocFast, TLC

CONSTANTS w1, w2, w3, b1, b2, AX, AL, AH, BX, FLAGS, al, ah, bx, fl

Wide == {w1, w2, w3}
Byte == {b1, b2}

SmallUnitsOf == (AX :> {al, ah}) @@ (AL :> {al}) @@ (AH :> {ah}) @@ (BX :> {bx})
                @@ (FLAGS :> {fl})
SmallAliasSet == (AX :> <<AL, AH>>) @@ (AL :> <<AX>>) @@ (AH :> <<AX>>) @@ (BX :> <<>>)
                 @@ (FLAGS :> <<>>)
SmallOrder == [v \in VirtReg |-> IF v \in Wide THEN <<AX, BX>> ELSE <<AL, AH>>]


Plain(r, def) == [reg |-> r, def |-> def, kill |-> FALSE, early |-> FALSE,
                  imp |-> FALSE, tied |-> 0]
Def(r) == Plain(r, TRUE)
Use(r) == Plain(r, FALSE)
EarlyDef(r) == [Def(r) EXCEPT !.early = TRUE]
Tied(r) == [Use(r) EXCEPT !.tied = 1]
ImpDef(r) == [Def(r) EXCEPT !.imp = TRUE]
ImpUse(r) == [Use(r) EXCEPT !.imp = TRUE]

Ins(ops) == [kind |-> "op", ops |-> ops]
Copy(r, s) == [kind |-> "copy", ops |-> <<Def(r), Use(s)>>]
Term(ops) == [kind |-> "term", ops |-> ops]

\* Statements, as instruction selection and the two-address pass leave them.
Define(r) == <<Ins(<<Def(r)>>)>>
ThreeAddress(r, s, t) == <<Ins(<<Def(r), Use(s), Use(t), ImpDef(FLAGS)>>)>>
TwoAddress(r, s) == <<Ins(<<Def(r), Tied(r), Use(s), ImpDef(FLAGS)>>)>>
Move1(r, s) == <<Copy(r, s)>>
CallOf(r, s) ==
  <<Copy(AX, s), [kind |-> "call", ops |-> <<ImpUse(AX), ImpDef(AX)>>], Copy(r, AX)>>
CallFor(r) == <<[kind |-> "call", ops |-> <<ImpDef(AX)>>], Copy(r, AX)>>
EarlyClobbered(r, s) == <<Ins(<<EarlyDef(r), Use(s)>>)>>
Multiply(b, c) ==
  <<Copy(AL, b), Ins(<<Use(c), ImpDef(AL), ImpDef(FLAGS), ImpDef(AX), ImpUse(AL)>>)>>
TiedBesidePhys(r, b) == <<Ins(<<Def(r), Tied(r), ImpDef(AL)>>), Copy(b, AL)>>
TwoResults(r, s, t) == <<Ins(<<Def(s), Def(r), [Use(r) EXCEPT !.tied = 2], Use(t)>>)>>
\* The second argument goes to the stack, after the first was put in its register.
CallOfTwo(s, t) ==
  <<Copy(AX, s), Ins(<<Use(t)>>), [kind |-> "call", ops |-> <<ImpUse(AX), ImpDef(AX)>>]>>
\* Inline assembly that clobbers a byte while it reads s.
Asm(r, s) ==
  <<[kind |-> "asm", ops |-> <<Def(r), Use(s), [ImpDef(AL) EXCEPT !.early = TRUE]>>]>>

Entries == {
  [livein |-> <<AX, BX>>, code |-> <<Copy(w1, AX), Copy(w2, BX)>>],
  [livein |-> <<>>, code |-> Define(w1) \o Define(b1) \o Define(w2)],
  [livein |-> <<AX>>, code |-> <<Copy(w2, AX)>> \o Move1(w1, w2) \o Define(b1)]}

Statements ==
  {Define(w3), ThreeAddress(w3, w1, w2), ThreeAddress(w1, w1, w2), ThreeAddress(w3, w1, w1),
   TwoAddress(w1, w2), TwoAddress(w2, w1), Move1(w3, w1), Move1(w1, w2), Move1(w2, w3),
   CallOf(w1, w2), CallFor(w3), CallOfTwo(w1, w2),
   EarlyClobbered(w1, w2), EarlyClobbered(w3, w1), Asm(w2, w1),
   Multiply(b1, b1) \o Move1(b2, AL), Multiply(b1, b1) \o Move1(w2, AX),
   TiedBesidePhys(w1, b1), TwoResults(w1, w3, w2)}

\* A loop ends with a jump on the flags, with two of them as for an unordered comparison,
\* or with one that compares a register with zero and an unconditional one behind it.
OnFlags == Term(<<ImpUse(FLAGS)>>)
OnZero(r) == <<Term(<<Use(r)>>), Term(<<>>)>>

ReturnsIn(r) == <<Copy(AX, r), Term(<<ImpUse(AX)>>)>>

Endings == {
  [jump |-> <<OnFlags>>, exit |-> ReturnsIn(w1)],
  [jump |-> OnZero(w1), exit |-> ReturnsIn(w1)],
  [jump |-> <<OnFlags, OnFlags>>, exit |-> ThreeAddress(w3, w1, w2) \o <<Term(<<Use(w3)>>)>>],
  [jump |-> OnZero(w2), exit |-> <<Ins(<<Use(b1)>>), Term(<<Use(w2)>>)>>]}

VirtIn(code, def) ==
  UNION {{code[i].ops[k].reg : k \in {j \in DOMAIN code[i].ops : code[i].ops[j].def = def}}
           : i \in DOMAIN code} \cap VirtReg

\* Everything a statement reads was defined before it.
DefinedBefore(code, before) == VirtIn(code, FALSE) \subseteq before

ReferencesIn(f, v) ==
  UNION {UNION {{<<b, i, k>> : k \in {j \in DOMAIN f[b].code[i].ops : f[b].code[i].ops[j].reg = v}}
           : i \in DOMAIN f[b].code} : b \in DOMAIN f}

\* Fast instruction selection flags the only use of a register in its definition's
\* block, and a definition without a use.
WithKills(f) ==
  [b \in DOMAIN f |-> [f[b] EXCEPT !.code = [i \in DOMAIN @ |-> [@[i] EXCEPT !.ops =
     [k \in DOMAIN @ |-> [@[k] EXCEPT !.kill =
        LET refs == ReferencesIn(f, f[b].code[i].ops[k].reg)
            Defined(r) == f[r[1]].code[r[2]].ops[r[3]].def
        IN /\ f[b].code[i].ops[k].reg \in VirtReg
           /\ IF Defined(<<b, i, k>>) THEN Cardinality(refs) = 1
              ELSE Cardinality(refs) = 2 /\ \E r \in refs : Defined(r) /\ r[1] = b]]]]]]

\* Flags that are wrong, though on no definition or tied use: every other use kills.
WithDubiousKills(f) ==
  [b \in DOMAIN f |-> [f[b] EXCEPT !.code = [i \in DOMAIN @ |-> [@[i] EXCEPT !.ops =
     [k \in DOMAIN @ |-> [@[k] EXCEPT !.kill = LET o == f[b].code[i].ops[k] IN ~o.def /\ o.reg \in VirtReg /\ o.tied = 0]]]]]]

Loop(entry, s, t, ending) ==
  <<[livein |-> entry.livein, code |-> entry.code, succ |-> {2}],
    [livein |-> <<>>, code |-> s \o t \o ending.jump, succ |-> {2, 3}],
    [livein |-> <<>>, code |-> ending.exit, succ |-> {}]>>

SmallFunctions ==
  LET Valid == {<<e, s, t, x>> \in Entries \X Statements \X Statements \X Endings :
                  LET d0 == VirtIn(e.code, TRUE)
                      d1 == d0 \cup VirtIn(s, TRUE)
                      d2 == d1 \cup VirtIn(t, TRUE)
                  IN /\ DefinedBefore(s, d0) /\ DefinedBefore(t, d1)
                     /\ DefinedBefore(x.jump, d2)
                     /\ VirtIn(x.exit, FALSE) \ VirtIn(x.exit, TRUE) \subseteq d2}
      Made == {Loop(l[1], l[2], l[3], l[4]) : l \in Valid}
  IN {WithKills(f) : f \in Made} \cup {WithDubiousKills(f) : f \in Made}
=============================================================================
