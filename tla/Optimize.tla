------------------------------ MODULE Optimize ------------------------------
(***************************************************************************)
(* The optimizer of jni/pcap/optimize.c, bpf_optimize(): the analyses of   *)
(* the acyclic flow graph, value numbering, the peephole rules, the moving *)
(* of branches, the merging of equal blocks.                               *)
(*                                                                         *)
(* One action is opt_init(), the analyses at the head of a round of        *)
(* opt_loop(), one block of a pass, one round of intern_blocks(), and      *)
(* opt_root().  An edge is <<block, "jt">> or <<block, "jf">>.             *)
(***************************************************************************)
EXTENDS Compile

Seqs == INSTANCE SequencesExt

VARIABLE opt
    \* step: "init", "round", "blk", "j", "pullup", "intern" or "root";
    \* blocks: the blocks in the order of number_blks_r; maxval;
    \* do_stmts, done, work: the blocks the pass has still to visit;
    \* levels, dom, edom, out_use, in_edges: the analyses;
    \* vn: the value numbers, vn[v] = <<code, v0, v1>>; val, oval

optVars == opt

A_ATOM == BPF_MEMWORDS
X_ATOM == BPF_MEMWORDS + 1
Atoms == 0..X_ATOM

NOP == Ins(<<"NOP">>, 0)
LD_IMM == <<"LD", "W", "IMM">>
LDX_IMM == <<"LDX", "W", "IMM">>

Succ(e) == IF e[2] = "jt" THEN blocks[e[1]].jt ELSE blocks[e[1]].jf
Leaf(b) == blocks[b].jt = 0
SrcX(b) == b.code[3] = "X"

OptIdle ==
    [step |-> "init", blocks |-> <<>>, maxval |-> 0, do_stmts |-> FALSE, done |-> FALSE,
     work |-> <<>>, levels |-> <<>>, dom |-> <<>>, edom |-> <<>>, out_use |-> <<>>,
     in_edges |-> <<>>, vn |-> <<>>, val |-> <<>>, oval |-> <<>>]

OptInit == opt = OptIdle

\* what the optimizer never changes
Outside == UNCHANGED <<pcap, args, todo, stack, no_optimize, fcode, ll, reg>>

----------------------------------------------------------------------------
(* Analyses of the flow graph *)

RECURSIVE number_blks_r(_, _)
number_blks_r(seen, p) ==
    IF p = 0 \/ Seqs!Contains(seen, p) THEN seen
    ELSE number_blks_r(number_blks_r(Append(seen, p), blocks[p].jt), blocks[p].jf)

slength(s) == Len(SelectSeq(s, LAMBDA i : i.code # NOP.code))

\* blocks with their level, in the order in which the search leaves them
RECURSIVE find_levels_r(_, _)
find_levels_r(seen, p) ==
    IF p = 0 \/ p \in {seen[i].b : i \in DOMAIN seen} THEN seen
    ELSE LET s == find_levels_r(find_levels_r(seen, blocks[p].jt), blocks[p].jf)
             level(q) == (CHOOSE x \in Range(s) : x.b = q).level
             t == level(blocks[p].jt)
             f == level(blocks[p].jf)
         IN  Append(s, [b |-> p, level |-> IF Leaf(p) THEN 0 ELSE (IF t > f THEN t ELSE f) + 1])

\* levels[i + 1] is C's levels[i]: a block is put at the front of its list
find_levels ==
    LET s == Seqs!Reverse(find_levels_r(<<>>, root))
        on(i) == SelectSeq(s, LAMBDA x : x.level = i)
        names(t) == [n \in DOMAIN t |-> t[n].b]
    IN  [i \in 1..(s[1].level + 1) |-> names(on(i - 1))]

TopDown(levels) == Seqs!FlattenSeq(Seqs!Reverse(levels))
\* the passes over the branches leave out level 0
BottomUp(levels) == Seqs!FlattenSeq(Tail(levels))

\* link_inedge puts an edge at the front of its target's list
find_inedges(levels) ==
    LET inner == TopDown(Tail(levels))
        edges == Seqs!FlattenSeq([i \in DOMAIN inner |-> <<<<inner[i], "jt">>, <<inner[i], "jf">>>>])
    IN  [b \in Range(opt.blocks) |-> Seqs!Reverse(SelectSeq(edges, LAMBDA e : Succ(e) = b))]

\* what a node or an edge shares with every way that leads to it
Common(sets) == {x \in UNION sets : \A s \in sets : x \in s}

find_dom(levels, in) ==
    Seqs!FoldLeft(
        LAMBDA d, b : [q \in DOMAIN d \cup {b} |->
            IF q # b THEN d[q] ELSE {b} \cup Common({d[e[1]] : e \in Range(in[b])})],
        [q \in {} |-> {}], TopDown(levels))

find_edom(levels, in) ==
    Seqs!FoldLeft(
        LAMBDA d, b : [q \in DOMAIN d \cup {<<b, "jt">>, <<b, "jf">>} |->
            IF q[1] # b THEN d[q] ELSE {q} \cup Common({d[e] : e \in Range(in[b])})],
        [q \in {} |-> {}], TopDown(levels))

\* mutant: a load from scratch memory is not a use of the word
atomuse_NoMem(s) ==
    CASE s.code = NOP.code -> {}
      [] s.code[1] = "RET" -> IF s.code[3] = "A" THEN {A_ATOM} ELSE {}
      [] s.code[1] \in {"LD", "LDX"} -> IF s.code[3] = "IND" THEN {X_ATOM} ELSE {}
      [] s.code[1] = "ST" -> {A_ATOM}
      [] s.code[1] = "STX" -> {X_ATOM}
      [] s.code[1] \in {"JMP", "ALU"} -> {A_ATOM} \cup (IF s.code[3] = "X" THEN {X_ATOM} ELSE {})
      [] OTHER -> IF s.code[2] = "TXA" THEN {X_ATOM} ELSE {A_ATOM}
atomuse(s) ==
    CASE s.code = NOP.code -> {}
      [] s.code[1] = "RET" -> IF s.code[3] = "A" THEN {A_ATOM} ELSE {}
      [] s.code[1] \in {"LD", "LDX"} ->
            (CASE s.code[3] = "IND" -> {X_ATOM} [] s.code[3] = "MEM" -> {s.k} [] OTHER -> {})
      [] s.code[1] = "ST" -> {A_ATOM}
      [] s.code[1] = "STX" -> {X_ATOM}
      [] s.code[1] \in {"JMP", "ALU"} -> {A_ATOM} \cup (IF s.code[3] = "X" THEN {X_ATOM} ELSE {})
      [] OTHER -> IF s.code[2] = "TXA" THEN {X_ATOM} ELSE {A_ATOM}

atomdef(s) ==
    CASE s.code[1] \in {"LD", "ALU"} -> {A_ATOM}
      [] s.code[1] = "LDX" -> {X_ATOM}
      [] s.code[1] \in {"ST", "STX"} -> {s.k}
      [] s.code[1] = "MISC" -> IF s.code[2] = "TAX" THEN {X_ATOM} ELSE {A_ATOM}
      [] OTHER -> {}

\* statements of a block with its branch, which a return does not count as
WithBranch(b) == Append(b.stmts, Ins(b.code, b.k))

compute_local_ud(b) ==
    LET s == IF b.code[1] = "JMP" THEN WithBranch(b) ELSE b.stmts
    IN  [use |-> {a \in Atoms : \E i \in DOMAIN s :
                     a \in atomuse(s[i]) /\ \A j \in 1..(i - 1) : a \notin atomdef(s[j])},
         kill |-> {a \in Atoms : \E i \in DOMAIN s :
                      a \in atomdef(s[i]) /\ \A j \in 1..i : a \notin atomuse(s[j])}]

\* in[b] and out[b], from the leaves up
find_ud(levels) ==
    LET step(u, b) ==
            LET l == compute_local_ud(blocks[b])
                out == IF Leaf(b) THEN {} ELSE u[blocks[b].jt].in \cup u[blocks[b].jf].in
            IN  [q \in DOMAIN u \cup {b} |->
                    IF q # b THEN u[q] ELSE [out |-> out, in |-> l.use \cup (out \ l.kill)]]
        u == Seqs!FoldLeft(step, [q \in {} |-> {}], Seqs!FlattenSeq(levels))
    IN  [b \in DOMAIN u |-> u[b].out]

----------------------------------------------------------------------------
(* Value numbers; 0 is the undefined value *)

Numbered(vn, n) == IF Seqs!Contains(vn, n) THEN vn ELSE Append(vn, n)
Number(vn, n) == CHOOSE v \in DOMAIN vn : vn[v] = n
Const(vn, v) == v # 0 /\ vn[v][1] = LD_IMM
ConstVal(vn, v) == vn[v][2]

\* st is a block on its way through opt_blk: stmts, val, vn, alter, done, err
F(st, code, v0, v1) ==
    LET vn == Numbered(st.vn, <<code, v0, v1>>)
    IN  [st EXCEPT !.vn = vn, !.v = Number(vn, <<code, v0, v1>>)]
K(st, k) == F(st, LD_IMM, k, 0)

\* s becomes a statement of code and k
Becomes(st, i, code, k) == [st EXCEPT !.stmts[i] = Ins(code, k)]
vstore(st, i, atom, v) ==
    IF st.alter /\ st.val[atom] = v THEN [st EXCEPT !.stmts[i] = NOP]
    ELSE [st EXCEPT !.val[atom] = v]
SetA(st) == [st EXCEPT !.val[A_ATOM] = st.v]
Again(st) == [st EXCEPT !.done = FALSE]

fold_op(st, i, v0, v1) ==
    LET op == st.stmts[i].code[2]
        a == ConstVal(st.vn, v0)
        b == ConstVal(st.vn, v1)
    IN  IF op \in {"DIV", "MOD"} /\ b = 0 THEN [st EXCEPT !.err = TRUE]
        ELSE SetA(K(Again(Becomes(st, i, LD_IMM, AluResult(op, a, b))), AluResult(op, a, b)))

\* loads from the packet, of its length and of constants
opt_load(st, i) ==
    LET s == st.stmts[i]
        x == st.val[X_ATOM]
        fixed == Again(Becomes(st, i, <<"LD", s.code[2], "ABS">>, Add32(s.k, ConstVal(st.vn, x))))
        n == CASE s.code[3] = "IND" ->
                    IF st.alter /\ Const(st.vn, x)
                    THEN F(fixed, fixed.stmts[i].code, fixed.stmts[i].k, 0)
                    ELSE F(st, s.code, s.k, x)
               [] s.code[3] = "IMM" -> K(st, s.k)
               [] s.code[3] = "LEN" -> F(st, s.code, 0, 0)
               [] OTHER -> F(st, s.code, s.k, 0)
    IN  vstore(n, i, IF s.code[1] = "LD" THEN A_ATOM ELSE X_ATOM, n.v)

opt_aluK(st, i) ==
    LET s == st.stmts[i]
        op == s.code[2]
        k == K(st, s.k)
    IN  IF st.alter /\ s.k = 0 /\ op \in {"ADD", "LSH", "RSH", "OR", "XOR"}
        THEN [st EXCEPT !.stmts[i] = NOP]
        ELSE IF st.alter /\ s.k = 0 /\ op \in {"MUL", "AND"}
        THEN SetA(K(Becomes(st, i, LD_IMM, 0), 0))
        ELSE IF st.alter /\ Const(st.vn, st.val[A_ATOM])
        THEN fold_op(k, i, st.val[A_ATOM], k.v)
        ELSE SetA(F(k, s.code, st.val[A_ATOM], k.v))

opt_aluX(st, i) ==
    LET s == st.stmts[i]
        op == s.code[2]
        a == st.val[A_ATOM]
        x == st.val[X_ATOM]
        toK == Again(Becomes(st, i, <<"ALU", op, "K">>, ConstVal(st.vn, x)))
        k == K(toK, ConstVal(st.vn, x))
        zero == K(Becomes(st, i, LD_IMM, 0), 0)
        zeroA == st.alter /\ Const(st.vn, a) /\ ConstVal(st.vn, a) = 0
    IN  IF st.alter /\ Const(st.vn, x)
        THEN IF Const(st.vn, a) THEN fold_op(st, i, a, x)
             ELSE SetA(F(k, <<"ALU", op, "K">>, a, k.v))
        ELSE IF zeroA /\ op \in {"ADD", "OR", "XOR"}
        THEN vstore(Becomes(st, i, Txa.code, s.k), i, A_ATOM, x)
        ELSE IF zeroA /\ op # "SUB" THEN vstore(zero, i, A_ATOM, zero.v)
        ELSE SetA(F(st, s.code, a, x))

opt_neg(st, i) ==
    LET a == st.val[A_ATOM]
        k == Neg32(ConstVal(st.vn, a))
    IN  IF st.alter /\ Const(st.vn, a) THEN SetA(K(Becomes(st, i, LD_IMM, k), k))
        ELSE SetA(F(st, st.stmts[i].code, a, 0))

opt_mem(st, i) ==
    LET s == st.stmts[i]
        v == st.val[s.k]
        imm == Again(Becomes(st, i, <<s.code[1], "W", "IMM">>, ConstVal(st.vn, v)))
    IN  vstore(IF st.alter /\ Const(st.vn, v) THEN imm ELSE st, i,
               IF s.code[1] = "LD" THEN A_ATOM ELSE X_ATOM, v)

\* statements with no case (NOP, jumps) are left alone
opt_stmt(st, i) ==
    LET s == st.stmts[i]
        class == s.code[1]
    IN  CASE class \in {"LD", "LDX"} /\ s.code[3] = "MEM" -> opt_mem(st, i)
          [] class \in {"LD", "LDX"} /\ s.code[3] # "MEM" -> opt_load(st, i)
          [] class = "ALU" /\ s.code[2] = "NEG" -> opt_neg(st, i)
          [] class = "ALU" /\ s.code[2] # "NEG" ->
                IF s.code[3] = "K" THEN opt_aluK(st, i) ELSE opt_aluX(st, i)
          [] s.code = Txa.code -> vstore(st, i, A_ATOM, st.val[X_ATOM])
          [] s.code = Tax.code -> vstore(st, i, X_ATOM, st.val[A_ATOM])
          [] class = "ST" -> vstore(st, i, s.k, st.val[A_ATOM])
          [] class = "STX" -> vstore(st, i, s.k, st.val[X_ATOM])
          [] OTHER -> st

----------------------------------------------------------------------------
(* opt_peep; p is a block's stmts, code, k, jt, jf with done and last *)

this_op(s, i) ==
    LET ops == {j \in i..Len(s) : s[j].code # NOP.code}
    IN  IF ops = {} THEN 0 ELSE CHOOSE j \in ops : \A m \in ops : j <= m

CodeAt(s, i) == IF i = 0 THEN <<"NONE">> ELSE s[i].code
OpAfter(s, i) == IF i = 0 THEN 0 ELSE this_op(s, i + 1)

\* st M[k]; ldx M[k] and ld #k; tax
PeepPair(p, s, n) ==
    LET st == p.stmts
    IN  CASE st[s].code[1] = "ST" /\ st[n].code = <<"LDX", "W", "MEM">> /\ st[s].k = st[n].k ->
                [p EXCEPT !.stmts[n] = Ins(Tax.code, st[n].k), !.done = FALSE]
          [] st[s].code = LD_IMM /\ st[n].code = Tax.code ->
                [p EXCEPT !.stmts = [i \in DOMAIN st |->
                             CASE i = s -> Ins(LDX_IMM, st[s].k)
                               [] i = n -> Ins(Txa.code, st[n].k)
                               [] OTHER -> st[i]],
                          !.done = FALSE]
          [] OTHER -> p

\* ld #k; [ldx 4*([n]&0xf);] add x; tax; ld [x + j]
PeepIndex(p, s, n, out) ==
    LET st == p.stmts
        add == IF CodeAt(st, n) = <<"LDX", "B", "MSH">> THEN this_op(st, n + 1) ELSE n
        tax == OpAfter(st, add)
        ild == OpAfter(st, tax)
    IN  IF /\ st[s].code = LD_IMM /\ X_ATOM \notin out
           /\ CodeAt(st, add) = <<"ALU", "ADD", "X">>
           /\ CodeAt(st, tax) = Tax.code
           /\ ild # 0 /\ st[ild].code[1] = "LD" /\ st[ild].code[3] = "IND"
        THEN [p EXCEPT !.stmts = [i \in DOMAIN st |->
                          IF i \in {s, add, tax} THEN NOP
                          ELSE IF i = ild THEN Ins(st[i].code, Add32(st[i].k, st[s].k))
                          ELSE st[i]],
                       !.done = FALSE]
        ELSE p

RECURSIVE PeepStmts(_, _, _)
PeepStmts(p, i, out) ==
    LET s == this_op(p.stmts, i)
        n == OpAfter(p.stmts, s)
    IN  IF n = 0 THEN p
        ELSE PeepStmts([PeepIndex(PeepPair(p, s, n), s, n, out) EXCEPT !.last = n], n, out)

\* the last operation is merged into "jeq #k"
PeepCompare(p, out, val, vn) ==
    LET l == p.stmts[p.last]
        gone == [p EXCEPT !.stmts[p.last] = NOP, !.done = FALSE]
        x == val[X_ATOM]
    IN  CASE p.code # <<"JMP", "JEQ", "K">> \/ A_ATOM \in out -> p
          [] l.code = <<"ALU", "SUB", "X">> ->
                IF Const(vn, x) THEN [gone EXCEPT !.k = Add32(p.k, ConstVal(vn, x))]
                ELSE IF p.k = 0 THEN [gone EXCEPT !.code = <<"JMP", "JEQ", "X">>] ELSE p
          [] l.code = <<"ALU", "SUB", "K">> -> [gone EXCEPT !.k = Add32(p.k, l.k)]
          [] l.code = <<"ALU", "AND", "K">> /\ p.k = 0 ->
                [gone EXCEPT !.k = l.k, !.code = <<"JMP", "JSET", "K">>, !.jt = p.jf, !.jf = p.jt]
          [] OTHER -> p

\* jset #0 and jset #ffffffff
PeepJset(p) ==
    IF p.code # <<"JMP", "JSET", "K">> THEN p
    ELSE IF p.k = 0 THEN [p EXCEPT !.jt = p.jf]
    ELSE IF p.k = -1 THEN [p EXCEPT !.jf = p.jt] ELSE p

\* a comparison with a constant X, and one of a constant A
PeepConst(p, val, vn) ==
    LET b == IF Const(vn, val[X_ATOM]) /\ SrcX(p)
             THEN [p EXCEPT !.code[3] = "K", !.k = ConstVal(vn, val[X_ATOM])] ELSE p
        taken == IF Holds(b.code[2], ConstVal(vn, val[A_ATOM]), b.k) THEN b.jt ELSE b.jf
    IN  IF Const(vn, val[A_ATOM]) /\ ~SrcX(b)
        THEN [b EXCEPT !.jt = taken, !.jf = taken, !.done = b.done /\ b.jt = b.jf]
        ELSE b

opt_peep(p, out, val, vn) ==
    IF p.stmts = <<>> THEN p
    ELSE PeepConst(PeepJset(PeepCompare(PeepStmts(p, 1, out), out, val, vn)), val, vn)

\* a definition that is made again, or not live at the end, unused
Dead(b, i, out) ==
    LET s == WithBranch(b)
    IN  \E a \in atomdef(s[i]) :
            LET later == {j \in (i + 1)..Len(s) : a \in atomuse(s[j]) \cup atomdef(s[j])}
            IN  IF later = {} THEN a \notin out
                ELSE a \notin atomuse(s[CHOOSE j \in later : \A m \in later : j <= m])

\* mutant: a round always asks for another one
opt_deadstores_Again(p, out) ==
    LET dead == {i \in DOMAIN p.stmts : Dead(p, i, out)}
    IN  [p EXCEPT !.stmts = [i \in DOMAIN p.stmts |-> IF i \in dead THEN NOP ELSE p.stmts[i]],
                  !.done = FALSE]
opt_deadstores(p, out) ==
    LET dead == {i \in DOMAIN p.stmts : Dead(p, i, out)}
    IN  [p EXCEPT !.stmts = [i \in DOMAIN p.stmts |-> IF i \in dead THEN NOP ELSE p.stmts[i]],
                  !.done = p.done /\ dead = {}]

----------------------------------------------------------------------------
(* The passes *)

Round == phase = "optimize" /\ rc = 0
Current == Head(opt.work)

\* mutant: one value number per statement
opt_init_Tight ==
    /\ Round /\ opt.step = "init"
    /\ LET bs == number_blks_r(<<>>, root)
           count == Seqs!FoldLeft(LAMBDA n, b : n + slength(blocks[b].stmts) + 1, 0, bs)
       IN  opt' = [OptIdle EXCEPT !.blocks = bs, !.maxval = count, !.step = "round"]
    /\ UNCHANGED <<phase, rc, blocks, root>> /\ Outside
opt_init ==
    /\ Round /\ opt.step = "init"
    /\ LET bs == number_blks_r(<<>>, root)
           count == Seqs!FoldLeft(LAMBDA n, b : n + slength(blocks[b].stmts) + 1, 0, bs)
       IN  opt' = [OptIdle EXCEPT !.blocks = bs, !.maxval = 3 * count, !.step = "round"]
    /\ UNCHANGED <<phase, rc, blocks, root>> /\ Outside

\* find_levels .. find_edom, init_val, find_inedges
opt_round ==
    /\ Round /\ opt.step = "round"
    /\ LET levels == find_levels
           in == find_inedges(levels)
       IN  opt' = [opt EXCEPT !.done = TRUE, !.levels = levels, !.in_edges = in,
                              !.dom = find_dom(levels, in), !.edom = find_edom(levels, in),
                              !.out_use = find_ud(levels), !.vn = <<>>,
                              !.val = [b \in {} |-> <<>>], !.oval = [b \in {} |-> 0],
                              !.step = "blk", !.work = TopDown(levels)]
    /\ UNCHANGED <<phase, rc, blocks, root>> /\ Outside

\* values that every predecessor leaves
Inherited(b) ==
    LET preds == {e[1] : e \in Range(opt.in_edges[b])}
    IN  [a \in Atoms |->
            IF preds # {} /\ \A p, q \in preds : opt.val[p][a] = opt.val[q][a]
            THEN opt.val[CHOOSE p \in preds : TRUE][a] ELSE 0]

\* after the last block of a pass
AfterBlk(o) ==
    IF o.work # <<>> THEN o
    ELSE IF o.do_stmts THEN [o EXCEPT !.step = IF o.done THEN "intern" ELSE "round"]
    ELSE [o EXCEPT !.step = "j", !.work = BottomUp(o.levels)]

\* the statements of b rewritten, from the values `in' that it starts with
BlkStmts(b, in) ==
    Seqs!FoldLeftDomain(opt_stmt,
        [stmts |-> blocks[b].stmts, val |-> in, vn |-> opt.vn, v |-> 0,
         alter |-> opt.do_stmts, done |-> opt.done, err |-> FALSE], blocks[b].stmts)

\* b leaves A and X as they were and nothing it stores is used
Useless(b, in, st) ==
    /\ opt.do_stmts
    /\ \/ IsRet(blocks[b])
       \/ opt.out_use[b] = {} /\ \A a \in {A_ATOM, X_ATOM} : in[a] # 0 /\ st.val[a] = in[a]

\* then no statement is left; else the block and its branch are simplified
Simplified(b, in, st) ==
    LET blk == blocks[b]
        rest == [code |-> blk.code, k |-> blk.k, jt |-> blk.jt, jf |-> blk.jf, last |-> 1,
                 stmts |-> st.stmts, done |-> st.done]
    IN  IF Useless(b, in, st)
        THEN [rest EXCEPT !.stmts = <<>>, !.done = st.done /\ blk.stmts = <<>>]
        ELSE opt_deadstores(opt_peep(rest, opt.out_use[b], st.val, st.vn), opt.out_use[b])

\* the value the branch of b compares A with
BranchValue(vn, st, p) ==
    IF SrcX(p) THEN st.val[X_ATOM] ELSE Number(vn, <<LD_IMM, p.k, 0>>)

SetBlk(b, st, p) ==
    LET vn == IF SrcX(p) THEN st.vn ELSE Numbered(st.vn, <<LD_IMM, p.k, 0>>)
        set(f, v) == [q \in DOMAIN f \cup {b} |-> IF q = b THEN v ELSE f[q]]
    IN  /\ blocks' = [blocks EXCEPT ![b] =
                [@ EXCEPT !.stmts = p.stmts, !.code = p.code, !.k = p.k, !.jt = p.jt, !.jf = p.jf]]
        /\ opt' = AfterBlk([opt EXCEPT !.vn = vn, !.done = p.done, !.work = Tail(@),
                              !.val = set(@, st.val), !.oval = set(@, BranchValue(vn, st, p))])
        /\ UNCHANGED <<phase, rc, root>>

BlkStep(b, in, st) ==
    IF st.err
    THEN /\ rc' = -1 /\ phase' = "done"     \* "division by zero"
         /\ opt' = OptIdle
         /\ UNCHANGED <<blocks, root>>
    ELSE SetBlk(b, st, Simplified(b, in, st))

BlkFrom(b, in) == BlkStep(b, in, BlkStmts(b, in))

opt_blk ==
    /\ Round /\ opt.step = "blk" /\ opt.work # <<>>
    /\ BlkFrom(Current, Inherited(Current))
    /\ Outside

\* a value that is live behind succ is another one than b leaves
use_conflict(b, succ) == \E a \in opt.out_use[succ] : opt.val[b][a] # opt.val[succ][a]

\* mutant: the accumulator may have been loaded anew
fold_edge_AnyA(child, e) ==
    LET p == e[1]
    IN  CASE blocks[child].code # blocks[p].code -> 0
          [] opt.oval[child] = opt.oval[p] -> Succ(<<child, e[2]>>)
          [] e[2] = "jt" /\ blocks[p].code = <<"JMP", "JEQ", "K">> -> blocks[child].jf
          [] OTHER -> 0
\* the branch of child when the edge e has been taken, or 0
fold_edge(child, e) ==
    LET p == e[1]
    IN  CASE blocks[child].code # blocks[p].code -> 0
          [] opt.val[child][A_ATOM] # opt.val[p][A_ATOM] -> 0
          [] opt.oval[child] = opt.oval[p] -> Succ(<<child, e[2]>>)
          [] e[2] = "jt" /\ blocks[p].code = <<"JMP", "JEQ", "K">> -> blocks[child].jf
          [] OTHER -> 0

EdgeId(e) ==
    (CHOOSE i \in DOMAIN opt.blocks : opt.blocks[i] = e[1])
    + (IF e[2] = "jt" THEN 0 ELSE Len(opt.blocks))

\* the successor that ep ends with when it is s now
RECURSIVE Promote(_, _)
Promote(ep, s) ==
    LET moves == {e \in opt.edom[ep] :
                     fold_edge(s, e) # 0 /\ ~use_conflict(ep[1], fold_edge(s, e))}
        t == fold_edge(s, CHOOSE e \in moves : \A m \in moves : EdgeId(e) <= EdgeId(m))
    IN  IF moves = {} THEN s ELSE IF Leaf(t) THEN t ELSE Promote(ep, t)

opt_j(ep) ==
    LET s == Succ(ep)
        common == blocks[s].jt = blocks[s].jf /\ ~use_conflict(ep[1], blocks[s].jt)
    IN  IF Leaf(s) THEN s ELSE Promote(ep, IF common THEN blocks[s].jt ELSE s)

\* Both edges of a block.  The false one is treated when the true one has
\* been moved, which it does not look at: a branch's own edges do not
\* dominate each other.
opt_branch ==
    /\ Round /\ opt.step = "j" /\ opt.work # <<>>
    /\ LET b == Current
           t == opt_j(<<b, "jt">>)
           f == opt_j(<<b, "jf">>)
           done == opt.done /\ t = blocks[b].jt /\ f = blocks[b].jf
           o == [opt EXCEPT !.work = Tail(opt.work), !.done = done]
       IN  blocks' = [blocks EXCEPT ![b].jt = t, ![b].jf = f] /\ opt' = o
    /\ UNCHANGED <<phase, rc, root>> /\ Outside

opt_inedges ==
    /\ Round /\ opt.step = "j" /\ opt.work = <<>>
    /\ opt' = [opt EXCEPT !.in_edges = find_inedges(opt.levels), !.step = "pullup",
                          !.work = BottomUp(opt.levels)]
    /\ UNCHANGED <<phase, rc, blocks, root>> /\ Outside

\* or_pullup (follow = "jf") and and_pullup (follow = "jt"): the test behind
\* b that loads what the predecessors of b have loaded is moved up in front
\* of the ones that load something else
At(bl, loc) == bl[loc[1]][loc[2]]

OnChain(bl, b, loc, keep) ==
    /\ At(bl, loc) # 0
    /\ bl[At(bl, loc)][keep] = bl[b][keep]
    /\ b \in opt.dom[At(bl, loc)]

\* the first place on the chain from loc that leads to a block of stops
RECURSIVE Along(_, _, _, _, _, _)
Along(bl, b, loc, follow, keep, stops) ==
    IF ~OnChain(bl, b, loc, keep) THEN <<>>
    ELSE IF At(bl, loc) \in stops THEN loc
    ELSE Along(bl, b, <<At(bl, loc), follow>>, follow, keep, stops)

pullup(bl, b, follow, keep) ==
    LET in == opt.in_edges[b]
        side(e) == IF bl[e[1]].jt = b THEN "jt" ELSE "jf"
        val == opt.val[in[1][1]][A_ATOM]
        top == <<in[1][1], side(in[1])>>
        same == {q \in DOMAIN opt.val : opt.val[q][A_ATOM] = val}
        diffp == Along(bl, b, top, follow, keep, DOMAIN opt.val \ same)
        samep == Along(bl, b, <<At(bl, diffp), follow>>, follow, keep, same)
        diff == At(bl, diffp)
        pull == At(bl, samep)
        cut == [bl EXCEPT ![samep[1]][samep[2]] = bl[pull][follow]]
        moved == [cut EXCEPT ![pull][follow] = diff]
        redirect(m, e) == [m EXCEPT ![e[1]][IF m[e[1]].jt = b THEN "jt" ELSE "jf"] = pull]
    IN  IF in = <<>> \/ \E e \in Range(in) : e[1] \notin same THEN bl
        ELSE IF diffp = <<>> THEN bl
        ELSE IF samep = <<>> THEN bl
        ELSE IF diffp # top THEN [moved EXCEPT ![diffp[1]][diffp[2]] = pull]
        ELSE Seqs!FoldLeft(redirect, moved, in)

or_pullup(bl, b) == pullup(bl, b, "jf", "jt")
and_pullup(bl, b) == pullup(bl, b, "jt", "jf")

AfterPullup(o) ==
    IF o.done THEN [o EXCEPT !.step = "round", !.do_stmts = TRUE]
    ELSE [o EXCEPT !.step = "round"]

opt_pullup ==
    /\ Round /\ opt.step = "pullup"
    /\ IF opt.work = <<>> THEN opt' = AfterPullup(opt) /\ UNCHANGED blocks
       ELSE LET bl == and_pullup(or_pullup(blocks, Current), Current)
                o == [opt EXCEPT !.work = Tail(opt.work), !.done = opt.done /\ bl = blocks]
            IN  blocks' = bl /\ opt' = IF o.work = <<>> THEN AfterPullup(o) ELSE o
    /\ UNCHANGED <<phase, rc, root>> /\ Outside

----------------------------------------------------------------------------
(* intern_blocks and opt_root *)

Live(s) == SelectSeq(s, LAMBDA i : i.code # NOP.code)
CodeAndK(s) == [i \in DOMAIN s |-> <<s[i].code, s[i].k>>]
eq_blk(p, q) ==
    /\ <<p.code, p.k, p.jt, p.jf>> = <<q.code, q.k, q.jt, q.jf>>
    /\ CodeAndK(Live(p.stmts)) = CodeAndK(Live(q.stmts))

\* the later block that each live block is merged with, by its number
Links ==
    LET n == Len(opt.blocks)
        alive == Range(number_blks_r(<<>>, root))
        equal(i) == {j \in (i + 1)..n :
                        /\ {opt.blocks[i], opt.blocks[j]} \subseteq alive
                        /\ eq_blk(blocks[opt.blocks[i]], blocks[opt.blocks[j]])}
        first(i) == CHOOSE j \in equal(i) : \A m \in equal(i) : j <= m
        link[i \in 1..n] ==
            IF equal(i) = {} THEN i ELSE link[first(i)]
    IN  [b \in Range(opt.blocks) |->
            opt.blocks[link[CHOOSE i \in 1..n : opt.blocks[i] = b]]]

intern_blocks ==
    /\ Round /\ opt.step = "intern"
    /\ LET link == Links
           to(b) == IF b \in DOMAIN link THEN link[b] ELSE b
           bl == [b \in DOMAIN blocks |->
                    [blocks[b] EXCEPT !.jt = to(blocks[b].jt), !.jf = to(blocks[b].jf)]]
       IN  /\ blocks' = bl
           /\ opt' = [opt EXCEPT !.step = IF bl = blocks THEN "root" ELSE "intern"]
    /\ UNCHANGED <<phase, rc, root>> /\ Outside

RECURSIVE FirstBranch(_)
FirstBranch(b) ==
    IF blocks[b].code[1] = "JMP" /\ blocks[b].jt = blocks[b].jf THEN FirstBranch(blocks[b].jt) ELSE b

\* the statements of the blocks that are skipped are lost, but for the root's
opt_root ==
    /\ Round /\ opt.step = "root"
    /\ LET r == FirstBranch(root)
           s == IF r = root THEN blocks[root].stmts ELSE blocks[root].stmts \o blocks[r].stmts
       IN  /\ root' = r
           /\ blocks' = [blocks EXCEPT ![r].stmts = IF IsRet(blocks[r]) THEN <<>> ELSE s]
    /\ opt' = OptIdle
    /\ phase' = "emit"
    /\ UNCHANGED rc /\ Outside

OptStep ==
    opt_init \/ opt_round \/ opt_blk \/ opt_branch \/ opt_inedges \/ opt_pullup
        \/ intern_blocks \/ opt_root
=============================================================================
