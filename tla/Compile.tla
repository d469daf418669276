------------------------------- MODULE Compile -------------------------------
(***************************************************************************)
(* pcap_compile() of jni/pcap/gencode.c over the parser of grammar.c.      *)
(*                                                                         *)
(* An expression is the sequence of reductions the parser performs on it,  *)
(* which is the order in which the semantic actions of grammar.c run; each *)
(* action below is one kind of reduction.  finish_parse() turns the tree   *)
(* of tests into linked blocks, Optimize works on the blocks, and          *)
(* icode_to_fcode() lays them out as a program.                            *)
(***************************************************************************)
EXTENDS GenMisc, FiniteSets

CONSTANT JumpRange      \* what the 8-bit offsets of a branch reach (256)

ASSUME CompileAssumption == BPF_MEMWORDS \in Nat \ {0} /\ JumpRange \in Nat \ {0}

VARIABLES
    pcap,       \* the handle: activated, snapshot, linktype, savefile
    args,       \* optimize and netmask of the call
    todo,       \* the reductions that are left
    stack,      \* the parser's values
    phase,      \* "idle", "parse", "optimize", "emit" or "done"
    no_optimize,
    blocks,     \* the blocks: [stmts, code, k, sense, jt, jf, head]; 0 is NULL
    root,
    rc,         \* 0, -1, or 1 for abort()
    fcode       \* the program

compileVars == <<pcap, args, todo, stack, phase, no_optimize, blocks, root, rc, fcode, ll, reg>>

----------------------------------------------------------------------------
(* Values of the parser *)

qerr == [proto |-> "UNDEF", dir |-> "UNDEF", addr |-> "UNDEF"]
Inherit == [proto |-> "", dir |-> "", addr |-> ""]  \* no head: $<blk>0.q

Top == stack[Len(stack)]
Under == stack[Len(stack) - 1]
Popped(n) == SubSeq(stack, 1, Len(stack) - n)

\* an id takes the qualifier of its head, else of what is left of it: and,
\* or, not and '(' pass it on
Qual(r) == IF r.q # Inherit THEN r.q ELSE IF stack = <<>> THEN qerr ELSE Top.q

Blk(b, q) == [b |-> b, q |-> q]

\* bpf_error() leaves by longjmp(), abort() leaves the process
Fail(code) ==
    /\ rc' = code /\ phase' = "done"
    /\ UNCHANGED <<pcap, args, todo, stack, no_optimize, blocks, root, fcode, ll, reg>>

----------------------------------------------------------------------------
(* Registers for the variable offsets *)

\* every comparison of a tree as a block
RECURSIVE Coded(_)
Coded(t) ==
    CASE t.op = "cmp" -> CmpBlock(t)
      [] t.op \in {"and", "or"} -> [t EXCEPT !.l = Coded(@), !.r = Coded(@)]
      [] t.op = "not" -> [t EXCEPT !.l = Coded(@)]
      [] OTHER -> t

RECURSIVE Statements(_)
Statements(t) ==
    CASE t.op = "test" -> t.stmts
      [] t.op \in {"and", "or"} -> Statements(t.l) \o Statements(t.r)
      [] t.op = "not" -> Statements(t.l)
      [] OTHER -> <<>>

FirstAt(s, k) ==
    LET at == {i \in 1..Len(s) : s[i] = Ldx(k)}
    IN  IF at = {} THEN Len(s) + 1 ELSE CHOOSE i \in at : \A j \in at : i <= j

ClaimLl(rg, s) ==
    IF rg.off_ll = -1 /\ FirstAt(s, REG_LL) <= Len(s)
    THEN LET r == alloc_reg(rg) IN [r EXCEPT !.off_ll = r.cur] ELSE rg
ClaimMacpl(rg, s) ==
    IF rg.off_macpl = -1 /\ FirstAt(s, REG_MACPL) <= Len(s)
    THEN LET r == alloc_reg(rg) IN [r EXCEPT !.off_macpl = r.cur] ELSE rg

\* the first code that uses reg_off_ll or reg_off_macpl allocates it
Claim(rg, s) ==
    IF FirstAt(s, REG_MACPL) < FirstAt(s, REG_LL) THEN ClaimLl(ClaimMacpl(rg, s), s)
    ELSE ClaimMacpl(ClaimLl(rg, s), s)

\* The value is pushed over the n values it was made of; rg is the register
\* table behind the call, newll the offsets.
Push(n, v, t, code, rg, newll) ==
    LET r == Claim(rg, code)
    IN  IF t.op = "err" THEN Fail(IF t.abort THEN 1 ELSE -1)
        ELSE IF NoReg \in r.used THEN Fail(-1)
        ELSE /\ stack' = Append(Popped(n), v)
             /\ reg' = r
             /\ ll' = newll
             /\ todo' = Tail(todo)
             /\ UNCHANGED <<pcap, args, phase, blocks, root, rc, fcode>>

PushCode(n, b, q, rg, newll) == Push(n, Blk(b, q), b, Statements(b), rg, newll)
PushBlk(n, b, q) == PushCode(n, Coded(b), q, reg, ll) /\ UNCHANGED no_optimize
PushTested(n, a, b, rg) ==
    /\ Push(n, [a EXCEPT !.b = b], b, a.s \o Statements(b), rg, ll)
    /\ UNCHANGED no_optimize
PushArth(n, a, rg) == PushTested(n, a, Coded(a.b), rg)

----------------------------------------------------------------------------
(* Reductions *)

Parsing(name) == phase = "parse" /\ todo # <<>> /\ Head(todo).r = name
R == Head(todo)

\* expr and term, expr and id, qid and id
ReduceAnd == Parsing("and") /\ PushBlk(2, And(Under.b, Top.b), Top.q)
ReduceOr == Parsing("or") /\ PushBlk(2, Or(Under.b, Top.b), Top.q)
ReduceNot == Parsing("not") /\ PushBlk(1, Not(Top.b), Top.q)
\* paren expr ')' has the qualifier of what is left of it
ReduceParen ==
    /\ Parsing("paren")
    /\ PushBlk(1, Top.b, IF Len(stack) > 1 THEN Under.q ELSE qerr)

\* nid and pnum under a head
PushId(b, q, chain) ==
    LET leaked == reg.used \cup (IF chain THEN ChainLeak(q.proto) ELSE {})
        n == IF chain THEN NextFree(leaked, reg.cur) ELSE reg.cur
    IN  /\ PushCode(0, IF n = NoReg THEN Err ELSE b, q, [reg EXCEPT !.used = leaked, !.cur = n], ll)
        /\ no_optimize' = (no_optimize \/ (chain /\ b.op # "err" /\ n # NoReg))

\* protochain takes a register and, for both versions of IP, keeps one
ReduceId ==
    /\ \/ Parsing("ID") \/ Parsing("NUM") \/ Parsing("HID")
    /\ LET q == Qual(R)
       IN  PushId(Coded(CASE R.r = "ID" -> gen_scode(R.name, q)
                          [] R.r = "HID" /\ q.addr \in {"PORT", "PORTRANGE", "PROTO", "PROTOCHAIN"} -> Err
                          [] OTHER -> gen_ncode(R.v, IF R.r = "NUM" THEN 32 ELSE R.len, R.r = "HID", q)),
                  q, R.r # "HID" /\ q.addr = "PROTOCHAIN")
ReduceNet == Parsing("HIDNET") /\ PushBlk(0, gen_mcode(R.v, R.len, R.mask, Qual(R)), Qual(R))
\* the words of the address are compared before the link type is tested
ReduceHost6 ==
    /\ Parsing("HID6")
    /\ LET b == Coded(gen_mcode6(R.v, R.mask, Qual(R)))
       IN  Push(0, Blk(b, Qual(R)), b, gen_off_macpl \o Statements(b), reg, ll)
    /\ UNCHANGED no_optimize
ReduceEther == Parsing("EID") /\ PushBlk(0, gen_ecode(R.v, Qual(R)), Qual(R))
ReduceArcnet == Parsing("AID") /\ PushBlk(0, gen_acode(R.v, Qual(R)), Qual(R))

ReduceProto ==
    /\ Parsing("pname")
    /\ PushBlk(0, IF R.proto \in DOMAIN IsisTypes THEN gen_isis_abbrev(R.proto)
                  ELSE gen_proto_abbrev(R.proto), qerr)

\* arth relop arth, arth irelop arth: both registers are freed
ReduceRelation ==
    /\ Parsing("rel")
    /\ LET b == gen_relation(R.code, Under, Top, R.reversed)
       IN  Push(2, Blk(b, qerr), b, <<>>, free_reg(free_reg(reg, Under.regno), Top.regno), ll)
    /\ UNCHANGED no_optimize

ReduceLoadi == Parsing("loadi") /\ PushArth(0, gen_loadi(R.v, alloc_reg(reg).cur), alloc_reg(reg))
ReduceLen == Parsing("len") /\ PushArth(0, gen_loadlen(alloc_reg(reg).cur), alloc_reg(reg))
ReduceNeg == Parsing("neg") /\ PushArth(1, gen_neg(Top), reg)
ReduceArth ==
    /\ Parsing("arth")
    /\ LET rg == free_reg(free_reg(reg, Under.regno), Top.regno)
       IN  PushArth(2, gen_arth(R.code, Under, Top, alloc_reg(rg).cur), alloc_reg(rg))
ReduceLoad ==
    /\ Parsing("load")
    /\ LET rg == alloc_reg(reg)
       IN  IF LoadRefused(R.proto, R.size) THEN Fail(-1)
           ELSE PushArth(1, gen_load(R.proto, Top, R.size, rg.cur), free_reg(rg, Top.regno))

\* frames of 802.11 by type and direction
WlanTest(r) ==
    CASE r.what = "type" -> gen_p80211_type(r.v, r.mask)
      [] r.what = "dir" -> gen_p80211_fcdir(r.v)
\* atmtype, atmmultitype and atmfield
AtmTest(r) ==
    CASE r.what = "atmtype" -> gen_atmtype_abbrev(r.v)
      [] r.what = "atmmulti" -> gen_atmmulti_abbrev(r.v)
      [] r.what = "atm" -> gen_atmfield_code(r.field, r.v, r.code, r.reversed)
\* mtp2type and mtp3field
MtpTest(r) ==
    CASE r.what = "mtp2" -> gen_mtp2type_abbrev(r.v)
      [] r.what = "mtp3" -> gen_mtp3field_code(r.field, r.v, r.code, r.reversed)
\* other
OtherTest(r) ==
    CASE r.what = "broadcast" -> gen_broadcast(r.proto, args.netmask)
      [] r.what = "multicast" -> gen_multicast(r.proto)
      [] r.what = "less" -> gen_less(r.v)
      [] r.what = "greater" -> gen_greater(r.v)
      [] r.what = "byte" -> gen_byteop(r.byteop, r.idx, r.v)
      [] r.what = "inbound" -> gen_inbound(r.v, pcap.savefile)
      [] r.what = "vlan" -> gen_vlan(r.v)
      [] r.what = "mpls" -> gen_mpls(r.v)
      [] r.what = "pppoed" -> gen_pppoed
      [] r.what = "pppoes" -> gen_pppoes(r.v)
      [] r.what = "pf" -> gen_pf
      [] r.what \in {"type", "dir"} -> WlanTest(r)
      [] r.what \in {"atmtype", "atmmulti", "atm"} -> AtmTest(r)
      [] r.what \in {"mtp2", "mtp3"} -> MtpTest(r)

\* the offsets that the rest of the expression is compiled with
OtherOffsets(r) ==
    CASE r.what = "vlan" -> vlan_offsets
      [] r.what = "mpls" -> mpls_offsets
      [] r.what = "pppoes" -> pppoes_offsets
      [] r.what = "atmtype" -> atmtype_offsets(r.v)
      [] OTHER -> ll

ReduceOther ==
    /\ Parsing("other")
    /\ PushCode(0, Coded(OtherTest(R)), qerr, reg, OtherOffsets(R))
    /\ UNCHANGED no_optimize

Reduce ==
    \/ ReduceAnd \/ ReduceOr \/ ReduceNot \/ ReduceParen
    \/ ReduceId \/ ReduceNet \/ ReduceHost6 \/ ReduceEther \/ ReduceArcnet \/ ReduceProto
    \/ ReduceRelation \/ ReduceLoadi
    \/ ReduceLen \/ ReduceNeg \/ ReduceArth \/ ReduceLoad \/ ReduceOther

----------------------------------------------------------------------------
(* Blocks *)

new_block(stmts, code, k) ==
    [stmts |-> stmts, code |-> code, k |-> k, sense |-> FALSE, jt |-> 0, jf |-> 0, head |-> 0]
gen_retblk(v) == new_block(<<>>, <<"RET", "", "K">>, v)
IsRet(b) == b.code[1] = "RET"

Flip(bl, b) == [bl EXCEPT ![b].sense = ~@]

\* The unresolved blocks are linked through the field that sense names.
RECURSIVE backpatch(_, _, _)
backpatch(bl, list, target) ==
    IF list = 0 THEN bl
    ELSE IF ~bl[list].sense
         THEN backpatch([bl EXCEPT ![list].jt = target], bl[list].jt, target)
         ELSE backpatch([bl EXCEPT ![list].jf = target], bl[list].jf, target)

RECURSIVE merge(_, _, _)
merge(bl, b0, b1) ==
    LET next == IF ~bl[b0].sense THEN bl[b0].jt ELSE bl[b0].jf
    IN  IF next # 0 THEN merge(bl, next, b1)
        ELSE IF ~bl[b0].sense THEN [bl EXCEPT ![b0].jt = b1] ELSE [bl EXCEPT ![b0].jf = b1]

gen_and(bl, b0, b1) ==
    LET patched == backpatch(bl, b0, bl[b1].head)
        merged == merge(Flip(Flip(patched, b0), b1), b1, b0)
    IN  [Flip(merged, b1) EXCEPT ![b1].head = merged[b0].head]

gen_or(bl, b0, b1) ==
    LET patched == Flip(backpatch(Flip(bl, b0), b0, bl[b1].head), b0)
        merged == merge(patched, b1, b0)
    IN  [merged EXCEPT ![b1].head = merged[b0].head]

\* the blocks bl, then those of the tree t; the last one is the test's
RECURSIVE Emit(_, _)
Emit(bl, t) ==
    CASE t.op = "test" ->
            Append(bl, [new_block(t.stmts, t.code, t.k) EXCEPT !.head = Len(bl) + 1])
      [] t.op = "not" -> LET e == Emit(bl, t.l) IN Flip(e, Len(e))
      [] t.op \in {"and", "or"} ->
            LET e0 == Emit(bl, t.l)
                e1 == Emit(e0, t.r)
            IN  IF t.op = "and" THEN gen_and(e1, Len(e0), Len(e1)) ELSE gen_or(e1, Len(e0), Len(e1))

\* statements with the registers of the variable offsets filled in
Resolve(s) ==
    [i \in DOMAIN s |->
        IF s[i] = Ldx(REG_LL) THEN Ldx(reg.off_ll)
        ELSE IF s[i] = Ldx(REG_MACPL) THEN Ldx(reg.off_macpl) ELSE s[i]]

\* the blocks e of the whole expression, whose test p is the last one
WithVloffsets(e, p) ==
    [i \in 1..p |->
        [e[i] EXCEPT !.stmts = (IF i = e[p].head THEN insert_compute_vloffsets ELSE <<>>)
                               \o Resolve(@)]]
WithDltCheck(v, p) ==
    IF ll.linktype # "PPI" THEN v
    ELSE gen_and(Append(v, [Emit(<<>>, gen_ppi_dlt_check)[1] EXCEPT !.head = p + 1]), p + 1, p)
Accepting(w, p) == backpatch(Append(w, gen_retblk(pcap.snapshot)), p, Len(w) + 1)
Rejecting(w, p) ==
    [blocks |-> backpatch(Append(Flip(w, p), gen_retblk(0)), p, Len(w) + 1),
     root |-> w[p].head]
FinishedBlocks(t) ==
    LET e == Emit(<<>>, t)
        p == Len(e)
    IN  Rejecting(Accepting(WithDltCheck(WithVloffsets(e, p), p), p), p)

\* the end of pcap_parse(): finish_parse, or nothing for an empty expression
finish_parse ==
    /\ phase = "parse" /\ todo = <<>>
    /\ LET f == IF stack = <<>> THEN [blocks |-> <<gen_retblk(pcap.snapshot)>>, root |-> 1]
                ELSE FinishedBlocks(Top.b)
       IN  blocks' = f.blocks /\ root' = f.root
    /\ no_optimize' = (no_optimize \/ (stack # <<>> /\ VloffsetsNotOptimizable))
    /\ phase' = IF args.optimize /\ ~no_optimize' THEN "optimize" ELSE "emit"
    /\ UNCHANGED <<pcap, args, todo, stack, rc, fcode, ll, reg>>

----------------------------------------------------------------------------
(* Layout *)

\* From the end to the front: st.out is the code so far and st.at[b] its
\* length when b had been put in front.  A branch that does not reach its
\* target gets a jump of its own (st.long), and the layout starts again.
LocalJumps(s) ==
    [i \in DOMAIN s |-> IF i = Len(s) - 1 /\ s[i].code[1] = "JMP" /\ s[i].code[2] # "JA"
                        THEN [s[i] EXCEPT !.jt = 0, !.jf = 0] ELSE s[i]]

RECURSIVE convert_code_r(_, _)
convert_code_r(st, p) ==
    IF p = 0 \/ p \in DOMAIN st.at \/ ~st.ok THEN st
    ELSE
    LET s1 == convert_code_r(st, blocks[p].jf)
        s2 == convert_code_r(s1, blocks[p].jt)
        b == blocks[p]
        live == SelectSeq(b.stmts, LAMBDA s : s.code # <<"NOP">>)
        extra == Cardinality({e \in s2.long : e[1] = p})
        n == Len(s2.out) + Len(live) + 1 + extra
        off(q) == n - s2.at[q] - Len(live) - 1
        far(q, side) == off(q) >= JumpRange /\ <<p, side>> \notin s2.long
        jump(q, i) == [code |-> <<"JMP", "JA", "">>, k |-> off(q) - i, jt |-> 0, jf |-> 0]
        longT == <<p, "t">> \in s2.long
        longF == <<p, "f">> \in s2.long
        nT == IF longT THEN 1 ELSE 0
        branch ==
            <<[code |-> b.code, k |-> b.k,
               jt |-> IF longT THEN 0 ELSE off(b.jt), jf |-> IF longF THEN nT ELSE off(b.jf)]>>
            \o (IF longT THEN <<jump(b.jt, 1)>> ELSE <<>>)
            \o (IF longF THEN <<jump(b.jf, nT + 1)>> ELSE <<>>)
        tail == IF IsRet(b) THEN <<Ins(b.code, b.k)>> ELSE branch
        at == [q \in DOMAIN s2.at \cup {p} |-> IF q = p THEN n ELSE s2.at[q]]
    IN  IF ~s2.ok THEN s2
        ELSE IF ~IsRet(b) /\ far(b.jt, "t")
        THEN [s2 EXCEPT !.long = @ \cup {<<p, "t">>}, !.ok = FALSE]
        ELSE IF ~IsRet(b) /\ far(b.jf, "f")
        THEN [s2 EXCEPT !.long = @ \cup {<<p, "f">>}, !.ok = FALSE]
        ELSE [s2 EXCEPT !.out = LocalJumps(live) \o tail \o @, !.at = at]

RECURSIVE Layout(_)
Layout(long) ==
    LET st == convert_code_r([out |-> <<>>, at |-> [q \in {} |-> 0], long |-> long, ok |-> TRUE], root)
    IN  IF st.ok THEN st.out ELSE Layout(st.long)

\* "expression rejects all packets" is an error of the optimizer's caller
RejectsAll == args.optimize /\ ~no_optimize /\ IsRet(blocks[root]) /\ blocks[root].k = 0

icode_to_fcode ==
    /\ phase = "emit"
    /\ IF RejectsAll THEN rc' = -1 /\ UNCHANGED fcode
       ELSE rc' = 0 /\ fcode' = Layout({})
    /\ phase' = "done"
    /\ UNCHANGED <<pcap, args, todo, stack, no_optimize, blocks, root, ll, reg>>

----------------------------------------------------------------------------
(* pcap_compile is called *)

NoPcap == [activated |-> FALSE, snapshot |-> 0, linktype |-> "", savefile |-> FALSE]

CompileInit ==
    /\ pcap = NoPcap
    /\ args = [optimize |-> FALSE, netmask |-> 0]
    /\ todo = <<>> /\ stack = <<>>
    /\ phase = "idle"
    /\ no_optimize = FALSE
    /\ blocks = <<>> /\ root = 0
    /\ rc = 0 /\ fcode = <<>>
    /\ ll = Reset("") /\ reg = init_regs

\* an unactivated handle and a snapshot length of 0 are refused
pcap_compile(p, expr, optimize, netmask) ==
    /\ phase = "idle"
    /\ pcap' = p
    /\ args' = [optimize |-> optimize, netmask |-> netmask]
    /\ todo' = expr /\ stack' = <<>>
    /\ no_optimize' = FALSE
    /\ blocks' = <<>> /\ root' = 0
    /\ ll' = init_linktype(p.linktype)
    /\ reg' = init_regs
    /\ fcode' = <<>>
    /\ IF p.activated /\ p.snapshot # 0 THEN rc' = 0 /\ phase' = "parse"
       ELSE rc' = -1 /\ phase' = "done"
=============================================================================
