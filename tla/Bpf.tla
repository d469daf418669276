--------------------------------- MODULE Bpf ---------------------------------
(***************************************************************************)
(* The packet filter machine of jni/pcap/bpf/net/bpf_filter.c: the static  *)
(* check bpf_validate() and the interpreter bpf_filter(), one step per     *)
(* instruction.                                                            *)
(*                                                                         *)
(* An instruction is [code, k, jt, jf].  Its code is the triple of the     *)
(* three fields that bpf.h ORs together: <<class, size or operation, mode  *)
(* or source>>.  Userland (not KERNEL) is the build that is modelled.      *)
(***************************************************************************)
EXTENDS Word32, Sequences, FiniteSets

CONSTANTS BPF_MEMWORDS,   \* scratch memory words (16)
          Garbage         \* what reading outside the packet or an unwritten
                          \* word of the scratch memory may give

BpfAssumption == BPF_MEMWORDS \in Nat \ {0} /\ Garbage \subseteq 0..255

VARIABLES
    prog,      \* the program: a sequence of instructions (pc - 1 is C's index)
    buf,       \* the captured bytes
    wirelen,   \* the length on the wire
    pc, A, X,
    mem,       \* the written words of the scratch memory
    status,    \* "run", "ret" or "abort"
    verdict    \* what bpf_filter returned

bpfVars == <<prog, buf, wirelen, pc, A, X, mem, status, verdict>>

----------------------------------------------------------------------------
(* Instructions *)

Insn(code, k, jt, jf) == [code |-> code, k |-> k, jt |-> jt, jf |-> jf]
Stmt(code, k) == Insn(code, k, 0, 0)
LD(size, mode) == <<"LD", size, mode>>
LDX(size, mode) == <<"LDX", size, mode>>
ALU(op, src) == <<"ALU", op, src>>
JMP(op, src) == <<"JMP", op, src>>
RET(src) == <<"RET", "", src>>
ST == <<"ST", "", "">>
STX == <<"STX", "", "">>
TAX == <<"MISC", "TAX", "">>
TXA == <<"MISC", "TXA", "">>

Class(i) == i.code[1]
AluOps == {"ADD", "SUB", "MUL", "DIV", "MOD", "OR", "AND", "XOR", "LSH", "RSH", "NEG"}
CondOps == {"JEQ", "JGT", "JGE", "JSET"}
Width == [W |-> 4, H |-> 2, B |-> 1]

\* the codes that have a case in the switch of bpf_filter
Known ==
    {LD(s, m) : s \in {"W", "H", "B"}, m \in {"ABS", "IND"}}
    \cup {LD("W", m) : m \in {"LEN", "IMM", "MEM"}}
    \cup {LDX("W", m) : m \in {"LEN", "IMM", "MEM"}} \cup {LDX("B", "MSH")}
    \cup {ST, STX, TAX, TXA, RET("K"), RET("A"), JMP("JA", "")}
    \cup {JMP(o, s) : o \in CondOps, s \in {"K", "X"}}
    \cup ({ALU(o, s) : o \in AluOps, s \in {"K", "X"}} \ {ALU("NEG", "X")})

----------------------------------------------------------------------------
(* bpf_validate *)

\* Memory operations use valid addresses.
ValidLoad(i) ==
    CASE i.code[3] \in {"IMM", "ABS", "IND", "MSH", "LEN"} -> TRUE
      [] i.code[3] = "MEM" -> ULT(i.k, BPF_MEMWORDS)
      [] OTHER -> FALSE

ValidStore(i) == ULT(i.k, BPF_MEMWORDS)

\* No constant division by zero.
ValidAlu(i) ==
    /\ i.code[2] \in AluOps
    /\ i.code[2] \in {"DIV", "MOD"} /\ i.code[3] = "K" => i.k # 0

\* Jumps are within the code; `from' is i + 1 in C, pc in this module.  A
\* backward unconditional jump is accepted: the sum wraps.
ValidJump(i, from, len) ==
    CASE i.code[2] = "JA" -> ULT(Add32(from, i.k), len)
      [] i.code[2] \in CondOps -> from + i.jt < len /\ from + i.jf < len
      [] OTHER -> FALSE

ValidInsn(i, from, len) ==
    CASE Class(i) \in {"LD", "LDX"} -> ValidLoad(i)
      [] Class(i) \in {"ST", "STX"} -> ValidStore(i)
      [] Class(i) = "ALU" -> ValidAlu(i)
      [] Class(i) = "JMP" -> ValidJump(i, from, len)
      [] Class(i) \in {"RET", "MISC"} -> TRUE
      [] OTHER -> FALSE

bpf_validate(f) ==
    /\ Len(f) >= 1
    /\ \A n \in 1..Len(f) : ValidInsn(f[n], n, Len(f))
    /\ Class(f[Len(f)]) = "RET"

----------------------------------------------------------------------------
(* bpf_filter *)

Cur == prog[pc]
Running == status = "run"

Advance(n) == pc' = pc + 1 + n

Return(v) ==
    /\ status' = "ret"
    /\ verdict' = v
    /\ UNCHANGED <<prog, buf, wirelen, pc, A, X, mem>>

Ret ==
    /\ Running
    /\ Cur.code \in {RET("K"), RET("A")}
    /\ Return(IF Cur.code = RET("K") THEN Cur.k ELSE A)

\* The bytes at offset k, and whether the test before the load lets it happen.
ByteAt(k, g) == IF k \in 0..(Len(buf) - 1) THEN buf[k + 1] ELSE g
Extract(k, size, g) ==
    CASE size = "W" -> Word(256 * ByteAt(k, g) + ByteAt(Add32(k, 1), g),
                            256 * ByteAt(Add32(k, 2), g) + ByteAt(Add32(k, 3), g))
      [] size = "H" -> 256 * ByteAt(k, g) + ByteAt(Add32(k, 1), g)
      [] OTHER -> ByteAt(k, g)
PastEnd(k, size) ==
    IF size = "B" THEN ~ULT(k, Len(buf)) ELSE ULT(Len(buf), Add32(k, Width[size]))

LoadPacket(k, size) ==
    \/ /\ PastEnd(k, size)
       /\ Return(0)
    \/ /\ ~PastEnd(k, size)
       /\ \E g \in Garbage : A' = Extract(k, size, g)
       /\ Advance(0)
       /\ UNCHANGED <<prog, buf, wirelen, X, mem, status, verdict>>

LdAbs ==
    /\ Running
    /\ \E size \in {"W", "H", "B"} :
          Cur.code = LD(size, "ABS") /\ LoadPacket(Cur.k, size)

LdInd ==
    /\ Running
    /\ \E size \in {"W", "H", "B"} :
          Cur.code = LD(size, "IND") /\ LoadPacket(Add32(X, Cur.k), size)

LdxMsh ==
    /\ Running
    /\ Cur.code = LDX("B", "MSH")
    /\ \/ PastEnd(Cur.k, "B") /\ Return(0)
       \/ /\ ~PastEnd(Cur.k, "B")
          /\ X' = 4 * (buf[Cur.k + 1] % 16)
          /\ Advance(0)
          /\ UNCHANGED <<prog, buf, wirelen, A, mem, status, verdict>>

LdLenImm ==
    /\ Running
    /\ Cur.code \in {LD("W", "LEN"), LD("W", "IMM")}
    /\ A' = IF Cur.code[3] = "LEN" THEN wirelen ELSE Cur.k
    /\ Advance(0)
    /\ UNCHANGED <<prog, buf, wirelen, X, mem, status, verdict>>

LdxLenImm ==
    /\ Running
    /\ Cur.code \in {LDX("W", "LEN"), LDX("W", "IMM")}
    /\ X' = IF Cur.code[3] = "LEN" THEN wirelen ELSE Cur.k
    /\ Advance(0)
    /\ UNCHANGED <<prog, buf, wirelen, A, mem, status, verdict>>

\* mem[] is not initialised.
MemWord(k, g) == IF k \in DOMAIN mem THEN mem[k] ELSE g

LdMem ==
    /\ Running
    /\ Cur.code = LD("W", "MEM")
    /\ \E g \in Garbage : A' = MemWord(Cur.k, g)
    /\ Advance(0)
    /\ UNCHANGED <<prog, buf, wirelen, X, mem, status, verdict>>

LdxMem ==
    /\ Running
    /\ Cur.code = LDX("W", "MEM")
    /\ \E g \in Garbage : X' = MemWord(Cur.k, g)
    /\ Advance(0)
    /\ UNCHANGED <<prog, buf, wirelen, A, mem, status, verdict>>

Store ==
    /\ Running
    /\ Cur.code \in {ST, STX}
    /\ mem' = [w \in DOMAIN mem \cup {Cur.k} |->
                  IF w # Cur.k THEN mem[w] ELSE IF Cur.code = ST THEN A ELSE X]
    /\ Advance(0)
    /\ UNCHANGED <<prog, buf, wirelen, A, X, status, verdict>>

Ja ==
    /\ Running
    /\ Cur.code = JMP("JA", "")
    /\ Advance(Cur.k)
    /\ UNCHANGED <<prog, buf, wirelen, A, X, mem, status, verdict>>

Jcc ==
    /\ Running
    /\ \E op \in CondOps, src \in {"K", "X"} :
          /\ Cur.code = JMP(op, src)
          /\ Advance(IF Holds(op, A, IF src = "K" THEN Cur.k ELSE X)
                     THEN Cur.jt ELSE Cur.jf)
    /\ UNCHANGED <<prog, buf, wirelen, A, X, mem, status, verdict>>

Alu ==
    /\ Running
    /\ Cur.code \in Known
    /\ \E op \in AluOps, src \in {"K", "X"} :
          /\ Cur.code = ALU(op, src)
          /\ LET b == IF src = "K" THEN Cur.k ELSE X
             IN  \/ /\ op \in {"DIV", "MOD"} /\ src = "X" /\ b = 0
                    /\ Return(0)
                 \/ /\ ~(op \in {"DIV", "MOD"} /\ src = "X" /\ b = 0)
                    /\ A' = AluResult(op, A, b)
                    /\ Advance(0)
                    /\ UNCHANGED <<prog, buf, wirelen, X, mem, status, verdict>>

Misc ==
    /\ Running
    /\ Cur.code \in {TAX, TXA}
    /\ IF Cur.code = TAX THEN X' = A /\ UNCHANGED A ELSE A' = X /\ UNCHANGED X
    /\ Advance(0)
    /\ UNCHANGED <<prog, buf, wirelen, mem, status, verdict>>

Abort ==
    /\ Running
    /\ Cur.code \notin Known
    /\ status' = "abort"
    /\ UNCHANGED <<prog, buf, wirelen, pc, A, X, mem, verdict>>

\* bpf_filter(prog, buf, wirelen, buflen) is called
StartFilter(p, b, w) ==
    /\ prog' = p /\ buf' = b /\ wirelen' = w
    /\ pc' = 1 /\ A' = 0 /\ X' = 0 /\ mem' = [i \in {} |-> 0]
    /\ status' = "run" /\ verdict' = 0

Execute ==
    Ret \/ LdAbs \/ LdInd \/ LdxMsh \/ LdLenImm \/ LdxLenImm \/ LdMem \/ LdxMem
        \/ Store \/ Ja \/ Jcc \/ Alu \/ Misc \/ Abort
=============================================================================
