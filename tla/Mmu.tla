--------------------------------- MODULE Mmu ---------------------------------
(* The memory management unit of the DOS OS exercise: the page tables of   *)
(* all processes lie one behind the other at the start of the memory, and  *)
(* a virtual address may name a page behind the end of its process's table.*)
EXTENDS Naturals

CONSTANTS
    ProcNum,      \* PROC_NUM, 32
    PtAmount,     \* PT_AMOUNT, the pages of a process; 16
    PageSize,     \* PAGE_SIZE, 256
    VirtualPages, \* the pages a virtual address can name; 256
    PageTables    \* bound: what the operating system has written

\* req_type, and what each bit of an entry's permission allows.
Right == {"READ", "WRITE", "EXECUTE"}

\* The entries the unit can reach from any page table base.
Entry == 0 .. (ProcNum - 1) * PtAmount + VirtualPages - 1
Frame == Nat

\* offset, page_num and the three bits of info that are used
PageTableEntry == [perm : SUBSET Right, page : Frame,
                   present : BOOLEAN, accessed : BOOLEAN, modified : BOOLEAN]

ASSUME MmuAssumption ==
    /\ ProcNum \in Nat \ {0} /\ PtAmount \in Nat \ {0} /\ PageSize \in Nat \ {0}
    /\ VirtualPages \in Nat /\ VirtualPages >= PtAmount
    /\ PageTables \subseteq [Entry -> PageTableEntry]
    /\ \A t \in PageTables, i \in Entry : ~t[i].accessed /\ ~t[i].modified

VARIABLES
    pte,      \* the memory, read as page table entries
    ptbr,     \* the entry the current process's table begins with
    request,  \* the last argument of mmu_check_request
    granted   \* and its result: an address, or MY_NULL

mmuVars == <<pte, ptbr, request, granted>>

MY_NULL == 0
Request == [p_num : 0 .. ProcNum, addr : 0 .. VirtualPages * PageSize - 1, type : Right]

\* mmu_init
MmuInit ==
    /\ pte \in PageTables
    /\ ptbr = 0
    /\ request = [p_num |-> 0, addr |-> 0, type |-> "READ"]
    /\ granted = MY_NULL

\* Mutant: the number of the process is taken for the place of its table.
SwitchProcessByOne(p) == IF p < ProcNum THEN p ELSE ptbr

\* switch_process
SwitchProcess(p) == IF p < ProcNum THEN p * PtAmount ELSE ptbr

Allows(e, req) == e.present /\ req \in e.perm

Marked(e, req) ==
    [e EXCEPT !.accessed = TRUE, !.modified = @ \/ req = "WRITE"]

\* mmu_check_request and mmu_translate; a number that is no process's keeps
\* the page table base and is refused.
CheckRequest(r) ==
    LET i == SwitchProcess(r.p_num) + r.addr \div PageSize
    IN /\ request' = r
       /\ ptbr' = SwitchProcess(r.p_num)
       /\ \/ /\ r.p_num < ProcNum /\ Allows(pte[i], r.type)
             /\ pte' = [pte EXCEPT ![i] = Marked(@, r.type)]
             /\ granted' = pte[i].page * PageSize + (r.addr % PageSize)
          \/ /\ r.p_num >= ProcNum \/ ~Allows(pte[i], r.type)
             /\ granted' = MY_NULL
             /\ UNCHANGED pte

MmuNext == \E r \in Request : CheckRequest(r)

MmuSpec == MmuInit /\ [][MmuNext]_mmuVars
-----------------------------------------------------------------------------
\* A process whose addresses stay inside its own pages touches no entry of
\* another one, and gets addresses inside its own frames only, whatever
\* the base register held before.  The bits tell the operating system which
\* pages it may give away without writing them back: no step of anybody
\* clears one, or sets the modified bit of a page that may not be written
\* or has not been accessed.
OwnEntries(p) == p * PtAmount .. (p + 1) * PtAmount - 1

InOwnPages(r) == r.p_num < ProcNum /\ r.addr < PtAmount * PageSize

BitsTellUse(old, new) ==
    /\ old.modified => new.modified
    /\ old.accessed => new.accessed
    /\ new.modified => new.accessed /\ "WRITE" \in new.perm

KeepsToOwnTable ==
    [][/\ \A i \in Entry : BitsTellUse(pte[i], pte'[i])
       /\ InOwnPages(request') =>
            /\ \A i \in Entry \ OwnEntries(request'.p_num) : pte'[i] = pte[i]
            /\ granted' # MY_NULL =>
                 \E i \in OwnEntries(request'.p_num) : granted' \div PageSize = pte[i].page]_mmuVars
=============================================================================
