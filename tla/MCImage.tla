------------------------------ MODULE MCImage -------------------------------
(* A small instance of OryxImage: 16 pages of two bytes, twelve of them a    *)
(* task's; LONG_MIN is page 8.                                               *)
EXTENDS OryxImage

Seg(vaddr, filesz, memsz, prot, tag) ==
  [vaddr |-> vaddr, filesz |-> filesz, memsz |-> memsz, prot |-> prot, tag |-> tag]

LdSo == [fixed |-> FALSE, segs |-> <<Seg(0, 2, 2, {"read"}, "ld")>>,
         entry |-> 0, interp |-> <<>>]
Missing == [fixed |-> FALSE, segs |-> <<>>, entry |-> 0, interp |-> <<>>]

\* A static ET_EXEC whose data begins in the middle of its text's last page.
Static == [fixed |-> TRUE,
           segs |-> <<Seg(2, 3, 3, {"read"}, "text"),
                      Seg(5, 1, 1, {"read", "write"}, "data")>>,
           entry |-> 2, interp |-> <<>>]
\* The same with a bss that goes on past the shared page.
Hole == [Static EXCEPT !.segs[2].memsz = 3]
\* An ET_EXEC that has taken the interpreter's first page.
Clash == [fixed |-> TRUE, segs |-> <<Seg(8, 1, 1, {"read"}, "text")>>,
          entry |-> 8,
          interp |-> <<[LdSo EXCEPT !.segs[1].memsz = 4]>>]
\* A position-independent program with an interpreter, and without its own.
Dynamic == [fixed |-> FALSE,
            segs |-> <<Seg(0, 1, 1, {"read"}, "text"),
                       Seg(3, 1, 2, {"read", "write"}, "data")>>,
            entry |-> 0, interp |-> <<LdSo>>]
Orphan == [Dynamic EXCEPT !.interp = <<Missing>>]

MCPrograms == {Static, Hole, Dynamic, Orphan, Clash}
MCArgLists == {[argv |-> <<9>>, envp |-> <<12, 4>>],
               [argv |-> <<7, 8>>, envp |-> <<21, 2>>]}
MCTags == {"text", "data", "ld", "args", "file", "result"}

Mapping(addr, len, prot, fixed, file) ==
  [op |-> "mmap", addr |-> addr, len |-> len, prot |-> prot, fixed |-> fixed,
   file |-> file]

MCRequests ==
       {[op |-> "brk", want |-> w] : w \in {0, 8, 13, 16, 19, 31}}
  \cup {Mapping(0, 2, {"read"}, FALSE, 0), Mapping(0, 31, {}, FALSE, 0),
        Mapping(16, 3, {"read", "write"}, FALSE, 1),
        Mapping(4, 2, {"read"}, TRUE, 2), Mapping(16, 2, {}, TRUE, 0),
        Mapping(22, 4, {"read"}, TRUE, 0)}
  \cup {[op |-> "munmap", addr |-> a, len |-> n] : a \in {4, 14}, n \in {2, 31}}
  \cup {[op |-> "munmap", addr |-> 11, len |-> 2]}
  \cup {[op |-> "mprotect", addr |-> a, len |-> n, prot |-> r] :
          a \in {4, 14}, n \in {2}, r \in {{}, {"read"}}}
MCEntries == {NOSEL, 6, 9}
MCBuffers == {<<5, 1>>, <<13, 2>>}
=============================================================================
