--------------------------- MODULE MCFileTransfer ---------------------------
(* FileTransfer for TLC: two devices send to a third.                        *)
EXTENDS FileTransfer

\* Paths: two files in a directory, and the same file by another name.
FileA == <<"d", "a">>
FileB == <<"d", "b">>
Dir == <<"d">>
DotA == <<"cur", "d", "a">>
RootA == <<"root", "a">>

Two == {1, 2}
OneEach == [t \in Two |-> t]
DirFiles == (Dir :> <<FileA, FileB>>)

\* Transfer 1 offers the directory, transfer 2 one of its files: a chunk and a half,
\* and an empty file.
OfferDir == (1 :> <<Dir>>) @@ (2 :> <<DotA>>)
DirContent == (1 :> ((FileA :> <<"a1", "a2", "a3">>) @@ (FileB :> <<>>)))
              @@ (2 :> (DotA :> <<"c1", "c2">>))

\* Two transfers over one session, of a file of two chunks and of an absolute path.
One == {1}
OneSession == (1 :> 1) @@ (2 :> 1)
NoDirs == [p \in {} |-> <<>>]
OfferRoot == (1 :> <<FileA>>) @@ (2 :> <<RootA>>)
RootContent == (1 :> (FileA :> <<"a1", "a2", "a3">>)) @@ (2 :> (RootA :> <<"c1">>))
=============================================================================
