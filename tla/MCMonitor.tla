----------------------------- MODULE MCMonitor -----------------------------
(***************************************************************************)
(* A small archive for Mount and Monitor, and what is typed.               *)
(***************************************************************************)
EXTENDS Monitor

\* As tar lists them: a directory, an executable of whole blocks, a file without
\* contents that hides a directory, this one with a file of a broken block, another
\* such file, and a second file without contents that comes to its name.
SysrootNames ==
  <<<<"s", "/">>, <<"s", "/", "e">>, <<"s", "/", "d", "b">>, <<"s", "/", "d", "/">>,
    <<"s", "/", "d", "/", "b">>, <<"s", "/", "c">>, <<"s", "/", "c", "a">>>>
SysrootContents == <<<<>>, <<"e", "e">>, <<>>, <<>>, <<"b">>, <<"c">>, <<>>>>

NamesLeft ==
  <<<<"s">>, <<"s", "/", "e">>, <<"s", "/", "d">>, <<"s", "/", "d">>,
    <<"s", "/", "d", "/", "b">>, <<"s", "/", "c">>, <<"s", "/", "c">>>>

FileE == <<"/", "s", "/", "e">>
FileC == <<"/", "s", "/", "c">>
FileB == <<"/", "/", "s", "/", "d", "/", "b">>
DirD == <<"/", "s", "/", "d", "/">>
NoFile == <<"/", "s", "/", "x">>
NoPath == <<"s">>

X(n) == [i \in 1 .. n |-> "x"]
Typed(command, path, rest) == <<command, " ">> \o path \o <<" ">> \o rest

TypedLines ==
  {<<>>, <<" ">>, <<"x">>, <<"ls", " ", " ">>, <<" ", "stat", " ">> \o DirD,
   <<"ls", " ">> \o NoPath, <<"listh">>, <<"inttest">>, <<"write", " ">> \o FileE, <<"readelf">>}
  \cup {Typed("write", FileB, X(n)) : n \in {1, 2, 3, 4}}
  \cup {Typed("write", FileE, X(n)) : n \in {3, 4}}
  \cup {Typed("write", FileC, X(n)) : n \in {2, 3}}
  \cup {Typed(c, p, n) : c \in {"read", "ropen"}, p \in {FileE, FileB, DirD, <<"/">>, NoFile},
                         n \in {<<"3">>, <<"-", "1">>, <<"/">>}}
  \cup {Typed("write", p, <<"x">>) : p \in {DirD, <<"/">>, NoFile}}
  \cup {<<c, " ">> \o p : c \in {"symbols", "readelf"}, p \in {FileE, FileB, <<"/">>, NoFile}}

\* Each word that is a command is one character.
Characters ==
  {" ", "-", "/", "1", "3", "a", "b", "c", "d", "e", "s", "x", "ls", "stat", "listh", "inttest",
   "read", "write", "ropen", "symbols", "readelf"}

\* The slash is the character before '0', the space one far before it.
Distances ==
  [c \in Characters |->
     CASE c = "1" -> 1 [] c = "3" -> 3 [] c = "/" -> -1 [] c = " " -> -16 [] c = "-" -> -3
       [] OTHER -> 50]

AnyData == {X(n) : n \in 1 .. 4}
=============================================================================
