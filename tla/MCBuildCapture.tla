--------------------------- MODULE MCBuildCapture ---------------------------
(***************************************************************************)
(* Builds of the sources a and b: each menu has commands that a makefile   *)
(* may run in every order and overlap that their files allow.              *)
(***************************************************************************)
EXTENDS BuildCapture, TLC

MCKind ==
    [f \in {"a.c", "b.c"} |-> "c"] @@ [f \in {"x.h"} |-> "h"]
    @@ [f \in {"a.o", "b.o", "c.o", "d/a.o", "d/b.o"} |-> "o"]
    @@ [f \in {"libab.a", "e/libab.a"} |-> "a"] @@ ("ab.so" :> "so")
    @@ [f \in {"prog", "test", "a.out"} |-> "program"]
    @@ [f \in {"d", "e", "bin", "usr"} |-> "directory"]
MCObject == "a.c" :> "a.o" @@ "b.c" :> "b.o"
MCLibrary == <<"e", "ab">> :> "e/libab.a" @@ <<"d", "ab">> :> "libab.a"
MCInside == <<"d", "a.o">> :> "d/a.o" @@ <<"d", "b.o">> :> "d/b.o"

Files(fs) == [i \in DOMAIN fs |-> <<"file", fs[i]>>]
Gcc(opts, fs) == [tool |-> "gcc", args |-> opts \o Files(fs)]
Ld(opts, fs) == [tool |-> "ld", args |-> opts \o Files(fs)]
Ar(op, fs) == [tool |-> "ar", args |-> <<<<"op", op>>>> \o Files(fs)]
Mv(fs) == [tool |-> "mv", args |-> Files(fs)]
Install(opts, fs) == [tool |-> "install", args |-> opts \o Files(fs)]

C == <<"-c">>
To(f) == <<"-o", f>>
D(n) == <<"-D", n>>

NoMenus == {{}}

MCMenus ==
    {{},
     \* objects, an archive, two programs linked from it
     {Gcc(<<C>>, <<"a.c">>), Gcc(<<C, To("b.o"), D("n"), <<"-MD">>>>, <<"b.c">>),
      Ar({"r", "c"}, <<"libab.a", "a.o", "b.o">>), Ar({"t"}, <<"libab.a">>),
      Gcc(<<To("prog"), <<"-L", "e">>, <<"-L", "d">>, <<"-l", "ab">>>>, <<"a.o">>),
      Ld(<<To("test")>>, <<"b.o", "libab.a">>)},
     \* a compilation straight to a program, one by renames, an installation
     {Gcc(<<D("n"), To("test")>>, <<"a.c">>), Gcc(<<C, <<"-include", "x.h">>>>, <<"b.c">>),
      Mv(<<"b.o", "c.o">>), Mv(<<"c.o", "d/b.o">>), Gcc(<<To("prog")>>, <<"d/b.o">>),
      Gcc(<<<<"-E">>>>, <<"a.c">>),
      Install(<<<<"-t", "bin">>>>, <<"test", "prog">>), Install(<<>>, <<"prog", "usr">>)},
     \* several sources and renames at once, a combined object, a shared library
     {Gcc(<<C>>, <<"a.c", "b.c">>), Mv(<<"a.o", "b.o", "d">>),
      Ld(<<To("c.o")>>, <<"d/a.o", "d/b.o">>), Gcc(<<To("ab.so")>>, <<"c.o">>),
      Gcc(<<>>, <<"d/a.o">>), Install(<<<<"-d">>>>, <<"usr">>)},
     \* compilations that are linked at once; listing of dependencies
     {Gcc(<<To("prog")>>, <<"a.c">>), Gcc(<<To("test"), <<"-imacros", "x.h">>>>, <<"b.c">>),
      Gcc(<<<<"-M">>>>, <<"a.c">>), Gcc(<<<<"-MD">>, <<"-MT", "c.o">>, C, To("c.o")>>, <<"b.c">>),
      Ar({"q", "a"}, <<"b.o", "libab.a", "c.o">>), Gcc(<<>>, <<"libab.a">>)}}

\* Builds that csmake mistakes
MCMishaps ==
    {{Gcc(<<To("prog")>>, <<"a.c", "b.c">>)},
     {Gcc(<<To("prog")>>, <<"a.c">>), Gcc(<<To("test")>>, <<"b.c">>)},
     {Gcc(<<C>>, <<"a.c">>), Gcc(<<C, D("n"), To("a.o")>>, <<"a.c">>),
      Mv(<<"a.o", "c.o">>), Gcc(<<>>, <<"c.o">>), Gcc(<<To("prog")>>, <<"a.o">>)},
     {Gcc(<<C>>, <<"a.c">>), Mv(<<"a.o", "c.o">>), Mv(<<"c.o", "a.o">>), Gcc(<<>>, <<"a.o">>)},
     {Gcc(<<C>>, <<"a.c">>), Gcc(<<C>>, <<"b.c">>), Ar({"r"}, <<"libab.a", "a.o">>),
      Ar({"r"}, <<"libab.a", "b.o">>), Ar({"m"}, <<"libab.a", "a.o">>), Gcc(<<>>, <<"libab.a">>)},
     {Gcc(<<C>>, <<"a.c">>), Gcc(<<To("ab.so")>>, <<"a.o">>), Gcc(<<>>, <<"ab.so">>)},
     {Gcc(<<C>>, <<"a.c">>), Mv(<<"a.o", "d">>), Gcc(<<>>, <<"d/a.o">>)},
     {Gcc(<<C>>, <<"a.c">>), Ld(<<To("prog")>>, <<"a.o">>), Gcc(<<To("test")>>, <<"a.o">>),
      Mv(<<"test", "a.out">>), Install(<<>>, <<"prog", "a.out", "bin">>)}}
=============================================================================
