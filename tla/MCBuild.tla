------------------------------- MODULE MCBuild -------------------------------
(***************************************************************************)
(* Sample programs for Build.                                               *)
(***************************************************************************)
EXTENDS Build

App == <<"app">>
Util == <<"util">>
Point == <<"Point">>
Shape == <<"Shape">>
CellS == <<"app", "s">>
CellT == <<"app", "t">>
Alloc == <<"link", "alloc">>
Order == <<CellS, CellT, App, <<"dep">>, Intrinsics, Alloc, Point, Shape, <<"rt">>, Util>>

Ints(ns) == ArrayC(<<"I">>, [k \in DOMAIN ns |-> IntC(ns[k])])

Fn(owner, name, body) ==
    [owner |-> owner, name |-> <<name>>, body |-> body, static |-> TRUE, receiver |-> <<>>, trait |-> <<>>,
     placed |-> <<>>, drops |-> <<>>, named |-> <<>>, vtables |-> <<>>, uses |-> <<>>, needs |-> {}, runtime |-> FALSE,
     bodiless |-> FALSE, bad |-> FALSE]

Program(fns, units) ==
    [functions |-> [id \in {<<f.owner, f.name>> : f \in fns} |->
                        CHOOSE f \in fns : <<f.owner, f.name>> = id],
     units |-> units, exports |-> <<>>, reachable |-> <<>>, unreadable |-> {}, order |-> Order,
     types |-> [n \in {Point} |-> <<<<"x">>>>], traits |-> [n \in {Shape} |-> <<<<"area">>>>],
     intrinsics |-> <<Fn(Intrinsics, "add", <<Move(0, IntC(7)), Return(0)>>),
                      Fn(Intrinsics, "mul", <<Move(0, LongC(8)), Return(0)>>)>>,
     statics |-> [id \in {<<CellS, <<"v">>>>, <<CellT, <<"v">>>>} |->
                    IF id[1] = CellS THEN Ints(<<4, 5>>) ELSE IntC(6)],
     threadLocals |-> {}, allocator |-> <<>>, rlibs |-> <<>>, libraries |-> <<>>]

Id(owner, name) == <<owner, <<name>>>>
Good(owner, name) == Fn(owner, name, <<Move(0, IntC(1)), Return(0)>>)

\* Tables that are read, changed or long enough to be filled in two parts.
Tables ==
    Program({Fn(App, "main", <<Call(0, Id(Util, "f")), Call(1, Id(Util, "g")), Return(1)>>),
             Fn(Util, "f", <<Move(0, Ints(<<1, 2, 3, 4>>)), Get(1, 0, 2), Return(1)>>),
             Fn(Util, "g", <<Move(0, Ints(<<5, 6>>)), Move(1, IntC(9)), Put(0, 1, 1), Return(0)>>),
             Fn(App, "k", <<Move(0, Ints(<<1, 2, 3>>)), Move(1, IntC(9)), Put(0, 0, 1), Length(2, 0), Return(0)>>),
             Fn(App, "t", <<ReturnOf(Ints(<<1, 2, 3>>))>>)},
            <<<<Id(App, "main"), Id(Util, "f")>>, <<Id(Util, "g"), Id(App, "k"), Id(App, "t")>>>>)

\* The tables of two fragments of one class.
Clash ==
    Program({Fn(Util, "f", <<Move(0, Ints(<<1, 2, 3, 4>>)), Get(1, 0, 2), Return(1)>>),
             Fn(Util, "h", <<Move(0, Ints(<<5, 6, 7, 8>>)), Get(1, 0, 2), Return(1)>>)},
            <<<<Id(Util, "f")>>, <<Id(Util, "h")>>>>)

\* Tables of objects, of which some are only looked at, and constants that
\* hold each other.
Points == ArrayC(Point, <<InstanceC(Point, <<IntC(1)>>), InstanceC(Point, <<IntC(2)>>)>>)
Deep == PointerC(<<"p">>, SliceC(<<"I">>, <<IntC(1), StaticCallC(<<"wide">>, <<IntC(2)>>), LongC(3)>>))
Objects ==
    Program({Fn(App, "f", <<Move(0, Points), Get(1, 0, 0), Copy(2, 1), GetField(3, 2, 0), Return(3)>>),
             Fn(App, "g", <<Move(0, Points), Get(1, 0, 0), Copy(3, 1), GetField(4, 1, 0), Move(2, IntC(9)),
                            SetField(3, 0, 2), Return(4)>>),
             Fn(App, "h", <<Move(0, Points), Get(1, 0, 1), Return(1)>>),
             Fn(App, "k", <<Call(1, Id(App, "h")), Move(2, IntC(9)), SetField(1, 0, 2), Move(0, Deep), Return(0)>>)},
            <<<<Id(App, "f"), Id(App, "g")>>, <<Id(App, "h"), Id(App, "k")>>>>)

\* Methods of a type and its trait and checked arithmetic, with a library that
\* has methods of the type too.
Method(owner, name, body, placed, trait, needs) ==
    [Fn(owner, name, body) EXCEPT !.receiver = Point, !.placed = <<placed>>, !.trait = trait, !.needs = needs]
Methods ==
    [Program({Method(App, "area", <<Call(0, Id(Intrinsics, "add")), Return(0)>>, "area", Shape, {<<"add">>}),
              Method(App, "len", <<Move(1, StrC(<<"b">>)), Call(0, Id(Intrinsics, "mul")), Return(1)>>, "len",
                     <<>>, {<<"mul">>}),
              Fn(Shape, "helper", <<Move(0, IntC(2)), Return(0)>>)},
             <<<<Id(App, "area")>>, <<Id(App, "len"), Id(Shape, "helper")>>>>)
        EXCEPT !.reachable = <<Point, Shape>>,
               !.rlibs = <<<<create_data_type_classfile_for_class(Point,
                                [interfaces |-> <<>>, fields |-> <<<<"x">>>>,
                                 methods |-> <<Fn(App, "more", <<Move(0, StrC(<<"d">>)), Return(0)>>)>>])>>>>]

\* A library whose exported function and units call functions in no unit.
Exports ==
    [Program({[Fn(App, "w", <<Call(3, Id(Util, "priv")), Return(3)>>)
                  EXCEPT !.uses = <<Point>>, !.drops = <<Id(Util, "glue")>>],
              Method(App, "len", <<Move(1, StrC(<<"b">>)), Return(1)>>, "len", <<>>, {}),
              [Fn(Util, "e", <<Call(0, Id(Util, "priv")), Pointer(1, Id(Util, "by")), Return(1)>>)
                  EXCEPT !.named = <<Id(Util, "by")>>],
              Good(Util, "by"),
              Fn(Util, "priv", <<Move(0, IntC(3)), Return(0)>>),
              Fn(Util, "glue", <<Move(0, IntC(4)), Return(0)>>)},
             <<<<Id(App, "len")>>, <<Id(App, "w")>>>>)
        EXCEPT !.exports = <<Id(Util, "e")>>, !.reachable = <<Point>>]

\* Statics, function pointers and strings in two fragments of a class, and
\* the runtime's jar, one class of which the program has too.
Pointers ==
    [Program({Fn(App, "main", <<Move(0, StrC(<<"a">>)), Pointer(1, Id(Util, "u")), Static(2, Id(CellS, "v")),
                                Return(1)>>),
              Fn(App, "w", <<Pointer(0, Id(App, "main")), Move(2, StrC(<<"c">>)), Static(1, Id(CellT, "v")),
                             Call(3, Id(Alloc, "alloc")), Return(0)>>),
              Fn(App, "z", <<Static(1, Id(CellS, "v")), Move(2, IntC(9)), Put(1, 0, 2), Return(1)>>),
              Fn(Util, "u", <<Call(0, Id(<<"rt">>, "r")), Return(0)>>),
              [Fn(<<"rt">>, "r", <<Move(0, IntC(5)), Return(0)>>) EXCEPT !.runtime = TRUE]},
             <<<<Id(App, "main"), Id(CellS, "v")>>, <<Id(App, "w"), Id(App, "z"), Id(Util, "u"), Id(CellT, "v")>>>>)
        EXCEPT !.allocator = <<Fn(Alloc, "alloc", <<Call(0, Id(<<"rt">>, "r")), Return(0)>>)>>,
               !.libraries = <<<<ModuleClass(<<"rt">>, <<Fn(<<"rt">>, "r", <<Move(0, IntC(5)), Return(0)>>)>>,
                                             <<>>),
                                 ModuleClass(Util, <<>>, <<>>)>>>>]

\* A library whose exported function hands out the address of another.
Reified ==
    [Program({Fn(Util, "e", <<Pointer(0, Id(Util, "priv")), Return(0)>>),
              Fn(Util, "priv", <<Move(0, IntC(3)), Return(0)>>)}, <<>>)
        EXCEPT !.exports = <<Id(Util, "e")>>]

\* A function that cannot be translated and a thread-local static, and a static
\* that cannot be lowered.
Failing ==
    [Program({[Good(App, "a") EXCEPT !.bad = TRUE], Good(Util, "b"), Good(App, "c"), Good(Util, "d")},
             <<<<Id(App, "a")>>, <<Id(Util, "b")>>, <<Id(App, "c"), Id(CellT, "v")>>, <<Id(Util, "d")>>>>)
        EXCEPT !.threadLocals = {Id(CellT, "v")}]
Unreadable ==
    [Program({Good(App, "a"), Good(Util, "b")}, <<<<Id(App, "a")>>, <<Id(Util, "b"), Id(CellS, "v")>>>>)
        EXCEPT !.unreadable = {Id(CellS, "v")}]

\* Two classes with a main function.
Mains == Program({Good(App, "main"), Good(Util, "main")}, <<<<Id(App, "main")>>, <<Id(Util, "main")>>>>)

\* Two fragments whose constants do not fit one pool.
Strings(name, n) == [k \in 1 .. n + 1 |-> IF k <= n THEN Move(0, StrC(<<name, k>>)) ELSE Return(0)]
Overfull ==
    Program({Fn(Util, "f", Strings("f", 26)), Fn(Util, "h", Strings("h", 26))},
            <<<<Id(Util, "f")>>, <<Id(Util, "h")>>>>)

ThePrograms ==
    <<Tables, Clash, Objects, Methods, Exports, Pointers, Reified, Failing, Unreadable, Mains, Overfull>>

\* TLC evaluates a definition once, and what a constant stands for each time.
MCPrograms == LET known == ThePrograms IN known
=============================================================================
