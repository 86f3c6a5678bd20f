------------------------- MODULE MCCurveLabImports --------------------------
(* Imports of a family of uploads, each well formed or broken in one way.  *)
EXTENDS CurveLabImports, TLC

CONSTANTS j1, j2

MCLimits == [wire_bytes |-> 10, expanded_bytes |-> 20, max_depth |-> 5, max_values |-> 40,
             max_objects |-> 3, max_references |-> 3, max_string_bytes |-> 6,
             max_number_bytes |-> 4, max_numeric_array |-> 3]

InSomeOrder(S) == FoldSet(LAMBDA x, seq : Append(seq, x), <<>>, S)

(* An object with the fields its type requires, and extra ones; a Bag      *)
(* numbers its contents.                                                   *)
Of(type, tag, keys, n, extra) ==
  LET strings == InSomeOrder(Strings(type))
      arrays == InSomeOrder(Coordinates(type)) IN
  [type |-> type, tag |-> tag, keys |-> keys,
   members |-> [i \in DOMAIN strings |-> <<strings[i], Str(4)>>]
     \o [i \in DOMAIN arrays |->
           <<arrays[i], IF arrays[i] \in TextArrays THEN Texts(n, 4) ELSE Numbers(n)>>]
     \o extra]

Object(type, tag, extra) == Of(type, tag, <<>>, 2, extra)

Bag(type, keys, contents) ==
  Of(type, NoTag, keys, Len(keys),
     [i \in DOMAIN contents |-> <<ContentsField(i - 1), contents[i]>>])

Upload(objects) ==
  [encoding |-> "identity", wire |-> 8, size |-> 8, defects |-> {},
   stream |-> [valid |-> TRUE, ended |-> TRUE, unused |-> 0],
   numbers |-> {[length |-> 4, finite |-> TRUE]}, objects |-> objects]

(* A curve on a base that is nested in it, or a bag of curves.  Every      *)
(* way the inner objects can refer to each other and to the outer one.     *)
Nested ==
  {Upload(<<Object("DiscountPWC", 1, << <<"base", Obj(2)>> >>),
            Object("DiscountLogDF", tag, << <<"base", base>>, <<"interp", interp>> >>)>>
            \o IF interp = Obj(3) THEN <<Object("Interp1Linear_v1", 3, <<>>)>> ELSE <<>>) :
     tag \in {NoTag, 1, 2}, base \in {Ref(1), Ref(2), Ref(3)},
     interp \in {Obj(3), Ref(1), Ref(3)}}

Bags ==
  {Upload(<<Bag("Bag", <<"a", "b">>, <<Obj(2), second>>),
            Object("DiscountPWLF", 1, << <<"base", base>> >>)>>
            \o IF second = Obj(3)
               THEN <<Object("DiscountZeroRate", 2, << <<"base", Ref(1)>> >>)>> ELSE <<>>) :
     second \in {Obj(3), Ref(2)}, base \in {Null, Ref(1), Ref(2)}}

(* A bag of a curve and as many references to it.                          *)
Many(keys) ==
  Upload(<<Bag("Bag_v1", keys, [i \in DOMAIN keys |-> IF i = 1 THEN Obj(2) ELSE Ref(1)]),
           Object("DiscountPWC", 1, <<>>)>>)

(* A curve on a base that has an interpolator of its own.                  *)
Sound ==
  Upload(<<Object("DiscountPWC", 1, << <<"base", Obj(2)>> >>),
           Object("DiscountLogDF", 2, << <<"base", Null>>, <<"interp", Obj(3)>> >>),
           Object("Interp1Linear_v1", NoTag, <<>>)>>)

With(o) == [Sound EXCEPT !.objects = <<o>>]

(* The curve o with other node dates.                                      *)
Dated(o, dates) ==
  [o EXCEPT !.members = [i \in DOMAIN @ |-> IF @[i][1] = "nodeDates" THEN <<@[i][1], dates>>
                                            ELSE @[i]]]

(* One curve or bag, broken in one place.                                  *)
Broken ==
  LET curve == Object("DiscountLogDF_v2", NoTag, <<>>) IN
  {[Sound EXCEPT !.wire = 11], [Sound EXCEPT !.encoding = "br"],
   [Sound EXCEPT !.encoding = "gzip", !.size = 21],
   [Sound EXCEPT !.encoding = "gzip", !.stream.valid = FALSE],
   [Sound EXCEPT !.encoding = "gzip", !.stream.ended = FALSE],
   [Sound EXCEPT !.encoding = "gzip", !.stream.unused = 1],
   [Sound EXCEPT !.size = 0], [Sound EXCEPT !.defects = {"escape"}],
   [Sound EXCEPT !.numbers = {[length |-> 5, finite |-> TRUE]}],
   [Sound EXCEPT !.numbers = {[length |-> 3, finite |-> FALSE]}],
   With(Object("Cubic1", NoTag, <<>>)),
   With(Object("DiscountLogDF_v1", NoTag, <<>>)),
   With(Object("DiscountPWC_v1", NoTag, << <<"scheme", Str(4)>> >>)),
   With(Object("DiscountLogDF", NoTag, << <<"scheme", Null>> >>)),
   With([curve EXCEPT !.members = @ \o << <<"name", Str(4)>> >>]),
   With([curve EXCEPT !.members[1][2] = Str(7)]),
   With([curve EXCEPT !.members = Tail(@)]),
   With(Dated(curve, Texts(3, 4))), With(Dated(curve, Numbers(2))),
   With(Dated(curve, Str(4))), With(Dated(curve, Texts(2, 7))),
   With(Of("DiscountLogDF_v2", NoTag, <<>>, 4, <<>>)),
   Many(<<"a", "b", "a">>), Many(<<"a", "">>), Many(<<"a", "b", "c", "d", "e">>),
   With(Bag("Bag_v1", <<"a">>, <<>>)), With(Bag("Bag_v1", <<"a">>, <<Null>>))}

MCUploads == InSomeOrder(Nested \cup Bags \cup {Sound, Many(<<"a", "b", "c", "d">>)} \cup Broken)

Uploads == DOMAIN MCUploads

MCArchives == Uploads
MCContent == MCUploads
=============================================================================
