---------------------------- MODULE MCAssetImport ----------------------------
(* A glTF whose second primitive alone has normals, and whose third is no   *)
(* list of triangles; a file that does not parse; an image that is written  *)
(* where the glTF is; and an environment of two faces and two levels.       *)
EXTENDS AssetImport

Prim(tri, pos, norm, uv, idx) ==
    [triangles |-> tri, indexed |-> TRUE, pos |-> pos, norm |-> norm, uv |-> uv, idx |-> idx]
Image(embedded, w, h, px) == [embedded |-> embedded, readable |-> TRUE, w |-> w, h |-> h, px |-> px]

MCSource ==
    "crate.glb" :> [kind |-> "gltf", out |-> "crate",
                    prims |-> <<Prim(TRUE, <<11, 12, 13>>, <<>>, <<21, 22, 23>>, <<0, 1, 2>>),
                                Prim(FALSE, <<14, 15, 16>>, <<>>, <<>>, <<0, 1, 2>>),
                                Prim(TRUE, <<12, 13, 17, 17>>, <<32, 33, 37, 37>>, <<>>, <<0, 1, 2, 0, 1, 3>>)>>,
                    images |-> <<Image(FALSE, 1, 1, <<50>>), Image(TRUE, 2, 1, <<60, 80>>)>>]
    @@ "broken.glb" :> [kind |-> "gltf", out |-> "broken", prims |-> <<>>, images |-> <<>>]
    @@ "crate.png" :> [kind |-> "image", out |-> "crate", prims |-> <<>>, images |-> <<Image(TRUE, 1, 3, <<1, 2, 3>>)>>]
    @@ "bad.png" :> [kind |-> "image", out |-> "broken", prims |-> <<>>,
                     images |-> <<[Image(TRUE, 1, 1, <<1>>) EXCEPT !.readable = FALSE]>>]
    @@ "sky.hdr" :> [kind |-> "hdr", out |-> "broken", prims |-> <<>>, images |-> <<>>,
                     faces |-> 2, levels |-> 2, base |-> 2, lut |-> 2]
=============================================================================
