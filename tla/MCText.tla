------------------------------- MODULE MCText -------------------------------
(* Model-checking instance of Text. *)
EXTENDS Text

Marks   == {"x", "lt", ";", "&", "<", ">", " ", "quote", "apostrophe",
            "code", "/code", "pre", "p", "img"}
Strokes == {"x", "n", "r", "t", "\\", "newline", "return", "tab", "tick", "fence"}

MCPages == BoundedSeq(Marks, 4)
MCPosts == {post \in BoundedSeq(Strokes, 5) : Written(post)}
MCFiles == BoundedSeq(BoundedSeq({"k", "v", "="}, 3), 2)
MCSlug  == <<"cpp">>
=============================================================================
