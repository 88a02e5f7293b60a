------------------------------ MODULE MCPatches ------------------------------
EXTENDS Patches
K(k) == Key(k)
MCReplyBodies == {Leaf("null"),
             Put(Put(Leaf("obj"), <<K("a")>>, Leaf("x")), <<K("b")>>, Leaf("y")),
             Put(Push(Push(Put(Leaf("obj"), <<K("a")>>, Leaf("arr")), <<K("a")>>, Leaf("x")), <<K("a")>>, Leaf("y")), <<K("b")>>, Leaf("null")),
             Push(Push(Leaf("arr"), <<>>, Put(Leaf("obj"), <<K("a")>>, Leaf("x"))), <<>>, Leaf("y"))}
MCHeaders == {<<<<"content-type", "json">>, <<"h", "1">>, <<"h", "2">>>>, <<<<"content-type", "html">>>>}
MCPaths == {<<>>, <<K("status")>>, <<K("headers"), K("h")>>, <<K("headers"), K("content-type")>>, <<K("body")>>, <<K("a")>>, <<K("body"), K("a")>>,
            <<K("a"), K("b")>>, <<K("a"), K("b"), K("c")>>, <<K("a"), At(0)>>, <<K("a"), At(1)>>, <<K("a"), At(2)>>, <<K("a"), ToEnd>>, <<K("a"), NoNumber>>,
            <<At(0)>>, <<K("body"), At(0)>>, <<K("body"), At(0), K("a")>>, <<K("a"), At(1), K("b")>>}
MCValues == {Leaf("404"), Leaf("700"), Leaf("42"), Push(Leaf("arr"), <<>>, Leaf("x"))}
MCOps == [op : {"set"}, path : MCPaths, value : MCValues] \cup [op : {"append"}, path : MCPaths, value : {Leaf("404")}] \cup [op : {"delete"}, path : MCPaths, value : {Leaf("null")}]
MCPatchLists == {<<p>> : p \in MCOps} \cup (MCOps \X MCOps)
=============================================================================
