-------------------------- MODULE MCModuleLifecycle --------------------------
EXTENDS ModuleLifecycle, TLC

\* b requires a, and is loaded with c if it can be.
SomeRequires == {<<"b", "a">>}
SomePrefers  == {<<"b", "c">>}

M(n, type) == [name |-> n, types |-> <<type>>]

\* f takes an integer, something unnamed, an integer or a string, a string under
\* the contract's name for it; or there is another arity, or another method only.
SomeInterface ==
    {<<M("f", "int")>>, <<M("f", "QVariant")>>, <<M("g", "int"), M("f", "int")>>,
     <<M("f", "int"), M("f", "QString")>>, <<M("f", "tstr")>>,
     <<[name |-> "f", types |-> <<>>]>>, <<M("g", "int")>>}

\* What their providers take: a contract's string is not in core_service's table.
SomeTakes ==
    {<<"int", "number">>, <<"QString", "string">>, <<"tstr", "string">>}
    \cup {"QVariant"} \X {"number", "string", "null"}
=============================================================================
