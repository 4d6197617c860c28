------------------------------- MODULE MCGallery -------------------------------
EXTENDS Gallery

MCNames == {<<"LOOP", "a">>, <<"EMR", "a">>, <<"LOOP", "b">>}
MCBytes == <<3, 2, 1>>
MCSizeKib == <<1, 1, 0>>
=============================================================================
