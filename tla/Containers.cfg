SPECIFICATION Spec
INVARIANT VectorsSound
INVARIANT TreeSound
PROPERTY OMapIsDictionary
INVARIANT TableSound
PROPERTY MapIsDictionary
PROPERTY SetsAgree
INVARIANT ListsAgree
