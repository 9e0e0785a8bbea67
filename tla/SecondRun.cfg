CONSTANT MaxIds = 3
SPECIFICATION Spec
INVARIANT SilentlyReadIdsFollow
