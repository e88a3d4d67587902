SPECIFICATION Spec
CONSTANT NUMBER_OF_BUFFERS = 3
INVARIANT LoadedIfNeeded
