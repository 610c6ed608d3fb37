SPECIFICATION Spec
INVARIANT EmptyRegistryIsVanilla
